--------------------------- MODULE Editor_proofs ---------------------------
(***************************************************************************)
(* Proofs about the editor, for every document, every text, every batch    *)
(* and every bound: the text area shows the document, an input method is   *)
(* not disturbed, carets stay behind their characters, and without a       *)
(* socket what is shown is in the document or about to be put.             *)
(*                                                                         *)
(* The document and the text area change in different places.  Whatever    *)
(* types computes the difference to the items that are shown, and that the *)
(* difference, applied, shows the text is Rga_proofs' DifferenceShown;     *)
(* whatever arrives ends by showing the document.  An input method is the  *)
(* exception: the text area runs ahead, and what it began with must still  *)
(* be what the document shows, which is why content is held back.  The     *)
(* other is a batch of others that stops half-way: torn.                   *)
(***************************************************************************)
EXTENDS EditorRest, Rga_proofs

\* The definition runs through the operations once.
LEMMA WithoutRuns ==
    ASSUME NEW S, NEW ops \in Seq(S), NEW keys
    PROVE  \E kept :
              /\ kept[0] = << >>
              /\ \A n \in 1 .. Len(ops) :
                    kept[n] = IF Key(ops[n]) \in keys THEN kept[n - 1] ELSE Append(kept[n - 1], ops[n])
              /\ Without(ops, keys) = kept[Len(ops)]
<1> DEFINE N == Len(ops)
           next(x, n) == IF Key(ops[n]) \in keys THEN x ELSE Append(x, ops[n])
           Loop(k, n) == k = [m \in 0 .. n |-> IF m = 0 THEN << >> ELSE next(k[m - 1], m)]
           T == {n \in Nat : \E k : Loop(k, n)}
           kept == CHOOSE k : Loop(k, N)
<1>1. N \in Nat  OBVIOUS
<1>2. Without(ops, keys) = kept[N]  BY DEF Without
<1>3. \A x, n : next(x, n) = IF Key(ops[n]) \in keys THEN x ELSE Append(x, ops[n])  OBVIOUS
<1> HIDE DEF N, next
<1>4. 0 \in T
  <2>1. Loop([m \in 0 .. 0 |-> << >>], 0)  OBVIOUS
  <2>2. QED BY <2>1
<1>5. ASSUME NEW n \in T PROVE n + 1 \in T
  <2>1. PICK k : Loop(k, n)  OBVIOUS
  <2> DEFINE h == [m \in 0 .. n + 1 |-> IF m = n + 1 THEN next(k[n], n + 1) ELSE k[m]]
  <2>2. ASSUME NEW m \in 0 .. n + 1
        PROVE  h[m] = IF m = 0 THEN << >> ELSE next(h[m - 1], m)
    <3>1. CASE m = 0
      <4>1. m \in 0 .. n /\ m # n + 1  BY <3>1
      <4>2. h[m] = k[m] /\ k[m] = << >>  BY <2>1, <3>1, <4>1
      <4>3. QED BY <3>1, <4>2
    <3>2. CASE m # 0 /\ m # n + 1
      <4>1. m \in 0 .. n /\ m - 1 \in 0 .. n + 1 /\ m - 1 # n + 1  BY <3>2
      <4>2. h[m] = k[m] /\ h[m - 1] = k[m - 1]  BY <3>2, <4>1
      <4>3. k[m] = next(k[m - 1], m)  BY <2>1, <3>2, <4>1
      <4>4. QED BY <3>2, <4>2, <4>3
    <3>3. CASE m # 0 /\ m = n + 1
      <4>1. m - 1 = n /\ n \in 0 .. n + 1 /\ n # n + 1  BY <3>3
      <4>2. h[n] = k[n] /\ h[m] = next(k[n], n + 1)  BY <3>3, <4>1
      <4>3. QED BY <3>3, <4>1, <4>2
    <3>4. QED BY <3>1, <3>2, <3>3
  <2>3. h = [m \in 0 .. n + 1 |-> h[m]]  OBVIOUS
  <2> HIDE DEF h
  <2>4. Loop(h, n + 1)  BY <2>2, <2>3
  <2> HIDE DEF Loop
  <2>5. QED BY <2>4
<1>6. T = Nat
  <2>1. T \in SUBSET Nat  OBVIOUS
  <2> HIDE DEF T
  <2>2. QED BY <1>4, <1>5, <2>1, SetInduction
<1>7. Loop(kept, N)
  <2>1. \E k : Loop(k, N)  BY <1>1, <1>6
  <2> HIDE DEF Loop
  <2>2. QED BY <2>1
<1> HIDE DEF kept
<1>8. kept[0] = << >>  BY <1>1, <1>7
<1>9. \A n \in 1 .. N : kept[n] = next(kept[n - 1], n)
  <2> SUFFICES ASSUME NEW n \in 1 .. N PROVE kept[n] = next(kept[n - 1], n)
    OBVIOUS
  <2>1. n \in 0 .. N /\ n # 0  BY <1>1
  <2>2. QED BY <1>7, <2>1
<1>10. QED BY <1>2, <1>3, <1>8, <1>9 DEF N

\* An inverse is made from the end of the batch.
LEMMA InverseRuns ==
    ASSUME NEW e, NEW S, NEW ops \in Seq(S)
    PROVE  \E acc :
              /\ acc[0] = [clock |-> e.clock, ops |-> << >>]
              /\ \A n \in 1 .. Len(ops) :
                    acc[n] = Undoing(e, acc[n - 1], ops[Len(ops) + 1 - n])
              /\ InverseOps(e, ops) = acc[Len(ops)]
<1> DEFINE N == Len(ops)
           next(x, n) == Undoing(e, x, ops[Len(ops) + 1 - n])
           Loop(k, n) == k = [m \in 0 .. n |-> IF m = 0 THEN [clock |-> e.clock, ops |-> << >>] ELSE next(k[m - 1], m)]
           T == {n \in Nat : \E k : Loop(k, n)}
           acc == CHOOSE k : Loop(k, N)
<1>1. N \in Nat  OBVIOUS
<1>2. InverseOps(e, ops) = acc[N]  BY DEF InverseOps
<1>3. \A x, n : next(x, n) = Undoing(e, x, ops[Len(ops) + 1 - n])  OBVIOUS
<1> HIDE DEF N, next
<1>4. 0 \in T
  <2>1. Loop([m \in 0 .. 0 |-> [clock |-> e.clock, ops |-> << >>]], 0)  OBVIOUS
  <2>2. QED BY <2>1
<1>5. ASSUME NEW n \in T PROVE n + 1 \in T
  <2>1. PICK k : Loop(k, n)  OBVIOUS
  <2> DEFINE h == [m \in 0 .. n + 1 |-> IF m = n + 1 THEN next(k[n], n + 1) ELSE k[m]]
  <2>2. ASSUME NEW m \in 0 .. n + 1
        PROVE  h[m] = IF m = 0 THEN [clock |-> e.clock, ops |-> << >>] ELSE next(h[m - 1], m)
    <3>1. CASE m = 0
      <4>1. m \in 0 .. n /\ m # n + 1  BY <3>1
      <4>2. h[m] = k[m] /\ k[m] = [clock |-> e.clock, ops |-> << >>]  BY <2>1, <3>1, <4>1
      <4>3. QED BY <3>1, <4>2
    <3>2. CASE m # 0 /\ m # n + 1
      <4>1. m \in 0 .. n /\ m - 1 \in 0 .. n + 1 /\ m - 1 # n + 1  BY <3>2
      <4>2. h[m] = k[m] /\ h[m - 1] = k[m - 1]  BY <3>2, <4>1
      <4>3. k[m] = next(k[m - 1], m)  BY <2>1, <3>2, <4>1
      <4>4. QED BY <3>2, <4>2, <4>3
    <3>3. CASE m # 0 /\ m = n + 1
      <4>1. m - 1 = n /\ n \in 0 .. n + 1 /\ n # n + 1  BY <3>3
      <4>2. h[n] = k[n] /\ h[m] = next(k[n], n + 1)  BY <3>3, <4>1
      <4>3. QED BY <3>3, <4>1, <4>2
    <3>4. QED BY <3>1, <3>2, <3>3
  <2>3. h = [m \in 0 .. n + 1 |-> h[m]]  OBVIOUS
  <2> HIDE DEF h
  <2>4. Loop(h, n + 1)  BY <2>2, <2>3
  <2> HIDE DEF Loop
  <2>5. QED BY <2>4
<1>6. T = Nat
  <2>1. T \in SUBSET Nat  OBVIOUS
  <2> HIDE DEF T
  <2>2. QED BY <1>4, <1>5, <2>1, SetInduction
<1>7. Loop(acc, N)
  <2>1. \E k : Loop(k, N)  BY <1>1, <1>6
  <2> HIDE DEF Loop
  <2>2. QED BY <2>1
<1> HIDE DEF acc
<1>8. acc[0] = [clock |-> e.clock, ops |-> << >>]  BY <1>1, <1>7
<1>9. \A n \in 1 .. N : acc[n] = next(acc[n - 1], n)
  <2> SUFFICES ASSUME NEW n \in 1 .. N PROVE acc[n] = next(acc[n - 1], n)
    OBVIOUS
  <2>1. n \in 0 .. N /\ n # 0  BY <1>1
  <2>2. QED BY <1>7, <2>1
<1>10. QED BY <1>2, <1>3, <1>8, <1>9 DEF N

\* Frames that were held back are handled one after the other.
LEMMA HandlingRuns ==
    ASSUME NEW e, NEW S, NEW frames \in Seq(S), NEW join
    PROVE  \E after :
              /\ after[0] = e
              /\ \A n \in 1 .. Len(frames) :
                    after[n] = Handle(after[n - 1], frames[n], join)
              /\ HandleAll(e, frames, join) = after[Len(frames)]
<1> DEFINE N == Len(frames)
           next(x, n) == Handle(x, frames[n], join)
           Loop(k, n) == k = [m \in 0 .. n |-> IF m = 0 THEN e ELSE next(k[m - 1], m)]
           T == {n \in Nat : \E k : Loop(k, n)}
           after == CHOOSE k : Loop(k, N)
<1>1. N \in Nat  OBVIOUS
<1>2. HandleAll(e, frames, join) = after[N]  BY DEF HandleAll
<1>3. \A x, n : next(x, n) = Handle(x, frames[n], join)  OBVIOUS
<1> HIDE DEF N, next
<1>4. 0 \in T
  <2>1. Loop([m \in 0 .. 0 |-> e], 0)  OBVIOUS
  <2>2. QED BY <2>1
<1>5. ASSUME NEW n \in T PROVE n + 1 \in T
  <2>1. PICK k : Loop(k, n)  OBVIOUS
  <2> DEFINE h == [m \in 0 .. n + 1 |-> IF m = n + 1 THEN next(k[n], n + 1) ELSE k[m]]
  <2>2. ASSUME NEW m \in 0 .. n + 1
        PROVE  h[m] = IF m = 0 THEN e ELSE next(h[m - 1], m)
    <3>1. CASE m = 0
      <4>1. m \in 0 .. n /\ m # n + 1  BY <3>1
      <4>2. h[m] = k[m] /\ k[m] = e  BY <2>1, <3>1, <4>1
      <4>3. QED BY <3>1, <4>2
    <3>2. CASE m # 0 /\ m # n + 1
      <4>1. m \in 0 .. n /\ m - 1 \in 0 .. n + 1 /\ m - 1 # n + 1  BY <3>2
      <4>2. h[m] = k[m] /\ h[m - 1] = k[m - 1]  BY <3>2, <4>1
      <4>3. k[m] = next(k[m - 1], m)  BY <2>1, <3>2, <4>1
      <4>4. QED BY <3>2, <4>2, <4>3
    <3>3. CASE m # 0 /\ m = n + 1
      <4>1. m - 1 = n /\ n \in 0 .. n + 1 /\ n # n + 1  BY <3>3
      <4>2. h[n] = k[n] /\ h[m] = next(k[n], n + 1)  BY <3>3, <4>1
      <4>3. QED BY <3>3, <4>1, <4>2
    <3>4. QED BY <3>1, <3>2, <3>3
  <2>3. h = [m \in 0 .. n + 1 |-> h[m]]  OBVIOUS
  <2> HIDE DEF h
  <2>4. Loop(h, n + 1)  BY <2>2, <2>3
  <2> HIDE DEF Loop
  <2>5. QED BY <2>4
<1>6. T = Nat
  <2>1. T \in SUBSET Nat  OBVIOUS
  <2> HIDE DEF T
  <2>2. QED BY <1>4, <1>5, <2>1, SetInduction
<1>7. Loop(after, N)
  <2>1. \E k : Loop(k, N)  BY <1>1, <1>6
  <2> HIDE DEF Loop
  <2>2. QED BY <2>1
<1> HIDE DEF after
<1>8. after[0] = e  BY <1>1, <1>7
<1>9. \A n \in 1 .. N : after[n] = next(after[n - 1], n)
  <2> SUFFICES ASSUME NEW n \in 1 .. N PROVE after[n] = next(after[n - 1], n)
    OBVIOUS
  <2>1. n \in 0 .. N /\ n # 0  BY <1>1
  <2>2. QED BY <1>7, <2>1
<1>10. QED BY <1>2, <1>3, <1>8, <1>9 DEF N

-----------------------------------------------------------------------------
(* What the values are                                                     *)

Ops == AnyOp(Nat)
Trees == Tree(Nat)
Texts == Seq(Nat)
Rooms == [exists : BOOLEAN, gen : Nat, ver : Nat, doc : Trees]
Events == [gen : Nat, ver : Nat, by : Nat, ops : Seq(Ops)]

StateFrames == [type : {"state"}, room : Rooms]
OpsFrames == [type : {"ops"}, gen : Nat, ver : Nat, by : Nat, ops : Seq(Ops), text : Texts]
Acks == [type : {"ack"}, ok : {TRUE}, seq : Nat, gen : Nat, ver : Nat, own : BOOLEAN]
        \cup [type : {"ack"}, ok : {FALSE}, seq : Nat]
CursorFrames == [type : {"cursor"}, after : Id \cup {Root}, pos : Nat]
ContentFrames == StateFrames \cup OpsFrames
Frames == ContentFrames \cup Acks \cup CursorFrames

Fields == {"doc", "clock", "known", "pending", "flying", "seq", "synced", "value", "caret",
           "painted", "undo", "redo", "ime", "base", "deferred", "peer", "ask", "astray", "torn"}

\* The carets, what is in flight and what the page believes to know are of no
\* consequence for the text.
EdType(e) ==
    /\ e = [f \in Fields |-> e[f]]
    /\ e.doc \in Trees /\ e.clock \in Nat /\ e.pending \in Seq(Ops)
    /\ e.undo \in Seq(Seq(Ops)) /\ e.redo \in Seq(Seq(Ops))
    /\ e.value \in Texts /\ e.synced \in Texts
    /\ e.painted \in BOOLEAN /\ e.torn \in BOOLEAN
    /\ e.ime \in {"off", "on", "ending"} /\ e.deferred \in Seq(ContentFrames) /\ e.seq \in Nat

\* Two states of the page that differ in other things than these.
Alike(a, b) ==
    /\ a.ime = b.ime /\ a.base = b.base /\ a.deferred = b.deferred
    /\ a.painted = b.painted /\ a.torn = b.torn
Looks(a, b) == Alike(a, b) /\ a.doc = b.doc /\ a.value = b.value

-----------------------------------------------------------------------------
(* Operations and texts                                                    *)

\* What is left of a batch is a batch of the same operations.
LEMMA WithoutIs ==
    ASSUME NEW S, NEW ops \in Seq(S), NEW keys
    PROVE  Without(ops, keys) \in Seq(S)
<1> DEFINE N == Len(ops)
<1>1. PICK kept :
         /\ kept[0] = << >>
         /\ \A n \in 1 .. N :
               kept[n] = IF Key(ops[n]) \in keys THEN kept[n - 1] ELSE Append(kept[n - 1], ops[n])
         /\ Without(ops, keys) = kept[N]
  BY WithoutRuns
<1>2. N \in Nat /\ \A n \in 1 .. N : ops[n] \in S  OBVIOUS
<1> HIDE DEF N
<1> DEFINE T == {n \in Nat : n <= N => kept[n] \in Seq(S)}
<1>3. 0 \in T
  <2>1. << >> \in Seq(S)  OBVIOUS
  <2>2. kept[0] \in Seq(S)  BY <1>1, <2>1
  <2>3. QED BY <2>2
<1>4. ASSUME NEW n \in T PROVE n + 1 \in T
  <2> SUFFICES ASSUME n + 1 <= N PROVE kept[n + 1] \in Seq(S)
    OBVIOUS
  <2>1. n + 1 \in 1 .. N /\ (n + 1) - 1 = n /\ kept[n] \in Seq(S)  BY <1>2
  <2>2. kept[n + 1] = IF Key(ops[n + 1]) \in keys THEN kept[n] ELSE Append(kept[n], ops[n + 1])
    BY <1>1, <2>1
  <2>3. ops[n + 1] \in S  BY <1>2, <2>1
  <2>4. Append(kept[n], ops[n + 1]) \in Seq(S)  BY <2>1, <2>3
  <2>5. QED BY <2>1, <2>2, <2>4
<1>5. T = Nat
  <2>1. T \in SUBSET Nat  OBVIOUS
  <2> HIDE DEF T
  <2>2. QED BY <1>3, <1>4, <2>1, SetInduction
<1>6. kept[N] \in Seq(S)  BY <1>2, <1>5
<1>7. QED BY <1>1, <1>6

\* What an operation carries.
LEMMA OpIs ==
    ASSUME NEW op \in Ops
    PROVE  op.id.clock \in Nat /\ op.op \in {"ins", "del"} /\ (op.op = "ins" => op.id \in Id)
BY DEF Ops, AnyOp, Id, Root

\* The clock that operations bump.
LEMMA BumpedIs ==
    ASSUME NEW clock \in Nat, NEW ops \in Seq(Ops)
    PROVE  Bumped(clock, ops) \in Nat
<1> DEFINE I == 1 .. Len(ops)
           f == [i \in I |-> ops[i].id.clock]
           S == {clock} \cup {ops[i].id.clock : i \in DOMAIN ops}
<1>1. \A i \in I : ops[i].id.clock \in Nat
  <2>1. \A i \in I : ops[i] \in Ops  OBVIOUS
  <2>2. QED BY <2>1, OpIs
<1>2. f \in [I -> Nat]  BY <1>1
<1>3. IsFiniteSet(I)
  <2>1. 1 \in Int /\ Len(ops) \in Int  OBVIOUS
  <2>2. QED BY <2>1, FS_Interval
<1>4. DOMAIN ops = I  OBVIOUS
<1> HIDE DEF I
<1>5. {f[i] : i \in I} = {ops[i].id.clock : i \in I}  OBVIOUS
<1>6. IsFiniteSet({f[i] : i \in I})
  <2> HIDE DEF f
  <2>1. QED BY <1>2, <1>3, ValuesAreFinite
<1>7. IsFiniteSet(S)
  <2>1. IsFiniteSet({ops[i].id.clock : i \in DOMAIN ops})  BY <1>4, <1>5, <1>6
  <2>2. S = {ops[i].id.clock : i \in DOMAIN ops} \cup {clock}  OBVIOUS
  <2>3. QED BY <2>1, <2>2, FS_AddElement
<1>8. S \in SUBSET Nat /\ S # {}  BY <1>1, <1>4
<1>9. Bumped(clock, ops) = CHOOSE x \in S : \A y \in S : y <= x
  BY DEF Bumped, MaxOf
<1> HIDE DEF S
<1>10. \E x \in S : \A y \in S : y <= x  BY <1>7, <1>8, GreatestNumber
<1>11. Bumped(clock, ops) \in S  BY <1>9, <1>10
<1>12. QED BY <1>8, <1>11

\* A difference is a batch, whatever the identifiers stand for.
LEMMA DiffTyped ==
    ASSUME NEW C, NEW old \in Seq(C), NEW ids \in Seq(Id \cup {Root}), Len(ids) = Len(old),
           NEW new \in Seq(C), NEW site \in Nat \ {0}, NEW clock \in Nat
    PROVE  DiffToOps(ids, old, new, site, clock) \in Seq(AnyOp(C))
<1>1. PICK lo \in Nat, hi \in Nat :
         Difference(old, new, lo, hi)
         /\ Replaces(DiffToOps(ids, old, new, site, clock), ids, old, new, site, clock, lo, hi)
  BY DiffIs
<1> DEFINE n == Len(old) - hi - lo
           m == Len(new) - hi - lo
<1>2. n \in Nat /\ m \in Nat /\ lo + n <= Len(ids) /\ lo + m <= Len(new) /\ lo <= Len(ids)
  <2>1. lo + hi <= Len(old) /\ lo + hi <= Len(new)  BY <1>1 DEF Difference
  <2>2. Len(old) \in Nat /\ Len(new) \in Nat  OBVIOUS
  <2>3. QED BY <2>1, <2>2
<1>3. DiffToOps(ids, old, new, site, clock)
        = BuryOps(ids, lo, n) \o ChainOps(Anchor(ids, lo), site, clock, new, lo, m)
  BY <1>1 DEF Replaces
<1> HIDE DEF n, m
<1>4. BuryOps(ids, lo, n) \in Seq(AnyOp(C))
  <2>1. \A i \in 1 .. n : lo + i \in 1 .. Len(ids)  BY <1>2
  <2>2. \A i \in 1 .. n : DelOp(ids[lo + i]) \in AnyOp(C)
    <3>1. \A i \in 1 .. n : ids[lo + i] \in Id \cup {Root}  BY <2>1
    <3>2. QED BY <3>1 DEF DelOp, AnyOp
  <2>3. QED BY <1>2, <2>2 DEF BuryOps
<1>5. Anchor(ids, lo) \in Id \cup {Root}
  <2>1. CASE lo = 0  BY <2>1 DEF Anchor
  <2>2. CASE lo # 0
    <3>1. lo \in 1 .. Len(ids)  BY <1>2, <2>2
    <3>2. QED BY <2>2, <3>1 DEF Anchor
  <2>3. QED BY <2>1, <2>2
<1>6. ChainOps(Anchor(ids, lo), site, clock, new, lo, m) \in Seq(AnyOp(C))
  <2> DEFINE anchor == Anchor(ids, lo)
  <2>1. anchor \in Id \cup {Root}  BY <1>5
  <2> HIDE DEF anchor
  <2>2. \A i \in 1 .. m : new[lo + i] \in C
    <3>1. \A i \in 1 .. m : lo + i \in 1 .. Len(new)  BY <1>2
    <3>2. QED BY <3>1
  <2>3. \A i \in 1 .. m : FreshId(site, clock, i) \in Id
    BY <1>2 DEF FreshId, Id
  <2>4. ASSUME NEW i \in 1 .. m
        PROVE  InsOp(FreshId(site, clock, i),
                     IF i = 1 THEN anchor ELSE FreshId(site, clock, i - 1), new[lo + i]) \in AnyOp(C)
    <3> DEFINE after == IF i = 1 THEN anchor ELSE FreshId(site, clock, i - 1)
    <3>1. after \in Id \cup {Root}
      <4>1. CASE i = 1  BY <2>1, <4>1
      <4>2. CASE i # 1
        <5>1. i - 1 \in 1 .. m  BY <1>2, <4>2
        <5>2. QED BY <2>3, <4>2, <5>1
      <4>3. QED BY <4>1, <4>2
    <3> HIDE DEF after
    <3>2. InsOp(FreshId(site, clock, i), after, new[lo + i]) \in AnyOp(C)
      BY <2>2, <2>3, <3>1 DEF InsOp, AnyOp
    <3>3. QED BY <3>2 DEF after
  <2>5. ChainOps(anchor, site, clock, new, lo, m) \in Seq(AnyOp(C))
    BY <1>2, <2>4 DEF ChainOps
  <2>6. QED BY <2>5 DEF anchor
<1>7. QED BY <1>3, <1>4, <1>6, ConcatIs

\* A batch turns a document into a document.
LEMMA AppliedIs ==
    ASSUME NEW d \in Trees, NEW ops \in Seq(Ops)
    PROVE  ApplyBatch(d, ops).doc \in Trees /\ ApplyBatch(d, ops).ok \in BOOLEAN
<1>1. ApplyBatch(d, ops) \in Outcome(Trees)  BY BatchTree DEF Trees, Ops
<1>2. QED BY <1>1 DEF Outcome

\* The empty batch fits and changes nothing.
LEMMA NothingApplied ==
    ASSUME NEW d \in Trees
    PROVE  ApplyBatch(d, << >>).doc = d
<1>1. << >> \in Seq(Ops) /\ Len(<< >>) = 0  OBVIOUS
<1>2. PICK run \in [0 .. Len(<< >>) -> Outcome(Trees)] :
         BatchRun(run, d, << >>) /\ ApplyBatch(d, << >>) = run[Len(<< >>)]
  BY <1>1, BatchTree DEF Trees, Ops
<1>3. run[0] = [doc |-> d, ok |-> TRUE]  BY <1>2 DEF BatchRun
<1>4. QED BY <1>1, <1>2, <1>3

\* What a document shows.
LEMMA TreeShows ==
    ASSUME NEW d \in Trees
    PROVE  /\ VisibleIDs(d) \in Seq(Id) /\ Materialize(d) \in Texts
           /\ Len(Materialize(d)) = Len(VisibleIDs(d)) /\ MaxClock(d) \in Nat
           /\ Known(d) \in SUBSET Id
<1>1. VisibleIDs(d) \in Seq(Known(d)) /\ Known(d) \in SUBSET Id
  BY VisibleType, TreeIs DEF Trees
<1>2. Materialize(d) \in Seq(Nat) /\ Len(Materialize(d)) = Len(VisibleIDs(d))
  BY MaterializeIs DEF Trees
<1>3. MaxClock(d) \in Nat  BY MaxClockIs DEF Trees
<1>4. QED BY <1>1, <1>2, <1>3 DEF Texts

-----------------------------------------------------------------------------
(* Local edits                                                             *)

\* The sites are sites.
LEMMA SitesAre == {Me, Peer, Rest} \subseteq Nat \ {0}
BY EditorAssumption

\* A new identifier of this browser is newer than all the document knows.
LEMMA ClockIs ==
    ASSUME NEW e, EdType(e)
    PROVE  Clock(e) \in Nat /\ MaxClock(e.doc) <= Clock(e)
<1>1. e.clock \in Nat /\ e.doc \in Trees  BY DEF EdType
<1>2. MaxClock(e.doc) \in Nat  BY <1>1, TreeShows
<1>3. QED BY <1>1, <1>2 DEF Clock, Larger

\* An edit joins the last entry or becomes one.
LEMMA PushedIs ==
    ASSUME NEW stack \in Seq(Seq(Ops)), NEW ops \in Seq(Ops), NEW join
    PROVE  Pushed(stack, ops, join) \in Seq(Seq(Ops))
<1> DEFINE S == Seq(Ops)
<1>1. stack \in Seq(S) /\ ops \in S  OBVIOUS
<1>2. CASE join /\ stack # << >>
  <2>1. Len(stack) \in 1 .. Len(stack) /\ Len(stack) - 1 \in 0 .. Len(stack) /\ 1 \in 1 .. Len(stack) + 1
        /\ 1 <= (Len(stack) - 1) + 1
    BY <1>2
  <2>2. Front(stack) \in Seq(S)
    <3>1. SubSeq(stack, 1, Len(stack) - 1) \in Seq(S)  BY <1>1, <2>1, SubSeqIs
    <3>2. QED BY <3>1 DEF Front
  <2>3. Last(stack) \in S  BY <1>1, <2>1 DEF Last
  <2>4. Last(stack) \o ops \in S  BY <1>1, <2>3
  <2> HIDE DEF S
  <2>5. <<Last(stack) \o ops>> \in Seq(S)  BY <2>4
  <2>6. Front(stack) \o <<Last(stack) \o ops>> \in Seq(S)  BY <2>2, <2>5
  <2>7. QED BY <1>2, <2>6 DEF Pushed, S
<1>3. CASE ~(join /\ stack # << >>) /\ Len(stack) = MaxUndo
  <2>1. MaxUndo \in Nat \ {0}  BY EditorAssumption
  <2> HIDE DEF S
  <2>2. stack # << >>  BY <1>1, <1>3, <2>1
  <2>3. Tail(stack) \in Seq(S)  BY <1>1, <2>2
  <2>4. Append(Tail(stack), ops) \in Seq(S)  BY <1>1, <2>3
  <2>5. QED BY <1>3, <2>4 DEF Pushed, S
<1>4. CASE ~(join /\ stack # << >>) /\ Len(stack) # MaxUndo
  <2> HIDE DEF S
  <2>1. Append(stack, ops) \in Seq(S)  BY <1>1
  <2>2. QED BY <1>4, <2>1 DEF Pushed, S
<1>5. QED BY <1>2, <1>3, <1>4

\* One operation is undone.
LEMMA UndoingIs ==
    ASSUME NEW e, EdType(e), NEW acc, acc \in [clock : Nat, ops : Seq(Ops)], NEW op \in Ops
    PROVE  Undoing(e, acc, op) \in [clock : Nat, ops : Seq(Ops)]
<1>1. e.doc \in Trees /\ acc.clock \in Nat /\ acc.ops \in Seq(Ops)  BY DEF EdType
<1>2. CASE op.op = "ins"
  <2>1. DelOp(op.id) \in Ops
    <3>1. op.id \in Id  BY <1>2, OpIs
    <3>2. QED BY <3>1 DEF DelOp, Ops, AnyOp
  <2>2. Append(acc.ops, DelOp(op.id)) \in Seq(Ops)  BY <1>1, <2>1
  <2>3. Undoing(e, acc, op) = [acc EXCEPT !.ops = Append(acc.ops, DelOp(op.id))]
    BY <1>2 DEF Undoing
  <2>4. QED BY <2>2, <2>3
<1>3. CASE op.op # "ins" /\ op.id \notin Known(e.doc)
  BY <1>3 DEF Undoing
<1>4. CASE op.op # "ins" /\ op.id \in Known(e.doc)
  <2> DEFINE item == e.doc.items[op.id]
             id == [clock |-> acc.clock + 1, site |-> Me]
             new == InsOp(id, item.after, item.ch)
  <2>1. id \in Id  BY <1>1, SitesAre DEF Id
  <2>2. item.after \in Id \cup {Root} /\ item.ch \in Nat
    <3>1. e.doc \in TreeOf(Known(e.doc), Nat) /\ Known(e.doc) \in SUBSET Id
      BY <1>1, TreeIs DEF Trees
    <3>2. e.doc.items \in [Known(e.doc) -> ItemType(Known(e.doc), Nat)]  BY <3>1 DEF TreeOf
    <3>3. item \in ItemType(Known(e.doc), Nat)  BY <1>4, <3>2
    <3> HIDE DEF item
    <3>4. QED BY <3>1, <3>3 DEF ItemType
  <2> HIDE DEF id, item
  <2>3. new \in Ops  BY <2>1, <2>2 DEF InsOp, Ops, AnyOp
  <2>4. Undoing(e, acc, op) = [clock |-> acc.clock + 1, ops |-> Append(acc.ops, new)]
    BY <1>4 DEF Undoing, id, item
  <2> HIDE DEF new
  <2>5. Append(acc.ops, new) \in Seq(Ops)  BY <1>1, <2>3
  <2>6. QED BY <1>1, <2>4, <2>5
<1>5. QED BY <1>2, <1>3, <1>4

\* The inverse of a batch is a batch.
LEMMA InverseIs ==
    ASSUME NEW e, EdType(e), NEW ops \in Seq(Ops)
    PROVE  InverseOps(e, ops).ops \in Seq(Ops) /\ InverseOps(e, ops).clock \in Nat
<1> DEFINE N == Len(ops)
           R == [clock : Nat, ops : Seq(Ops)]
<1>1. PICK acc :
         /\ acc[0] = [clock |-> e.clock, ops |-> << >>]
         /\ \A n \in 1 .. N : acc[n] = Undoing(e, acc[n - 1], ops[N + 1 - n])
         /\ InverseOps(e, ops) = acc[N]
  BY InverseRuns
<1>2. N \in Nat /\ \A n \in 1 .. N : ops[n] \in Ops  OBVIOUS
<1> HIDE DEF N
<1> DEFINE T == {n \in Nat : n <= N => acc[n] \in R}
<1>3. 0 \in T
  <2>1. << >> \in Seq(Ops) /\ e.clock \in Nat  BY DEF EdType
  <2>2. acc[0] \in R  BY <1>1, <2>1
  <2>3. QED BY <2>2
<1>4. ASSUME NEW n \in T PROVE n + 1 \in T
  <2> SUFFICES ASSUME n + 1 <= N PROVE acc[n + 1] \in R
    OBVIOUS
  <2>1. n + 1 \in 1 .. N /\ (n + 1) - 1 = n /\ acc[n] \in R /\ N + 1 - (n + 1) \in 1 .. N  BY <1>2
  <2>2. acc[n + 1] = Undoing(e, acc[n], ops[N + 1 - (n + 1)])  BY <1>1, <2>1
  <2>3. ops[N + 1 - (n + 1)] \in Ops  BY <1>2, <2>1
  <2>4. QED BY <2>1, <2>2, <2>3, UndoingIs
<1>5. T = Nat
  <2>1. T \in SUBSET Nat  OBVIOUS
  <2> HIDE DEF T
  <2>2. QED BY <1>3, <1>4, <2>1, SetInduction
<1>6. acc[N] \in R  BY <1>2, <1>5
<1>7. QED BY <1>1, <1>6

\* Two differences on one base merge into a text.
LEMMA Merge3Is ==
    ASSUME NEW base \in Texts, NEW mine \in Texts, NEW theirs \in Texts
    PROVE  Merge3(base, mine, theirs) \in Texts
<1> DEFINE d == BuildFromString(1, base)
           O(text, site) == DiffToOps(VisibleIDs(d), base, text, site, Len(base))
           one == ApplyBatch(d, O(theirs, 3)).doc
           two == ApplyBatch(one, O(mine, 2)).doc
<1>1. Merge3(base, mine, theirs) = Materialize(two)  BY DEF Merge3
<1>2. d \in Trees /\ Materialize(d) = base  BY BuildShows DEF Texts, Trees
<1>3. VisibleIDs(d) \in Seq(Id) /\ Len(VisibleIDs(d)) = Len(base)  BY <1>2, TreeShows
<1>4. VisibleIDs(d) \in Seq(Id \cup {Root})  BY <1>3
<1>5. Len(base) \in Nat /\ 2 \in Nat \ {0} /\ 3 \in Nat \ {0}  BY DEF Texts
<1>6. O(theirs, 3) \in Seq(Ops) /\ O(mine, 2) \in Seq(Ops)
  BY <1>3, <1>4, <1>5, DiffTyped DEF Texts, Ops
<1> HIDE DEF d, O
<1>7. one \in Trees  BY <1>2, <1>6, AppliedIs
<1> HIDE DEF one
<1>8. two \in Trees  BY <1>6, <1>7, AppliedIs
<1>9. QED BY <1>1, <1>8, TreeShows

\* A difference is typed: the document, what is pending and the undo stack change.
LEMMA TypedIs ==
    ASSUME NEW e, EdType(e), NEW ops \in Seq(Ops), NEW join, NEW x, x = Typed(e, ops, join)
    PROVE  EdType(x) /\ Alike(x, e) /\ x.value = e.value /\ x.doc = ApplyBatch(e.doc, ops).doc
<1> DEFINE doc == ApplyBatch(e.doc, ops).doc
           y == [e EXCEPT !.doc = doc]
<1>1. e.doc \in Trees  BY DEF EdType
<1>2. doc \in Trees  BY <1>1, AppliedIs
<1>3. CASE ops = << >>
  <2>1. x = e  BY <1>3 DEF Typed
  <2>2. doc = e.doc  BY <1>1, <1>3, NothingApplied
  <2>3. QED BY <2>1, <2>2 DEF Alike
<1>4. CASE ops # << >>
  <2> DEFINE clock == Clock(y)
             pending == e.pending \o ops
             undo == Pushed(e.undo, ops, join)
  <2>1. x = [e EXCEPT !.doc = doc, !.clock = clock, !.pending = pending, !.undo = undo,
                      !.redo = << >>]
    BY <1>4 DEF Typed
  <2> HIDE DEF doc
  <2>2. EdType(y)  BY <1>2 DEF EdType, Fields
  <2>3. clock \in Nat  BY <2>2, ClockIs
  <2>4. pending \in Seq(Ops)
    <3>1. e.pending \in Seq(Ops)  BY DEF EdType
    <3>2. QED BY <3>1
  <2>5. undo \in Seq(Seq(Ops))
    <3>1. e.undo \in Seq(Seq(Ops))  BY DEF EdType
    <3>2. QED BY <3>1, PushedIs
  <2>6. << >> \in Seq(Seq(Ops))  OBVIOUS
  <2> HIDE DEF clock, pending, undo
  <2>7. /\ x = [f \in Fields |-> x[f]] /\ Alike(x, e) /\ x.value = e.value /\ x.doc = doc
        /\ x.clock = clock /\ x.pending = pending /\ x.undo = undo /\ x.redo = << >>
        /\ x.synced = e.synced /\ x.seq = e.seq
    <3>1. e = [f \in Fields |-> e[f]]  BY DEF EdType
    <3>2. x = [f \in Fields |-> x[f]]  BY <2>1, <3>1
    <3>3. Alike(x, e) /\ x.value = e.value /\ x.synced = e.synced /\ x.seq = e.seq
      BY <2>1, <3>1 DEF Fields, Alike
    <3>4. /\ x.doc = doc /\ x.clock = clock /\ x.pending = pending
          /\ x.undo = undo /\ x.redo = << >>
      BY <2>1, <3>1 DEF Fields
    <3>5. QED BY <3>2, <3>3, <3>4
  <2>8. EdType(x)  BY <1>2, <2>3, <2>4, <2>5, <2>6, <2>7 DEF EdType, Alike
  <2>9. QED BY <2>7, <2>8 DEF doc
<1>5. QED BY <1>3, <1>4

\* After a text has been typed the document shows it.
LEMMA LocalTextIs ==
    ASSUME NEW e, EdType(e), NEW text \in Texts, NEW join, NEW x, x = LocalText(e, text, join)
    PROVE  EdType(x) /\ Alike(x, e) /\ x.value = e.value /\ Text(x) = text
<1> DEFINE ops == DiffToOps(VisibleIDs(e.doc), Text(e), text, Me, Clock(e))
<1>1. e.doc \in Trees /\ Clock(e) \in Nat /\ MaxClock(e.doc) <= Clock(e) /\ Me \in Nat \ {0}
  BY ClockIs, SitesAre DEF EdType
<1>2. ops = DiffToOps(VisibleIDs(e.doc), Materialize(e.doc), text, Me, Clock(e))
  BY DEF Text
<1>3. x = Typed(e, ops, join)  BY DEF LocalText
<1> HIDE DEF ops
<1>4. ops \in Seq(Ops) /\ Materialize(ApplyBatch(e.doc, ops).doc) = text
  BY <1>1, <1>2, DifferenceShown DEF Ops, Trees, Texts
<1>5. EdType(x) /\ Alike(x, e) /\ x.value = e.value /\ x.doc = ApplyBatch(e.doc, ops).doc
  BY <1>3, <1>4, TypedIs
<1>6. QED BY <1>4, <1>5 DEF Text

-----------------------------------------------------------------------------
(* Showing the document                                                    *)

\* The text area shows the document, unless nothing has been painted yet or a
\* batch stopped half-way.
Showing(e) == e.painted /\ ~e.torn => e.value = Text(e)

\* The caret of a peer is nothing the text area shows.
LEMMA PeerOnly ==
    ASSUME NEW e, EdType(e), NEW p, NEW x, x = [e EXCEPT !.peer = p]
    PROVE  EdType(x) /\ Looks(x, e) /\ x.caret = e.caret
BY DEF EdType, Fields, Looks, Alike

\* A change of the text moves at most the caret of a peer.
LEMMA TextChangedIs ==
    ASSUME NEW e, EdType(e), NEW old, NEW x, x = TextChanged(e, old)
    PROVE  EdType(x) /\ Looks(x, e) /\ x.caret = e.caret
<1> DEFINE new == Text(e)
           ids == VisibleIDs(e.doc)
           pos == PosAfter(e.peer.after, ids)
           mapped == MapCaret(old, new, e.peer.pos)
           moved == [e EXCEPT !.peer.pos = pos]
           other == [e EXCEPT !.peer = [after |-> AnchorAt(mapped, ids), pos |-> mapped]]
<1>1. x = e \/ x = moved \/ x = other  BY DEF TextChanged
<1>2. moved = [e EXCEPT !.peer = [e.peer EXCEPT !.pos = pos]]  OBVIOUS
<1>3. CASE x = e  BY <1>3 DEF Looks, Alike
<1>4. CASE x = moved
  <2> HIDE DEF pos
  <2>1. QED BY <1>2, <1>4, PeerOnly
<1>5. CASE x = other
  <2> HIDE DEF mapped, ids
  <2>1. QED BY <1>5, PeerOnly
<1>6. QED BY <1>1, <1>3, <1>4, <1>5

\* So does a snapshot.
LEMMA ReanchoredIs ==
    ASSUME NEW e, EdType(e), NEW x, x = Reanchored(e)
    PROVE  EdType(x) /\ Looks(x, e) /\ x.caret = e.caret
<1>1. CASE e.peer = None
  <2>1. x = e  BY <1>1 DEF Reanchored
  <2>2. QED BY <2>1 DEF Looks, Alike
<1>2. CASE e.peer # None
  <2>1. PICK p : x = [e EXCEPT !.peer = p]  BY <1>2 DEF Reanchored
  <2>2. QED BY <2>1, PeerOnly
<1>3. QED BY <1>1, <1>2

\* The caret is behind the item it was behind, if that is shown.
CaretAt(x, sel) == PosAfter(sel.left, VisibleIDs(x.doc)) \in {Unknown, x.caret}

\* setContentValue shows the document; the caret follows.
LEMMA ShowIs ==
    ASSUME NEW e, EdType(e), NEW sel, NEW x, x = Show(e, sel)
    PROVE  /\ EdType(x) /\ Alike(x, e) /\ x.doc = e.doc /\ x.value = Text(e)
           /\ x.value # e.value => CaretAt(x, sel)
<1>1. CASE e.value = Text(e)
  <2>1. x = e  BY <1>1 DEF Show
  <2>2. QED BY <1>1, <2>1 DEF Alike
<1>2. CASE e.value # Text(e)
  <2> DEFINE shown == [e EXCEPT !.value = Text(e)]
             caret == RestoreSelection(shown, sel)
  <2>1. x = [shown EXCEPT !.caret = caret]  BY <1>2 DEF Show
  <2>2. Text(e) \in Texts  BY TreeShows DEF EdType, Text
  <2>3. PosAfter(sel.left, VisibleIDs(shown.doc)) \in {Unknown, caret}  BY DEF RestoreSelection
  <2>4. shown.doc = e.doc  BY DEF EdType, Fields
  <2> HIDE DEF caret
  <2>5. EdType(x) /\ Alike(x, e) /\ x.doc = e.doc /\ x.value = Text(e) /\ x.caret = caret
    BY <2>1, <2>2 DEF EdType, Fields, Alike
  <2>6. QED BY <2>3, <2>4, <2>5 DEF CaretAt
<1>3. QED BY <1>1, <1>2

\* undo, redo, restore and the end of a composition show it too.
LEMMA ShowInverseIs ==
    ASSUME NEW e, EdType(e), NEW old, NEW x, x = ShowInverse(e, old)
    PROVE  EdType(x) /\ Alike(x, e) /\ x.doc = e.doc /\ x.value = Text(e)
<1> DEFINE caret == Clamp(e.caret, Len(Text(e)))
           y == [e EXCEPT !.value = Text(e), !.caret = caret]
<1>1. x = TextChanged(y, old)  BY DEF ShowInverse
<1>2. Text(e) \in Texts  BY TreeShows DEF EdType, Text
<1>3. EdType(y) /\ Alike(y, e) /\ y.doc = e.doc /\ y.value = Text(e)
  <2> HIDE DEF caret
  <2>1. QED BY <1>2 DEF EdType, Fields, Alike
<1> HIDE DEF y
<1>4. EdType(x) /\ Looks(x, y)  BY <1>1, <1>3, TextChangedIs
<1>5. QED BY <1>3, <1>4 DEF Looks, Alike

\* What is undone or done again is an entry of a stack.
LEMMA StackIs ==
    ASSUME NEW stack \in Seq(Seq(Ops)), stack # << >>
    PROVE  Last(stack) \in Seq(Ops) /\ Front(stack) \in Seq(Seq(Ops))
<1> DEFINE S == Seq(Ops)
<1>1. stack \in Seq(S)  OBVIOUS
<1> HIDE DEF S
<1>2. Len(stack) \in 1 .. Len(stack) /\ Len(stack) - 1 \in 0 .. Len(stack) /\ 1 \in 1 .. Len(stack) + 1
      /\ 1 <= (Len(stack) - 1) + 1
  BY <1>1
<1>3. SubSeq(stack, 1, Len(stack) - 1) \in Seq(S)  BY <1>1, <1>2, SubSeqIs
<1>4. Front(stack) \in Seq(S)  BY <1>3 DEF Front
<1>5. Last(stack) \in S  BY <1>1, <1>2 DEF Last
<1>6. QED BY <1>4, <1>5 DEF S

\* An inverse that is applied changes the document only.
LEMMA InvertedIs ==
    ASSUME NEW e, EdType(e), NEW entry \in Seq(Ops), NEW res, res = Inverted(e, entry)
    PROVE  res.ops \in Seq(Ops) /\ EdType(res.e) /\ Alike(res.e, e)
<1> DEFINE inv == InverseOps(e, entry)
           doc == ApplyBatch(e.doc, inv.ops).doc
           clock == Larger(inv.clock, MaxClock(doc))
           pending == e.pending \o inv.ops
           x == [e EXCEPT !.doc = doc, !.clock = clock, !.pending = pending]
<1>1. res = [ops |-> inv.ops, e |-> x]  BY DEF Inverted
<1>2. inv.ops \in Seq(Ops) /\ inv.clock \in Nat  BY InverseIs
<1>3. e.doc \in Trees /\ e.pending \in Seq(Ops)  BY DEF EdType
<1> HIDE DEF inv
<1>4. doc \in Trees  BY <1>2, <1>3, AppliedIs
<1>5. clock \in Nat
  <2>1. MaxClock(doc) \in Nat  BY <1>4, TreeShows
  <2>2. QED BY <1>2, <2>1 DEF Larger
<1>6. pending \in Seq(Ops)  BY <1>2, <1>3
<1> HIDE DEF doc, clock, pending
<1>7. EdType(x) /\ Alike(x, e)  BY <1>4, <1>5, <1>6 DEF EdType, Fields, Alike
<1>8. QED BY <1>1, <1>2, <1>7

\* After undo the text area shows the document, also if nothing was left to undo.
LEMMA UndoneIs ==
    ASSUME NEW e, EdType(e), Showing(e), e.undo # << >>, NEW x, x = Undone(e)
    PROVE  EdType(x) /\ Alike(x, e) /\ Showing(x)
<1>1. e.undo \in Seq(Seq(Ops)) /\ e.redo \in Seq(Seq(Ops))  BY DEF EdType
<1>2. Last(e.undo) \in Seq(Ops) /\ Front(e.undo) \in Seq(Seq(Ops))  BY <1>1, StackIs
<1> DEFINE res == Inverted(e, Last(e.undo))
<1>3. res.ops \in Seq(Ops) /\ EdType(res.e) /\ Alike(res.e, e)  BY <1>2, InvertedIs
<1>4. CASE res.ops = << >>
  <2>1. x = [e EXCEPT !.undo = Front(e.undo)]  BY <1>4 DEF Undone
  <2>2. QED BY <1>2, <2>1 DEF EdType, Fields, Alike, Showing, Text
<1>5. CASE res.ops # << >>
  <2> DEFINE d == res.e
             y == [d EXCEPT !.undo = Front(d.undo), !.redo = Append(d.redo, res.ops)]
  <2>1. x = ShowInverse(y, Text(e))  BY <1>5 DEF Undone
  <2>2. d.undo = e.undo /\ d.redo = e.redo  BY DEF Inverted, EdType, Fields
  <2> HIDE DEF res
  <2>3. Append(d.redo, res.ops) \in Seq(Seq(Ops))  BY <1>1, <1>3, <2>2
  <2>4. Front(d.undo) \in Seq(Seq(Ops))  BY <1>2, <2>2
  <2>5. EdType(y) /\ Alike(y, e)  BY <1>3, <2>3, <2>4 DEF EdType, Fields, Alike
  <2> HIDE DEF y
  <2>6. EdType(x) /\ Alike(x, y) /\ x.doc = y.doc /\ x.value = Text(y)  BY <2>1, <2>5, ShowInverseIs
  <2>7. QED BY <2>5, <2>6 DEF Alike, Showing, Text
<1>6. QED BY <1>4, <1>5

\* So it does after redo.
LEMMA RedoneIs ==
    ASSUME NEW e, EdType(e), Showing(e), e.redo # << >>, NEW x, x = Redone(e)
    PROVE  EdType(x) /\ Alike(x, e) /\ Showing(x)
<1>1. e.undo \in Seq(Seq(Ops)) /\ e.redo \in Seq(Seq(Ops))  BY DEF EdType
<1>2. Last(e.redo) \in Seq(Ops) /\ Front(e.redo) \in Seq(Seq(Ops))  BY <1>1, StackIs
<1> DEFINE res == Inverted(e, Last(e.redo))
<1>3. res.ops \in Seq(Ops) /\ EdType(res.e) /\ Alike(res.e, e)  BY <1>2, InvertedIs
<1>4. CASE res.ops = << >>
  <2>1. x = [e EXCEPT !.redo = Front(e.redo)]  BY <1>4 DEF Redone
  <2>2. QED BY <1>2, <2>1 DEF EdType, Fields, Alike, Showing, Text
<1>5. CASE res.ops # << >>
  <2> DEFINE d == res.e
             y == [d EXCEPT !.redo = Front(d.redo), !.undo = Append(d.undo, res.ops)]
  <2>1. x = ShowInverse(y, Text(e))  BY <1>5 DEF Redone
  <2>2. d.undo = e.undo /\ d.redo = e.redo  BY DEF Inverted, EdType, Fields
  <2> HIDE DEF res
  <2>3. Append(d.undo, res.ops) \in Seq(Seq(Ops))  BY <1>1, <1>3, <2>2
  <2>4. Front(d.redo) \in Seq(Seq(Ops))  BY <1>2, <2>2
  <2>5. EdType(y) /\ Alike(y, e)  BY <1>3, <2>3, <2>4 DEF EdType, Fields, Alike
  <2> HIDE DEF y
  <2>6. EdType(x) /\ Alike(x, y) /\ x.doc = y.doc /\ x.value = Text(y)  BY <2>1, <2>5, ShowInverseIs
  <2>7. QED BY <2>5, <2>6 DEF Alike, Showing, Text
<1>6. QED BY <1>4, <1>5

-----------------------------------------------------------------------------
(* Messages                                                                *)

\* x, which comes of a message, shows its document or is torn, if it does not look
\* as e did, and the caret has followed what is shown.
Faithful(x, e) ==
    /\ x.value = Text(x) \/ x.torn \/ Looks(x, e)
    /\ x.value # e.value => CaretAt(x, Selection(e))
    /\ x.ime = e.ime /\ x.base = e.base /\ x.deferred = e.deferred

\* What is typed again on a snapshot is a text.
LEMMA RebasedIs ==
    ASSUME NEW e, EdType(e), NEW theirs \in Texts
    PROVE  Rebased(e, theirs) \in Texts
<1>1. e.synced \in Texts /\ e.value \in Texts  BY DEF EdType
<1>2. QED BY <1>1, Merge3Is DEF Rebased

\* The page that a snapshot leaves, before it is shown.
Taken(e, doc, clock, pending, synced, known, astray) ==
    [e EXCEPT !.doc = doc, !.clock = clock, !.pending = pending, !.flying = {},
              !.synced = synced, !.known = known, !.ask = FALSE, !.torn = FALSE,
              !.painted = TRUE, !.astray = astray]

\* It is a page, and what it does not take it keeps.
LEMMA SnapshotTaken ==
    ASSUME NEW e, EdType(e), NEW doc \in Trees, NEW clock \in Nat, NEW pending \in Seq(Ops),
           NEW synced \in Texts, NEW known, NEW astray,
           NEW x, x = Taken(e, doc, clock, pending, synced, known, astray)
    PROVE  /\ EdType(x) /\ x.painted /\ ~x.torn /\ x.value = e.value /\ x.peer = e.peer
           /\ x.ime = e.ime /\ x.base = e.base /\ x.deferred = e.deferred
<1>1. x = [f \in Fields |-> x[f]]  BY DEF EdType, Fields, Taken
<1>2. /\ x.doc = doc /\ x.clock = clock /\ x.pending = pending /\ x.synced = synced
      /\ x.painted = TRUE /\ x.torn = FALSE
  BY DEF EdType, Fields, Taken
<1>3. /\ x.undo = e.undo /\ x.redo = e.redo /\ x.value = e.value /\ x.peer = e.peer
      /\ x.ime = e.ime /\ x.base = e.base /\ x.deferred = e.deferred /\ x.seq = e.seq
  BY DEF EdType, Fields, Taken
<1>4. /\ e.undo \in Seq(Seq(Ops)) /\ e.redo \in Seq(Seq(Ops)) /\ e.value \in Texts
      /\ e.ime \in {"off", "on", "ending"} /\ e.deferred \in Seq(ContentFrames) /\ e.seq \in Nat
  BY DEF EdType
<1>5. EdType(x)  BY <1>1, <1>2, <1>3, <1>4 DEF EdType
<1>6. QED BY <1>2, <1>3, <1>5

\* A snapshot that is adopted is shown.
LEMMA AdoptedIs ==
    ASSUME NEW e, EdType(e), NEW r \in Rooms, NEW join, NEW x, x = Adopted(e, r, join)
    PROVE  /\ EdType(x) /\ x.value = Text(x) /\ x.painted /\ ~x.torn
           /\ x.ime = e.ime /\ x.base = e.base /\ x.deferred = e.deferred
           /\ x.value # e.value => CaretAt(x, Selection(e))
<1> DEFINE theirs == Materialize(r.doc)
           res == Replayed(e, r.doc)
           replayed == e.pending # << >> /\ res.ok
           draft == ~e.painted /\ e.pending = << >> /\ e.synced = << >> /\ e.value # << >>
           rebase == ~replayed /\ e.value # theirs /\ (e.pending # << >> \/ draft)
                     /\ Rebased(e, theirs) # theirs
           doc == res.doc
           clock == IF replayed THEN MaxClock(res.doc) ELSE MaxClock(r.doc)
           pending == IF replayed THEN e.pending ELSE << >>
           known == [exists |-> r.exists, ver |-> r.ver,
                     gen |-> IF r.exists THEN r.gen ELSE e.known.gen]
           astray == e.astray \/ Unfit(e, r, res)
           fresh == [e EXCEPT !.doc = doc, !.clock = clock, !.pending = pending, !.flying = {},
                              !.synced = theirs, !.known = known, !.ask = FALSE, !.torn = FALSE,
                              !.painted = TRUE, !.astray = astray]
           next == IF rebase THEN LocalText(fresh, Rebased(e, theirs), join) ELSE fresh
           shown == Show(next, Selection(e))
<1>1. x = Reanchored(shown)  BY DEF Adopted
<1>2. r.doc \in Trees /\ e.pending \in Seq(Ops)  BY DEF Rooms, EdType
<1>3. doc \in Trees  BY <1>2, AppliedIs DEF Replayed
<1>4. theirs \in Texts /\ MaxClock(r.doc) \in Nat  BY <1>2, TreeShows
<1>5. clock \in Nat  BY <1>3, <1>4, TreeShows
<1>6. pending \in Seq(Ops)
  <2>1. << >> \in Seq(Ops)  OBVIOUS
  <2>2. QED BY <1>2, <2>1
<1>7. Rebased(e, theirs) \in Texts  BY <1>4, RebasedIs
<1> HIDE DEF theirs, doc, clock, pending, known, astray, rebase
<1>8. /\ EdType(fresh) /\ fresh.painted /\ ~fresh.torn /\ fresh.value = e.value
      /\ fresh.ime = e.ime /\ fresh.base = e.base /\ fresh.deferred = e.deferred
  <2>1. fresh = Taken(e, doc, clock, pending, theirs, known, astray)  BY DEF Taken
  <2> HIDE DEF fresh
  <2>2. QED BY <1>3, <1>4, <1>5, <1>6, <2>1, SnapshotTaken
<1> HIDE DEF fresh
<1>9. EdType(next) /\ Alike(next, fresh) /\ next.value = fresh.value
  <2>1. CASE rebase
    <3>1. next = LocalText(fresh, Rebased(e, theirs), join)  BY <2>1
    <3>2. QED BY <1>7, <1>8, <3>1, LocalTextIs
  <2>2. CASE ~rebase
    <3>1. next = fresh  BY <2>2
    <3>2. QED BY <1>8, <3>1 DEF Alike
  <2>3. QED BY <2>1, <2>2
<1> HIDE DEF next
<1> DEFINE sel == Selection(e)
<1>10. /\ EdType(shown) /\ Alike(shown, next) /\ shown.doc = next.doc /\ shown.value = Text(next)
       /\ shown.value # next.value => CaretAt(shown, sel)
  <2> HIDE DEF sel
  <2>1. shown = Show(next, sel)  BY DEF sel
  <2> HIDE DEF shown
  <2>2. QED BY <1>9, <2>1, ShowIs
<1> HIDE DEF shown
<1>11. EdType(x) /\ Looks(x, shown) /\ x.caret = shown.caret  BY <1>1, <1>10, ReanchoredIs
<1>12. x.value # e.value => CaretAt(x, sel)  BY <1>8, <1>9, <1>10, <1>11 DEF Looks, CaretAt
<1>13. QED BY <1>8, <1>9, <1>10, <1>11, <1>12 DEF Alike, Looks, Text

\* A state is adopted, or it is stale and nothing happens.
LEMMA HandleStateIs ==
    ASSUME NEW e, EdType(e), NEW f \in StateFrames, NEW join, NEW x, x = HandleState(e, f, join)
    PROVE  EdType(x) /\ Faithful(x, e)
<1>1. f.room \in Rooms  BY DEF StateFrames
<1>2. CASE SnapshotIsStale(e.known, f.room)
  <2>1. x = e  BY <1>2 DEF HandleState
  <2>2. QED BY <2>1 DEF Faithful, Looks, Alike
<1>3. CASE ~SnapshotIsStale(e.known, f.room)
  <2>1. x = Adopted(e, f.room, join)  BY <1>3 DEF HandleState
  <2>2. QED BY <1>1, <2>1, AdoptedIs DEF Faithful
<1>4. QED BY <1>2, <1>3

\* Operations are the browser's own, fit, or leave the page torn.
LEMMA HandleOpsIs ==
    ASSUME NEW e, EdType(e), NEW f \in OpsFrames, NEW x, x = HandleOps(e, f)
    PROVE  EdType(x) /\ Faithful(x, e)
<1> DEFINE res == ApplyBatch(e.doc, f.ops)
           known == [e.known EXCEPT !.ver = f.ver]
           next == [e EXCEPT !.known.ver = f.ver, !.synced = f.text]
<1>1. f.ops \in Seq(Ops) /\ f.text \in Texts  BY DEF OpsFrames
<1>2. e.doc \in Trees /\ e.pending \in Seq(Ops) /\ e.clock \in Nat /\ e.torn \in BOOLEAN  BY DEF EdType
<1>3. res.doc \in Trees /\ res.ok \in BOOLEAN  BY <1>1, <1>2, AppliedIs
<1>4. next = [e EXCEPT !.known = known, !.synced = f.text]  OBVIOUS
<1> HIDE DEF res, known, next
<1>5. EdType(next) /\ Looks(next, e) /\ next.pending = e.pending /\ next.clock = e.clock
  BY <1>1, <1>4 DEF EdType, Fields, Looks, Alike
<1>6. CASE Misses(e, f)
  <2>1. x = [e EXCEPT !.ask = TRUE]  BY <1>6 DEF HandleOps
  <2>2. QED BY <2>1 DEF EdType, Fields, Faithful, Looks, Alike
<1>7. CASE ~Misses(e, f) /\ (f.gen < e.known.gen \/ f.ver <= e.known.ver)
  <2>1. x = e  BY <1>7 DEF HandleOps
  <2>2. QED BY <2>1 DEF Faithful, Looks, Alike
<1>8. CASE ~Misses(e, f) /\ ~(f.gen < e.known.gen \/ f.ver <= e.known.ver) /\ f.by = Me
  <2> DEFINE pending == Without(next.pending, Keys(f.ops))
             flying == Forget(next.flying, Keys(f.ops))
  <2>1. x = [next EXCEPT !.pending = pending, !.flying = flying]
    BY <1>8 DEF HandleOps, next
  <2>2. pending \in Seq(Ops)  BY <1>2, <1>5, WithoutIs
  <2> HIDE DEF pending, flying
  <2>3. EdType(x) /\ Looks(x, next)  BY <1>5, <2>1, <2>2 DEF EdType, Fields, Looks, Alike
  <2>4. QED BY <1>5, <2>3 DEF Faithful, Looks, Alike
<1>9. CASE ~Misses(e, f) /\ ~(f.gen < e.known.gen \/ f.ver <= e.known.ver) /\ f.by # Me /\ ~res.ok
  <2> DEFINE torn == e.torn \/ res.doc # e.doc
  <2>1. x = [e EXCEPT !.doc = res.doc, !.ask = TRUE, !.torn = torn]
    BY <1>9 DEF HandleOps, res
  <2>2. torn \in BOOLEAN /\ (~torn => res.doc = e.doc /\ e.torn = FALSE)  BY <1>2
  <2> HIDE DEF torn
  <2>3. /\ EdType(x) /\ x.doc = res.doc /\ x.torn = torn /\ x.value = e.value
        /\ x.painted = e.painted /\ x.ime = e.ime /\ x.base = e.base /\ x.deferred = e.deferred
    <3>1. e = [k \in Fields |-> e[k]]  BY DEF EdType
    <3>2. x = [k \in Fields |-> x[k]] /\ x.doc = res.doc /\ x.torn = torn
      BY <2>1, <3>1 DEF Fields
    <3>3. /\ x.clock = e.clock /\ x.pending = e.pending /\ x.undo = e.undo /\ x.redo = e.redo
          /\ x.value = e.value /\ x.synced = e.synced /\ x.painted = e.painted /\ x.ime = e.ime
          /\ x.base = e.base /\ x.deferred = e.deferred /\ x.seq = e.seq
      BY <2>1, <3>1 DEF Fields
    <3>4. EdType(x)  BY <1>3, <2>2, <3>2, <3>3 DEF EdType
    <3>5. QED BY <3>2, <3>3, <3>4
  <2>4. CASE torn  BY <2>3, <2>4 DEF Faithful
  <2>5. CASE ~torn
    <3>1. x.torn = FALSE /\ e.torn = FALSE /\ x.doc = e.doc  BY <2>2, <2>3, <2>5
    <3>2. QED BY <2>3, <3>1 DEF Faithful, Looks, Alike
  <2>6. QED BY <2>4, <2>5
<1>10. CASE ~Misses(e, f) /\ ~(f.gen < e.known.gen \/ f.ver <= e.known.ver) /\ f.by # Me /\ res.ok
  <2> DEFINE clock == Bumped(next.clock, f.ops)
             y == [next EXCEPT !.doc = res.doc, !.clock = clock]
             z == Show(y, Selection(e))
  <2>1. x = TextChanged(z, Text(e))
    BY <1>10 DEF HandleOps, res, next
  <2>2. clock \in Nat  BY <1>1, <1>2, <1>5, BumpedIs
  <2> HIDE DEF clock
  <2>3. EdType(y) /\ Alike(y, next) /\ y.doc = res.doc /\ y.value = next.value
    BY <1>3, <1>5, <2>2 DEF EdType, Fields, Alike
  <2> HIDE DEF y
  <2> DEFINE sel == Selection(e)
  <2>4. /\ EdType(z) /\ Alike(z, y) /\ z.doc = y.doc /\ z.value = Text(y)
        /\ z.value # y.value => CaretAt(z, sel)
    <3> HIDE DEF sel
    <3>1. z = Show(y, sel)  BY DEF sel
    <3> HIDE DEF z
    <3>2. QED BY <2>3, <3>1, ShowIs
  <2> HIDE DEF z
  <2>5. EdType(x) /\ Looks(x, z) /\ x.caret = z.caret  BY <2>1, <2>4, TextChangedIs
  <2>6. x.value # e.value => CaretAt(x, sel)
    BY <1>5, <2>3, <2>4, <2>5 DEF Looks, CaretAt
  <2>7. QED BY <1>5, <2>3, <2>4, <2>5, <2>6 DEF Faithful, Looks, Alike, Text
<1>11. QED BY <1>3, <1>6, <1>7, <1>8, <1>9, <1>10

\* An acknowledgement changes what is pending and known, not what is shown.
LEMMA HandleAckIs ==
    ASSUME NEW e, EdType(e), NEW f, NEW x, x = HandleAck(e, f)
    PROVE  EdType(x) /\ Looks(x, e)
<1> DEFINE pending == Without(e.pending, Confirms(e, f.seq))
           flying == {b \in e.flying : b.seq # f.seq}
           astray == e.astray \/ \E i \in DOMAIN e.deferred : e.deferred[i].type = "state"
           next == [e EXCEPT !.pending = pending, !.flying = flying, !.astray = astray]
<1>1. pending \in Seq(Ops)  BY WithoutIs DEF EdType
<1>2. x = next \/ \E k, a : x = [next EXCEPT !.known = k, !.astray = a]
  BY DEF HandleAck
<1> HIDE DEF pending, flying, astray
<1>3. EdType(next) /\ Looks(next, e)  BY <1>1 DEF EdType, Fields, Looks, Alike
<1> HIDE DEF next
<1>4. CASE x = next  BY <1>3, <1>4
<1>5. ASSUME NEW k, NEW a, x = [next EXCEPT !.known = k, !.astray = a]
      PROVE  EdType(x) /\ Looks(x, e)
  <2>1. EdType(x) /\ Looks(x, next)  BY <1>3, <1>5 DEF EdType, Fields, Looks, Alike
  <2>2. QED BY <1>3, <2>1 DEF Looks, Alike
<1>6. QED BY <1>2, <1>4, <1>5

\* A peer's move changes its caret.
LEMMA HandleCursorIs ==
    ASSUME NEW e, EdType(e), NEW f, NEW x, x = HandleCursor(e, f)
    PROVE  EdType(x) /\ Looks(x, e)
<1>1. x = e \/ \E p : x = [e EXCEPT !.peer = p]  BY DEF HandleCursor
<1>2. CASE x = e  BY <1>2 DEF Looks, Alike
<1>3. ASSUME NEW p, x = [e EXCEPT !.peer = p] PROVE EdType(x) /\ Looks(x, e)
  BY <1>3, PeerOnly
<1>4. QED BY <1>1, <1>2, <1>3

\* The type of a message tells its frame.
LEMMA FrameIs ==
    ASSUME NEW f \in Frames
    PROVE  /\ f.type = "state" => f \in StateFrames
           /\ f.type = "ops" => f \in OpsFrames
           /\ f.type \in {"state", "ops", "ack", "cursor"}
BY DEF Frames, ContentFrames, StateFrames, OpsFrames, Acks, CursorFrames

\* A message that is not held back.
LEMMA HandleIs ==
    ASSUME NEW e, EdType(e), NEW f \in Frames, NEW join, NEW x, x = Handle(e, f, join)
    PROVE  EdType(x) /\ Faithful(x, e) /\ (f.type \in {"ack", "cursor"} => Looks(x, e))
<1>1. f.type \in {"state", "ops", "ack", "cursor"}  BY FrameIs
<1>2. CASE f.type = "state"
  <2>1. x = HandleState(e, f, join) /\ f \in StateFrames  BY <1>2, FrameIs DEF Handle
  <2>2. EdType(x) /\ Faithful(x, e)  BY <2>1, HandleStateIs
  <2>3. QED BY <1>2, <2>2
<1>3. CASE f.type = "ops"
  <2>1. x = HandleOps(e, f) /\ f \in OpsFrames  BY <1>3, FrameIs DEF Handle
  <2>2. EdType(x) /\ Faithful(x, e)  BY <2>1, HandleOpsIs
  <2>3. QED BY <1>3, <2>2
<1>4. CASE f.type = "ack"
  <2>1. x = HandleAck(e, f)  BY <1>4 DEF Handle
  <2>2. EdType(x) /\ Looks(x, e)  BY <2>1, HandleAckIs
  <2>3. QED BY <2>2 DEF Faithful, Looks, Alike
<1>5. CASE f.type = "cursor"
  <2>1. x = HandleCursor(e, f)  BY <1>5 DEF Handle
  <2>2. EdType(x) /\ Looks(x, e)  BY <2>1, HandleCursorIs
  <2>3. QED BY <2>2 DEF Faithful, Looks, Alike
<1>6. QED BY <1>1, <1>2, <1>3, <1>4, <1>5

\* A message keeps the text area in step.
LEMMA FaithfulShows ==
    ASSUME NEW x, NEW e, Faithful(x, e), Showing(e)
    PROVE  Showing(x)
BY DEF Faithful, Showing, Looks, Alike, Text

\* What was held back is handled message after message.
LEMMA HandleAllIs ==
    ASSUME NEW e, EdType(e), Showing(e), NEW frames \in Seq(Frames), NEW join,
           NEW x, x = HandleAll(e, frames, join)
    PROVE  EdType(x) /\ Showing(x) /\ x.ime = e.ime /\ x.base = e.base /\ x.deferred = e.deferred
<1> DEFINE N == Len(frames)
           Good(y) == EdType(y) /\ Showing(y) /\ y.ime = e.ime /\ y.base = e.base /\ y.deferred = e.deferred
<1>1. PICK after :
         /\ after[0] = e
         /\ \A n \in 1 .. N : after[n] = Handle(after[n - 1], frames[n], join)
         /\ HandleAll(e, frames, join) = after[N]
  BY HandlingRuns
<1>2. N \in Nat /\ \A n \in 1 .. N : frames[n] \in Frames  OBVIOUS
<1> HIDE DEF N
<1> DEFINE T == {n \in Nat : n <= N => Good(after[n])}
<1>3. 0 \in T  BY <1>1
<1>4. ASSUME NEW n \in T PROVE n + 1 \in T
  <2> SUFFICES ASSUME n + 1 <= N PROVE Good(after[n + 1])
    OBVIOUS
  <2>1. n + 1 \in 1 .. N /\ (n + 1) - 1 = n /\ Good(after[n])  BY <1>2
  <2>2. after[n + 1] = Handle(after[n], frames[n + 1], join) /\ frames[n + 1] \in Frames
    BY <1>1, <1>2, <2>1
  <2>3. EdType(after[n + 1]) /\ Faithful(after[n + 1], after[n])  BY <2>1, <2>2, HandleIs
  <2>4. Showing(after[n + 1])  BY <2>1, <2>3, FaithfulShows
  <2>5. QED BY <2>1, <2>3, <2>4 DEF Faithful
<1>5. T = Nat
  <2>1. T \in SUBSET Nat  OBVIOUS
  <2> HIDE DEF T
  <2>2. QED BY <1>3, <1>4, <2>1, SetInduction
<1> HIDE DEF Good
<1>6. Good(after[N])  BY <1>2, <1>5
<1>7. QED BY <1>1, <1>6 DEF Good

-----------------------------------------------------------------------------
(* The inductive invariant                                                 *)

\* While an input method is at work the text and the items it began with are kept,
\* and are still those of the document: content that arrives is held back.
Composing(e) ==
    /\ e.base.ids \in Seq(Id) /\ e.base.text \in Texts
    /\ e.painted /\ ~e.torn => e.base.text = Text(e) /\ e.base.ids = VisibleIDs(e.doc)

EdInv(e) == EdType(e) /\ IF e.ime = "off" THEN Showing(e) ELSE Composing(e)

WorldType ==
    /\ room \in Rooms /\ (event # None => event \in Events) /\ wire \in Seq(Frames)
    /\ (trail # None => trail \in Texts)
    /\ count \in [edits : Nat, puts : Nat, drops : Nat]

Inv == WorldType /\ EdInv(ed)

\* The operations of a composition fit, if the page was in step when it began.
LEMMA ComposedIs ==
    ASSUME NEW e, EdType(e), Composing(e)
    PROVE  /\ Composed(e) \in Seq(Ops)
           /\ e.painted /\ ~e.torn => ApplyBatch(e.doc, Composed(e)).ok
<1> DEFINE base == e.base.text
           ids == [i \in DOMAIN base |-> IF i \in DOMAIN e.base.ids THEN e.base.ids[i] ELSE Root]
           ops == Composed(e)
           res == ApplyBatch(e.doc, ops)
<1>1. /\ e.base.ids \in Seq(Id) /\ base \in Seq(Nat) /\ e.doc \in Trees /\ e.value \in Seq(Nat)
      /\ Me \in Nat \ {0} /\ Clock(e) \in Nat /\ MaxClock(e.doc) <= Clock(e)
  BY ClockIs, SitesAre DEF EdType, Composing, Texts
<1>2. ops = DiffToOps(ids, base, e.value, Me, Clock(e))  BY DEF Composed
<1>3. ids \in Seq(Id \cup {Root}) /\ Len(ids) = Len(base)
  <2>1. \A i \in DOMAIN e.base.ids : e.base.ids[i] \in Id  BY <1>1
  <2>2. DOMAIN base = 1 .. Len(base) /\ Len(base) \in Nat  BY <1>1
  <2>3. QED BY <2>1, <2>2
<1>4. e.painted /\ ~e.torn => ids = VisibleIDs(e.doc) /\ base = Materialize(e.doc)
  <2> SUFFICES ASSUME e.painted /\ ~e.torn
               PROVE  ids = VisibleIDs(e.doc) /\ base = Materialize(e.doc)
    OBVIOUS
  <2>1. base = Materialize(e.doc) /\ e.base.ids = VisibleIDs(e.doc)  BY DEF Composing, Text
  <2>2. Len(base) = Len(e.base.ids)  BY <1>1, <2>1, TreeShows
  <2>3. DOMAIN base = DOMAIN e.base.ids
    <3>1. DOMAIN base = 1 .. Len(base) /\ DOMAIN e.base.ids = 1 .. Len(e.base.ids)  BY <1>1
    <3>2. QED BY <2>2, <3>1
  <2>4. ids = [i \in DOMAIN e.base.ids |-> e.base.ids[i]]  BY <2>3
  <2>5. e.base.ids = [i \in DOMAIN e.base.ids |-> e.base.ids[i]]  BY <1>1
  <2>6. QED BY <2>1, <2>4, <2>5
<1> HIDE DEF ids
<1>5. ops \in Seq(Ops)
  <2> DEFINE text == e.value
             clock == Clock(e)
  <2>1. base \in Seq(Nat) /\ text \in Seq(Nat) /\ clock \in Nat /\ Me \in Nat \ {0}  BY <1>1
  <2>2. ops = DiffToOps(ids, base, text, Me, clock)  BY <1>2
  <2> HIDE DEF base, text, clock, ops
  <2>3. DiffToOps(ids, base, text, Me, clock) \in Seq(AnyOp(Nat))  BY <1>3, <2>1, DiffTyped
  <2>4. QED BY <2>2, <2>3 DEF Ops
<1>6. e.painted /\ ~e.torn => res.ok
  <2> SUFFICES ASSUME e.painted /\ ~e.torn PROVE res.ok
    OBVIOUS
  <2>1. ops = DiffToOps(VisibleIDs(e.doc), Materialize(e.doc), e.value, Me, Clock(e))
    BY <1>2, <1>4
  <2>2. QED BY <1>1, <2>1, DifferenceShown DEF Trees
<1>7. QED BY <1>5, <1>6

\* The text of a composition is shown, if the page was in step when it began;
\* otherwise what becomes of it is typed.
LEMMA CommittedIs ==
    ASSUME NEW e, EdType(e), Composing(e), e.ime # "off", NEW join, NEW x, x = Committed(e, join)
    PROVE  EdType(x) /\ x.ime = "off" /\ Showing(x)
<1> DEFINE ops == Composed(e)
           res == ApplyBatch(e.doc, ops)
           off == [e EXCEPT !.ime = "off", !.base = None, !.deferred = << >>]
<1>1. e.doc \in Trees /\ Clock(e) \in Nat  BY ClockIs DEF EdType
<1>2. ops \in Seq(Ops)  BY ComposedIs
<1>3. e.painted /\ ~e.torn => res.ok  BY ComposedIs
<1>4. res.doc \in Trees  BY <1>1, <1>2, AppliedIs
<1> HIDE DEF ops, res
<1>5. /\ EdType(off) /\ off.ime = "off" /\ off.painted = e.painted /\ off.torn = e.torn
  <2>1. << >> \in Seq(ContentFrames)  OBVIOUS
  <2>2. QED BY <2>1 DEF EdType, Fields
<1>6. CASE ~res.ok
  <2> DEFINE clock == Bumped(Clock(e), ops)
  <2>1. x = [off EXCEPT !.doc = res.doc, !.clock = clock, !.ask = TRUE]
    BY <1>6 DEF Committed, ops, res
  <2>2. clock \in Nat  BY <1>1, <1>2, BumpedIs
  <2> HIDE DEF off, clock
  <2>3. EdType(x) /\ x.ime = "off" /\ x.painted = e.painted /\ x.torn = e.torn
    BY <1>4, <1>5, <2>1, <2>2 DEF EdType, Fields
  <2>4. QED BY <1>3, <1>6, <2>3 DEF Showing
<1>7. CASE res.ok
  <2> DEFINE y == Typed(off, ops, join)
  <2>1. x = ShowInverse(y, Text(e))
    BY <1>7 DEF Committed, ops, res
  <2> HIDE DEF off
  <2>2. EdType(y) /\ Alike(y, off)  BY <1>2, <1>5, TypedIs
  <2> HIDE DEF y
  <2>3. EdType(x) /\ Alike(x, y) /\ x.doc = y.doc /\ x.value = Text(y)  BY <2>1, <2>2, ShowInverseIs
  <2>4. QED BY <1>5, <2>2, <2>3 DEF Alike, Showing, Text
<1>8. QED BY <1>6, <1>7

\* The drafts are finitely many, and one is the longest.
LEMMA LongestDraft ==
    MaxOf({Len(draft) : draft \in Drafts}) \in Nat
<1> DEFINE f == [draft \in Drafts |-> Len(draft)]
           S == {Len(draft) : draft \in Drafts}
<1>1. Drafts # {} /\ IsFiniteSet(Drafts) /\ Drafts \subseteq Seq(Nat)  BY EditorAssumption
<1>2. f \in [Drafts -> Nat]  BY <1>1
<1>3. IsFiniteSet({f[x] : x \in Drafts})
  <2> HIDE DEF f
  <2>1. QED BY <1>1, <1>2, ValuesAreFinite
<1>4. S = {f[x] : x \in Drafts}  OBVIOUS
<1>5. S \in SUBSET Nat /\ S # {} /\ IsFiniteSet(S)
  <2>1. \A draft \in Drafts : Len(draft) \in Nat  BY <1>1
  <2>2. QED BY <1>1, <1>3, <1>4, <2>1
<1>6. MaxOf(S) = CHOOSE x \in S : \A y \in S : y <= x  BY DEF MaxOf
<1> HIDE DEF S
<1>8. \E x \in S : \A y \in S : y <= x  BY <1>5, GreatestNumber
<1>9. MaxOf(S) \in S  BY <1>6, <1>8
<1>10. QED BY <1>5, <1>9 DEF S

\* The page as it opens.
LEMMA InitInv == Init => Inv
<1> SUFFICES ASSUME Init PROVE Inv
  OBVIOUS
<1>1. PICK draft \in Drafts : ed = Blank(draft)  BY DEF Init
<1>2. draft \in Texts  BY EditorAssumption DEF Texts
<1>3. NewDoc \in Trees  BY NewDocIsDoc, DocIsTree DEF Trees
<1>4. << >> \in Seq(Ops) /\ << >> \in Texts /\ << >> \in Seq(ContentFrames) /\ << >> \in Seq(Seq(Ops))
      /\ << >> \in Seq(Frames)
  BY DEF Texts
<1>5. EdType(ed) /\ ed.ime = "off" /\ ~ed.painted
  BY <1>1, <1>2, <1>3, <1>4 DEF Blank, EdType, Fields
<1>6. WorldType
  <2>1. room \in Rooms  BY <1>3 DEF Init, Rooms
  <2>2. QED BY <1>4, <2>1 DEF Init, WorldType
<1>7. QED BY <1>5, <1>6 DEF Inv, EdInv, Showing

\* What is counted is a number.
LEMMA CountedIs ==
    ASSUME count \in [edits : Nat, puts : Nat, drops : Nat], NEW field, Counted(field)
    PROVE  count' \in [edits : Nat, puts : Nat, drops : Nat]
BY DEF Counted

\* A new character is a number.
LEMMA FreshIs ==
    ASSUME count \in [edits : Nat, puts : Nat, drops : Nat]
    PROVE  Fresh \in Nat
<1> DEFINE n == MaxOf({Len(draft) : draft \in Drafts})
<1>1. n \in Nat  BY LongestDraft
<1> HIDE DEF n
<1>2. count.edits \in Nat  OBVIOUS
<1>3. QED BY <1>1, <1>2 DEF Fresh, n

\* A sequence without one of its elements.
LEMMA RemoveAtIs ==
    ASSUME NEW S, NEW s \in Seq(S), NEW i \in 1 .. Len(s)
    PROVE  RemoveAt(s, i) \in Seq(S)
<1>1. 1 \in 1 .. Len(s) + 1 /\ i - 1 \in 0 .. Len(s) /\ 1 <= (i - 1) + 1
      /\ i + 1 \in 1 .. Len(s) + 1 /\ Len(s) \in 0 .. Len(s) /\ i + 1 <= Len(s) + 1
  OBVIOUS
<1>2. SubSeq(s, 1, i - 1) \in Seq(S)  BY <1>1, SubSeqIs
<1>3. SubSeq(s, i + 1, Len(s)) \in Seq(S)  BY <1>1, SubSeqIs
<1>4. SubSeq(s, 1, i - 1) \o SubSeq(s, i + 1, Len(s)) \in Seq(S)  BY <1>2, <1>3
<1>5. QED BY <1>4 DEF RemoveAt

\* A key: the text area is ahead of the document, which follows.
LEMMA InputIs ==
    ASSUME EdType(ed), ed.ime = "off", NEW text \in Texts, NEW caret, NEW join,
           Input(text, caret, join)
    PROVE  EdInv(ed') /\ ed'.ime = "off" /\ ed'.value = Text(ed')
<1> DEFINE y == [ed EXCEPT !.value = text, !.caret = caret]
           z == LocalText(y, text, join)
<1>1. ed' = TextChanged(z, Text(ed))  BY DEF Input, ByUser
<1>2. EdType(y) /\ y.ime = "off" /\ y.value = text  BY DEF EdType, Fields
<1> HIDE DEF y
<1>3. EdType(z) /\ Alike(z, y) /\ z.value = y.value /\ Text(z) = text  BY <1>2, LocalTextIs
<1> HIDE DEF z
<1>4. EdType(ed') /\ Looks(ed', z)
  <2> DEFINE x == ed'
  <2>1. x = TextChanged(z, Text(ed))  BY <1>1
  <2> HIDE DEF x
  <2>2. EdType(x) /\ Looks(x, z)  BY <1>3, <2>1, TextChangedIs
  <2>3. QED BY <2>2 DEF x
<1>5. ed'.ime = "off" /\ ed'.value = Text(ed')  BY <1>2, <1>3, <1>4 DEF Looks, Alike, Text
<1>6. QED BY <1>4, <1>5 DEF EdInv, Showing

\* A character is typed.
LEMMA TypeIs ==
    ASSUME WorldType, EdType(ed), Type
    PROVE  EdInv(ed') /\ ed'.ime = "off" /\ ed'.value = Text(ed')
<1>1. EdType(ed) /\ ed.value \in Texts /\ ed.ime = "off"  BY DEF EdType, Type
<1>2. PICK at \in 0 .. Len(ed.value), join \in BOOLEAN :
         Input(InsertAt(ed.value, at + 1, Fresh), at + 1, join)
  BY DEF Type
<1>3. at + 1 \in 1 .. Len(ed.value) + 1  BY <1>1 DEF Texts
<1>4. Fresh \in Nat  BY FreshIs DEF WorldType
<1>5. InsertAt(ed.value, at + 1, Fresh) \in Texts  BY <1>1, <1>3, <1>4, InsertAtIs DEF Texts
<1>6. QED BY <1>1, <1>2, <1>5, InputIs

\* A character is erased.
LEMMA EraseIs ==
    ASSUME EdType(ed), Erase
    PROVE  EdInv(ed') /\ ed'.ime = "off" /\ ed'.value = Text(ed')
<1>1. EdType(ed) /\ ed.value \in Texts /\ ed.ime = "off"  BY DEF EdType, Erase
<1>2. PICK at \in DOMAIN ed.value, join \in BOOLEAN :
         Input(RemoveAt(ed.value, at), at - 1, join)
  BY DEF Erase
<1>3. at \in 1 .. Len(ed.value)  BY <1>1 DEF Texts
<1>4. RemoveAt(ed.value, at) \in Texts  BY <1>1, <1>3, RemoveAtIs DEF Texts
<1>5. QED BY <1>1, <1>2, <1>4, InputIs

\* The last entry of a stack is undone or done again.
LEMMA UndoIs ==
    ASSUME Inv, Undo \/ Redo
    PROVE  EdInv(ed')
<1>1. EdType(ed) /\ ed.ime = "off" /\ Showing(ed)  BY DEF Inv, EdInv, Undo, Redo
<1> DEFINE x == ed'
<1>2. CASE Undo
  <2>1. ed.undo # << >> /\ x = Undone(ed)  BY <1>2 DEF Undo, ByUser
  <2> HIDE DEF x
  <2>2. EdType(x) /\ Alike(x, ed) /\ Showing(x)  BY <1>1, <2>1, UndoneIs
  <2>3. QED BY <1>1, <2>2 DEF EdInv, Alike, x
<1>3. CASE Redo
  <2>1. ed.redo # << >> /\ x = Redone(ed)  BY <1>3 DEF Redo, ByUser
  <2> HIDE DEF x
  <2>2. EdType(x) /\ Alike(x, ed) /\ Showing(x)  BY <1>1, <2>1, RedoneIs
  <2>3. QED BY <1>1, <2>2 DEF EdInv, Alike, x
<1>4. QED BY <1>2, <1>3

\* The difference to a snapshot is typed.
LEMMA RestoreIs ==
    ASSUME Inv, Restore
    PROVE  EdInv(ed')
<1>1. EdType(ed) /\ ed.ime = "off" /\ trail \in Texts  BY DEF Inv, EdInv, WorldType, Restore
<1>2. PICK join \in BOOLEAN : ByUser(ShowInverse(LocalText(ed, trail, join), Text(ed)))
  BY DEF Restore
<1> DEFINE y == LocalText(ed, trail, join)
           x == ed'
<1>3. x = ShowInverse(y, Text(ed))  BY <1>2 DEF ByUser
<1>4. EdType(y) /\ Alike(y, ed)  BY <1>1, LocalTextIs
<1> HIDE DEF x, y
<1>5. EdType(x) /\ Alike(x, y) /\ x.doc = y.doc /\ x.value = Text(y)  BY <1>3, <1>4, ShowInverseIs
<1>6. QED BY <1>1, <1>4, <1>5 DEF EdInv, Alike, Showing, Text, x

\* The input method begins, shows its text, gives it up or ends.
LEMMA ComposeIs ==
    ASSUME Inv, ComposeStart \/ ComposeInput \/ ComposeCancel \/ ComposeEnd
    PROVE  EdInv(ed')
<1>1. EdType(ed) /\ ed.value \in Texts /\ ed.doc \in Trees  BY DEF Inv, EdInv, EdType
<1>2. CASE ComposeStart
  <2> DEFINE base == [text |-> ed.value, ids |-> VisibleIDs(ed.doc)]
             x == ed'
  <2>1. ed.ime = "off" /\ x = [ed EXCEPT !.ime = "on", !.base = base]
    BY <1>2 DEF ComposeStart, ByUser
  <2>2. Showing(ed)  BY <2>1 DEF Inv, EdInv
  <2>3. VisibleIDs(ed.doc) \in Seq(Id)  BY <1>1, TreeShows
  <2> HIDE DEF x
  <2>4. EdType(x) /\ x.ime = "on" /\ x.base = base /\ x.doc = ed.doc
        /\ x.painted = ed.painted /\ x.torn = ed.torn
    <3> HIDE DEF base
    <3>1. QED BY <1>1, <2>1 DEF EdType, Fields
  <2>5. Composing(x)  BY <1>1, <2>2, <2>3, <2>4 DEF Composing, Showing, Text
  <2>6. QED BY <2>4, <2>5 DEF EdInv, x
<1>3. CASE ComposeInput
  <2>1. PICK at \in 0 .. Len(ed.value) :
           ByUser([ed EXCEPT !.value = InsertAt(@, at + 1, Fresh), !.caret = at + 1])
    BY <1>3 DEF ComposeInput
  <2> DEFINE text == InsertAt(ed.value, at + 1, Fresh)
             x == ed'
  <2>2. at + 1 \in 1 .. Len(ed.value) + 1  BY <1>1 DEF Texts
  <2>3. Fresh \in Nat  BY FreshIs DEF Inv, WorldType
  <2>4. text \in Texts  BY <1>1, <2>2, <2>3, InsertAtIs DEF Texts
  <2>5. x = [ed EXCEPT !.value = text, !.caret = at + 1]  BY <2>1 DEF ByUser
  <2>6. ed.ime # "off" /\ Composing(ed)  BY <1>3 DEF ComposeInput, Inv, EdInv
  <2> HIDE DEF text, x
  <2>7. EdType(x) /\ Alike(x, ed) /\ x.doc = ed.doc  BY <1>1, <2>4, <2>5 DEF EdType, Fields, Alike
  <2>8. QED BY <2>6, <2>7 DEF EdInv, Composing, Alike, Text, x
<1>4. CASE ComposeCancel
  <2> DEFINE x == ed'
  <2>1. ed.ime # "off" /\ Composing(ed)  BY <1>4 DEF ComposeCancel, Inv, EdInv
  <2> DEFINE caret == Clamp(ed.caret, Len(ed.base.text))
  <2>2. x = [ed EXCEPT !.value = ed.base.text, !.caret = caret]  BY <1>4 DEF ComposeCancel, ByUser
  <2>3. ed.base.text \in Texts  BY <2>1 DEF Composing
  <2> HIDE DEF x, caret
  <2>4. EdType(x) /\ Alike(x, ed) /\ x.doc = ed.doc  BY <1>1, <2>2, <2>3 DEF EdType, Fields, Alike
  <2>5. QED BY <2>1, <2>4 DEF EdInv, Composing, Alike, Text, x
<1>5. CASE ComposeEnd
  <2> DEFINE x == ed'
  <2>1. ed.ime # "off" /\ Composing(ed)  BY <1>5 DEF ComposeEnd, Inv, EdInv
  <2>2. x = [ed EXCEPT !.ime = "ending"]  BY <1>5 DEF ComposeEnd, ByUser
  <2> HIDE DEF x
  <2>3. EdType(x) /\ x.ime = "ending" /\ x.base = ed.base /\ x.painted = ed.painted
        /\ x.torn = ed.torn /\ x.doc = ed.doc
    BY <1>1, <2>2 DEF EdType, Fields
  <2>4. QED BY <2>1, <2>3 DEF EdInv, Composing, Text, x
<1>6. QED BY <1>2, <1>3, <1>4, <1>5

\* The composition is committed, and what was held back handled.
LEMMA CommitIs ==
    ASSUME Inv, Commit
    PROVE  EdInv(ed') /\ ed'.ime = "off"
<1>1. EdType(ed) /\ Composing(ed) /\ ed.ime = "ending" /\ ed.deferred \in Seq(ContentFrames)
  BY DEF Inv, EdInv, EdType, Commit
<1>2. PICK join \in BOOLEAN : ed' = HandleAll(Committed(ed, join), ed.deferred, join)
  BY DEF Commit
<1> DEFINE y == Committed(ed, join)
           x == ed'
<1>3. EdType(y) /\ y.ime = "off" /\ Showing(y)  BY <1>1, CommittedIs
<1>4. ed.deferred \in Seq(Frames)
  <2>1. \A i \in 1 .. Len(ed.deferred) : ed.deferred[i] \in Frames  BY <1>1 DEF Frames
  <2>2. QED BY <1>1, <2>1
<1>5. x = HandleAll(y, ed.deferred, join)  BY <1>2
<1> HIDE DEF x, y
<1>6. EdType(x) /\ Showing(x) /\ x.ime = y.ime  BY <1>3, <1>4, <1>5, HandleAllIs
<1>7. QED BY <1>3, <1>6 DEF EdInv, x

\* What the user does leaves the rest of the world alone.
LEMMA UserWorld ==
    ASSUME WorldType, User
    PROVE  WorldType'
<1>1. room' = room /\ event' = event /\ wire' = wire /\ trail' = trail
  BY DEF User, Type, Erase, Undo, Redo, Restore, ComposeStart, ComposeInput, ComposeCancel,
         ComposeEnd, Commit, Input, ByUser
<1>2. count' = count \/ Counted("edits")
  BY DEF User, Type, Erase, Undo, Redo, Restore, ComposeStart, ComposeInput, ComposeCancel,
         ComposeEnd, Commit
<1>3. count' \in [edits : Nat, puts : Nat, drops : Nat]  BY <1>2, CountedIs DEF WorldType
<1>4. QED BY <1>1, <1>3 DEF WorldType

\* The user's steps preserve the invariant.
LEMMA UserInv ==
    ASSUME Inv, User
    PROVE  Inv'
<1>1. WorldType /\ EdType(ed)  BY DEF Inv, EdInv
<1>2. EdInv(ed')
  <2>1. CASE Type  BY <1>1, <2>1, TypeIs
  <2>2. CASE Erase  BY <1>1, <2>2, EraseIs
  <2>3. CASE Undo \/ Redo  BY <2>3, UndoIs
  <2>4. CASE Restore  BY <2>4, RestoreIs
  <2>5. CASE ComposeStart \/ ComposeInput \/ ComposeCancel \/ ComposeEnd  BY <2>5, ComposeIs
  <2>6. CASE Commit  BY <2>6, CommitIs
  <2>7. QED BY <2>1, <2>2, <2>3, <2>4, <2>5, <2>6 DEF User
<1>3. EdInv(ed)'  BY <1>2
<1>4. QED BY <1>1, <1>3, UserWorld DEF Inv

\* What changes neither the document nor the text area.
LEMMA LooksSame ==
    ASSUME EdInv(ed), NEW x, EdType(x), Looks(x, ed)
    PROVE  EdInv(x)
BY DEF EdInv, Showing, Composing, Looks, Alike, Text

\* The room a write finds, or the one it begins.
LEMMA CurrentIs ==
    ASSUME room \in Rooms
    PROVE  Current \in Rooms /\ Current.doc \in Trees
<1>1. NewDoc \in Trees  BY NewDocIsDoc, DocIsTree DEF Trees
<1> DEFINE gen == room.gen + 1
<1>2. gen \in Nat  BY DEF Rooms
<1>3. CASE room.exists  BY <1>3 DEF Current, Rooms
<1>4. CASE ~room.exists
  <2>1. Current = [room EXCEPT !.gen = gen, !.doc = NewDoc]  BY <1>4 DEF Current
  <2> HIDE DEF gen
  <2>2. Current \in Rooms  BY <1>1, <1>2, <2>1 DEF Rooms
  <2>3. QED BY <2>2 DEF Rooms
<1>5. QED BY <1>3, <1>4

\* A write leaves a room and an event.
LEMMA WriteIs ==
    ASSUME room \in Rooms, NEW doc \in Trees, NEW by \in Nat, NEW ops \in Seq(Ops), Write(doc, by, ops)
    PROVE  room' \in Rooms /\ event' \in Events
<1> DEFINE cur == Current
           ver == cur.ver + 1
<1>1. cur \in Rooms  BY CurrentIs
<1>2. room' = [cur EXCEPT !.exists = TRUE, !.ver = ver, !.doc = doc]
  BY DEF Write
<1> HIDE DEF cur
<1>3. ver \in Nat  BY <1>1 DEF Rooms
<1> HIDE DEF ver
<1>4. room' \in Rooms  BY <1>1, <1>2, <1>3 DEF Rooms
<1>5. event' = [gen |-> room'.gen, ver |-> room'.ver, by |-> by, ops |-> ops]  BY DEF Write
<1>6. room'.gen \in Nat /\ room'.ver \in Nat  BY <1>4 DEF Rooms
<1>7. event' \in Events  BY <1>5, <1>6 DEF Events
<1>8. QED BY <1>4, <1>7

\* What is sent is a part of what is pending.
LEMMA BatchIs ==
    ASSUME EdType(ed)
    PROVE  Batch \in Seq(Ops)
<1> DEFINE ops == Without(ed.pending, UNION {b.keys : b \in ed.flying})
<1>1. ops \in Seq(Ops)  BY WithoutIs DEF EdType
<1>2. Batch = SubSeq(ops, 1, Clamp(Len(ops), MaxBatch))  BY DEF Batch
<1> HIDE DEF ops
<1>3. Clamp(Len(ops), MaxBatch) \in 0 .. Len(ops)
  <2>1. MaxBatch \in Nat \ {0} /\ Len(ops) \in Nat  BY <1>1, EditorAssumption
  <2>2. QED BY <2>1 DEF Clamp
<1> DEFINE n == Clamp(Len(ops), MaxBatch)
<1>4. n \in 0 .. Len(ops)  BY <1>3
<1> HIDE DEF n
<1>5. 1 \in 1 .. Len(ops) + 1 /\ 1 <= n + 1  BY <1>1, <1>4
<1>6. SubSeq(ops, 1, n) \in Seq(Ops)  BY <1>1, <1>4, <1>5, SubSeqIs
<1>7. QED BY <1>2, <1>6 DEF n

\* A state, and operations, are frames.
LEMMA FramesMade ==
    ASSUME room \in Rooms
    PROVE  /\ StateFrame(room) \in Frames
           /\ event \in Events => OpsFrame(room, event) \in Frames
<1>1. StateFrame(room) \in Frames  BY DEF StateFrame, StateFrames, ContentFrames, Frames
<1>2. ASSUME event \in Events PROVE OpsFrame(room, event) \in Frames
  <2>1. Materialize(room.doc) \in Texts  BY TreeShows DEF Rooms
  <2>2. OpsFrame(room, event) \in OpsFrames  BY <1>2, <2>1 DEF OpsFrame, OpsFrames, Events, Rooms
  <2>3. QED BY <2>2 DEF ContentFrames, Frames
<1>3. QED BY <1>1, <1>2

\* The page's part in sending a batch.
LEMMA SendingIs ==
    ASSUME EdType(ed), Sending
    PROVE  EdType(ed') /\ Looks(ed', ed)
<1> DEFINE flying == ed.flying \cup {[seq |-> ed.seq + 1, keys |-> Keys(Batch)]}
           x == ed'
<1>1. ed.seq + 1 \in Nat  BY DEF EdType
<1>2. x = [ed EXCEPT !.seq = ed.seq + 1, !.flying = flying]  BY DEF Sending
<1> HIDE DEF x, flying
<1>3. EdType(x) /\ Looks(x, ed)  BY <1>1, <1>2 DEF EdType, Fields, Looks, Alike
<1>4. QED BY <1>3 DEF x

\* The server's answer to it.
LEMMA FlushIs ==
    ASSUME WorldType, EdType(ed), FlushAccepted \/ FlushRefused
    PROVE  WorldType'
<1>1. Sending  BY DEF FlushAccepted, FlushRefused
<1>2. ed.seq \in Nat  BY DEF EdType
<1>3. room \in Rooms /\ wire \in Seq(Frames) /\ (event # None => event \in Events)
      /\ trail' = trail /\ count' = count
  BY <1>1 DEF WorldType, Sending
<1>4. Current \in Rooms /\ Current.doc \in Trees  BY <1>3, CurrentIs
<1>5. Batch \in Seq(Ops)  BY BatchIs
<1>6. CASE FlushAccepted
  <2> DEFINE res == ApplyBatch(Current.doc, Batch)
             own == room' # room
  <2>1. res.doc \in Trees  BY <1>4, <1>5, AppliedIs
  <2>2. room' \in Rooms /\ event' \in Events
    <3>1. CASE res.doc # Current.doc \/ ~room.exists
      <4>1. Write(res.doc, Me, Batch)  BY <1>6, <3>1 DEF FlushAccepted
      <4>2. Me \in Nat  BY SitesAre
      <4> HIDE DEF res
      <4>3. QED BY <1>3, <1>5, <2>1, <4>1, <4>2, WriteIs
    <3>2. CASE ~(res.doc # Current.doc \/ ~room.exists)
      <4>1. room' = room /\ event' = [gen |-> room.gen, ver |-> room.ver, by |-> Me, ops |-> << >>]
        BY <1>6, <3>2 DEF FlushAccepted
      <4>2. Me \in Nat /\ << >> \in Seq(Ops)  BY SitesAre
      <4>3. QED BY <1>3, <4>1, <4>2 DEF Rooms, Events
    <3>3. QED BY <3>1, <3>2
  <2>3. wire' = Append(wire, Ack(ed.seq + 1, room', own))  BY <1>6 DEF FlushAccepted
  <2>4. Ack(ed.seq + 1, room', own) \in Frames
    <3>1. own \in BOOLEAN  OBVIOUS
    <3> HIDE DEF own
    <3>2. ed.seq + 1 \in Nat /\ room'.gen \in Nat /\ room'.ver \in Nat  BY <1>2, <2>2 DEF Rooms
    <3>3. Ack(ed.seq + 1, room', own) \in Acks  BY <3>1, <3>2 DEF Ack, Acks
    <3>4. QED BY <3>3 DEF Frames
  <2> HIDE DEF own
  <2>5. wire' \in Seq(Frames)  BY <1>3, <2>3, <2>4
  <2>6. QED BY <1>3, <2>2, <2>5 DEF WorldType
<1>7. CASE FlushRefused
  <2>1. room' = [Current EXCEPT !.doc = room.doc] /\ event' = event
        /\ wire' = wire \o <<ErrorAck(ed.seq + 1), StateFrame(room')>>
    BY <1>7 DEF FlushRefused
  <2>2. room' \in Rooms  BY <1>3, <1>4, <2>1 DEF Rooms
  <2>3. ErrorAck(ed.seq + 1) \in Frames
    <3>1. ed.seq + 1 \in Nat  BY <1>2
    <3>2. ErrorAck(ed.seq + 1) \in Acks  BY <3>1 DEF ErrorAck, Acks
    <3>3. QED BY <3>2 DEF Frames
  <2>4. StateFrame(room') \in Frames  BY <2>2 DEF StateFrame, StateFrames, ContentFrames, Frames
  <2>5. <<ErrorAck(ed.seq + 1), StateFrame(room')>> \in Seq(Frames)  BY <2>3, <2>4
  <2>6. wire' \in Seq(Frames)  BY <1>3, <2>1, <2>5
  <2>7. QED BY <1>3, <2>1, <2>2, <2>6 DEF WorldType
<1>8. QED BY <1>6, <1>7

\* A message that arrives is held back or handled.
LEMMA ReceiveIs ==
    ASSUME Inv, Receive
    PROVE  /\ EdInv(ed') /\ ed'.ime = ed.ime /\ (ed.ime # "off" => ed'.value = ed.value)
           /\ ed'.value # ed.value => CaretAt(ed', Selection(ed))
<1>1. EdType(ed) /\ EdInv(ed) /\ ed.deferred \in Seq(ContentFrames)  BY DEF Inv, EdInv, EdType
<1> DEFINE f == Head(wire)
           x == ed'
<1>2. f \in Frames  BY DEF Receive, Inv, WorldType
<1>3. CASE Held(ed, f)
  <2>1. x = [ed EXCEPT !.deferred = Append(ed.deferred, f)]  BY <1>3 DEF Receive
  <2>2. f \in ContentFrames /\ ed.ime # "off"
    <3>1. f.type \in {"state", "ops"} /\ ed.ime # "off"  BY <1>3 DEF Held
    <3> HIDE DEF f
    <3>2. QED BY <1>2, <3>1, FrameIs DEF ContentFrames
  <2> HIDE DEF f, x
  <2>3. Append(ed.deferred, f) \in Seq(ContentFrames)  BY <1>1, <2>2
  <2>4. EdType(x) /\ x.ime = ed.ime /\ x.base = ed.base /\ x.doc = ed.doc /\ x.value = ed.value
        /\ x.painted = ed.painted /\ x.torn = ed.torn
    BY <1>1, <2>1, <2>3 DEF EdType, Fields
  <2>5. EdInv(x)  BY <1>1, <2>2, <2>4 DEF EdInv, Composing, Text
  <2>6. QED BY <2>4, <2>5 DEF x
<1>4. CASE ~Held(ed, f)
  <2>1. PICK join \in BOOLEAN : x = Handle(ed, f, join)  BY <1>4 DEF Receive
  <2>2. ed.ime = "off" \/ f.type \in {"ack", "cursor"}
    <3>1. f.type \in {"state", "ops", "ack", "cursor"}
      <4> HIDE DEF f
      <4>1. QED BY <1>2, FrameIs
    <3>2. QED BY <1>4, <3>1 DEF Held
  <2> HIDE DEF f, x
  <2>3. EdType(x) /\ Faithful(x, ed) /\ (f.type \in {"ack", "cursor"} => Looks(x, ed))
    BY <1>1, <1>2, <2>1, HandleIs
  <2>4. CASE ed.ime = "off"
    <3>1. Showing(ed)  BY <1>1, <2>4 DEF EdInv
    <3>2. Showing(x)  BY <2>3, <3>1, FaithfulShows
    <3>3. QED BY <2>3, <2>4, <3>2 DEF EdInv, Faithful, x
  <2>5. CASE f.type \in {"ack", "cursor"}
    <3>1. QED BY <1>1, <2>3, <2>5, LooksSame DEF Looks, Alike, x
  <2>6. QED BY <2>2, <2>4, <2>5
<1>5. QED BY <1>3, <1>4

\* The other steps on the connection change nothing of what the page shows.
LEMMA QuietIs ==
    ASSUME EdType(ed), Disconnect \/ Answer \/ Prune \/ Vanish
    PROVE  EdType(ed') /\ Looks(ed', ed)
<1> DEFINE x == ed'
<1>1. \/ x = [ed EXCEPT !.flying = {}, !.peer = None, !.ask = FALSE]
      \/ x = [ed EXCEPT !.ask = FALSE]
      \/ x = [ed EXCEPT !.peer = None]
      \/ x = [ed EXCEPT !.astray = TRUE]
  BY DEF Disconnect, Answer, Prune, Vanish
<1> HIDE DEF x
<1>2. ed = [f \in Fields |-> ed[f]]  BY DEF EdType
<1>3. /\ x = [f \in Fields |-> x[f]]
      /\ \A f \in Fields : f \notin {"flying", "peer", "ask", "astray"} => x[f] = ed[f]
  BY <1>1, <1>2
<1>4. /\ Alike(x, ed) /\ x.doc = ed.doc /\ x.value = ed.value
      /\ x.clock = ed.clock /\ x.pending = ed.pending /\ x.undo = ed.undo /\ x.redo = ed.redo
      /\ x.synced = ed.synced /\ x.seq = ed.seq
  BY <1>3 DEF Fields, Alike
<1>5. EdType(x)  BY <1>3, <1>4 DEF EdType, Alike
<1>6. QED BY <1>4, <1>5 DEF Looks, x

\* The rest of the world when the connection moves.
LEMMA NetworkWorld ==
    ASSUME WorldType, EdType(ed), Network
    PROVE  WorldType'
<1>1. /\ room \in Rooms /\ wire \in Seq(Frames)
      /\ (event # None => event \in Events) /\ count \in [edits : Nat, puts : Nat, drops : Nat]
  BY DEF WorldType
<1>2. CASE Connect
  <2>1. QED BY <1>2 DEF Connect, WorldType
<1>3. CASE Disconnect
  <2>2. wire' \in Seq(Frames)  BY <1>3 DEF Disconnect
  <2>3. count' \in [edits : Nat, puts : Nat, drops : Nat]
    <3> DEFINE edits == count.edits + 1
               drops == count.drops + 1
    <3>1. edits \in Nat /\ drops \in Nat  BY <1>1
    <3>2. count' = [count EXCEPT !.edits = edits, !.drops = drops]  BY <1>3 DEF Disconnect
    <3> HIDE DEF edits, drops
    <3>3. QED BY <1>1, <3>1, <3>2
  <2>4. room' = room /\ event' = event /\ trail' = trail  BY <1>3 DEF Disconnect
  <2>5. QED BY <1>1, <2>2, <2>3, <2>4 DEF WorldType
<1>4. CASE Push
  <2>1. PICK f \in Frames : wire' = Append(wire, f)
    <3> DEFINE compact == /\ session.last # None /\ session.last.exists /\ room.exists /\ event # None
                          /\ event.ops # << >> /\ event.gen = room.gen /\ event.ver = room.ver
                          /\ session.last.gen = room.gen /\ room.ver = session.last.ver + 1
    <3>1. wire' = Append(wire, IF compact THEN OpsFrame(room, event) ELSE StateFrame(room))
      BY <1>4 DEF Push
    <3>2. compact => event \in Events  BY <1>1
    <3> HIDE DEF compact
    <3>3. CASE compact
      <4>1. OpsFrame(room, event) \in Frames  BY <1>1, <3>2, <3>3, FramesMade
      <4>2. QED BY <3>1, <3>3, <4>1
    <3>4. CASE ~compact
      <4>1. StateFrame(room) \in Frames  BY <1>1, FramesMade
      <4>2. QED BY <3>1, <3>4, <4>1
    <3>5. QED BY <3>3, <3>4
  <2>2. wire' \in Seq(Frames)  BY <1>1, <2>1
  <2>3. room' = room /\ event' = event /\ trail' = trail /\ count' = count
    BY <1>4 DEF Push
  <2>4. QED BY <1>1, <2>2, <2>3 DEF WorldType
<1>5. CASE Answer
  <2>2. StateFrame(room) \in Frames  BY <1>1, FramesMade
  <2>3. wire' \in Seq(Frames)  BY <1>1, <1>5, <2>2 DEF Answer
  <2>4. room' = room /\ event' = event /\ trail' = trail /\ count' = count  BY <1>5 DEF Answer
  <2>5. QED BY <1>1, <2>3, <2>4 DEF WorldType
<1>6. CASE FlushAccepted \/ FlushRefused  BY <1>6, FlushIs
<1>7. CASE Receive
  <2>2. wire' \in Seq(Frames)  BY <1>1, <1>7 DEF Receive
  <2>3. room' = room /\ event' = event /\ trail' = trail /\ count' = count  BY <1>7 DEF Receive
  <2>4. QED BY <1>1, <2>2, <2>3 DEF WorldType
<1>8. CASE Prune
  <2>2. room' = room /\ event' = event /\ trail' = trail /\ count' = count /\ wire' = wire
    BY <1>8 DEF Prune
  <2>3. QED BY <1>1, <2>2 DEF WorldType
<1>9. QED BY <1>2, <1>3, <1>4, <1>5, <1>6, <1>7, <1>8 DEF Network

\* The steps of the connection preserve the invariant.
LEMMA NetworkInv ==
    ASSUME Inv, Network
    PROVE  Inv'
<1>1. WorldType /\ EdType(ed) /\ EdInv(ed)  BY DEF Inv, EdInv
<1>2. EdInv(ed')
  <2>1. CASE Connect \/ Push  BY <1>1, <2>1 DEF Connect, Push
  <2>2. CASE FlushAccepted \/ FlushRefused
    <3>1. Sending  BY <2>2 DEF FlushAccepted, FlushRefused
    <3>2. EdType(ed') /\ Looks(ed', ed)  BY <1>1, <3>1, SendingIs
    <3>3. QED BY <1>1, <3>2, LooksSame
  <2>3. CASE Receive  BY <2>3, ReceiveIs
  <2>4. CASE Disconnect \/ Answer \/ Prune
    <3>1. EdType(ed') /\ Looks(ed', ed)  BY <1>1, <2>4, QuietIs
    <3>2. QED BY <1>1, <3>1, LooksSame
  <2>5. QED BY <2>1, <2>2, <2>3, <2>4 DEF Network
<1>3. EdInv(ed)'  BY <1>2
<1>4. QED BY <1>1, <1>3, NetworkWorld DEF Inv

\* What a peer sends is a batch.
LEMMA PeerOpsAre ==
    ASSUME WorldType, NEW ids \in Seq(Id), NEW ops \in PeerOps(ids)
    PROVE  ops \in Seq(Ops)
<1>1. room \in Rooms /\ count \in [edits : Nat, puts : Nat, drops : Nat]  BY DEF WorldType
<1>2. Current.doc \in Trees  BY <1>1, CurrentIs
<1>3. MaxClock(Current.doc) \in Nat  BY <1>2, TreeShows
<1>4. Fresh \in Nat /\ Peer \in Nat \ {0}  BY <1>1, FreshIs, SitesAre
<1>5. \A i \in DOMAIN ids : ids[i] \in Id  OBVIOUS
<1>6. Erasing(ids) \subseteq Ops  BY <1>5 DEF Erasing, DelOp, Ops, AnyOp
<1>7. Typing(ids) \subseteq Ops
  <2> SUFFICES ASSUME NEW op \in Typing(ids) PROVE op \in Ops
    OBVIOUS
  <2> DEFINE where == (1 .. MaxClock(Current.doc) + 1) \X (ToSet(ids) \cup {Root})
  <2>1. PICK at \in where : op = InsOp([clock |-> at[1], site |-> Peer], at[2], Fresh)
    BY DEF Typing
  <2>2. at[1] \in Nat \ {0} /\ at[2] \in Id \cup {Root}  BY <1>3, <1>5 DEF ToSet
  <2> HIDE DEF where
  <2>3. [clock |-> at[1], site |-> Peer] \in Id  BY <1>4, <2>2 DEF Id
  <2>4. QED BY <1>4, <2>1, <2>2, <2>3 DEF InsOp, Ops, AnyOp
<1> DEFINE ones == {<<op>> : op \in Erasing(ids) \cup Typing(ids)}
           twos == {<<at[1], at[2]>> : at \in Erasing(ids) \X Typing(ids)}
<1>8. ones \subseteq Seq(Ops)
  <2> SUFFICES ASSUME NEW op \in Erasing(ids) \cup Typing(ids) PROVE <<op>> \in Seq(Ops)
    OBVIOUS
  <2>1. op \in Ops  BY <1>6, <1>7
  <2>2. QED BY <2>1
<1>9. twos \subseteq Seq(Ops)
  <2> SUFFICES ASSUME NEW at \in Erasing(ids) \X Typing(ids) PROVE <<at[1], at[2]>> \in Seq(Ops)
    OBVIOUS
  <2>1. at[1] \in Ops /\ at[2] \in Ops  BY <1>6, <1>7
  <2>2. QED BY <2>1
<1>10. ops \in ones \cup twos  BY DEF PeerOps
<1> HIDE DEF ones, twos
<1>11. QED BY <1>8, <1>9, <1>10

\* It is written to the room.
LEMMA PeerEditIs ==
    ASSUME WorldType, PeerEdit
    PROVE  room' \in Rooms /\ event' \in Events
<1>1. room \in Rooms  BY DEF WorldType
<1>2. Current.doc \in Trees  BY <1>1, CurrentIs
<1>3. VisibleIDs(Current.doc) \in Seq(Id)  BY <1>2, TreeShows
<1>4. Peer \in Nat  BY SitesAre
<1>5. PICK ops \in PeerOps(VisibleIDs(Current.doc)) :
          Write(ApplyBatch(Current.doc, ops).doc, Peer, ops)
  BY DEF PeerEdit
<1>6. ops \in Seq(Ops)  BY <1>3, PeerOpsAre
<1> DEFINE doc == ApplyBatch(Current.doc, ops).doc
<1>7. doc \in Trees  BY <1>2, <1>6, AppliedIs
<1>8. Write(doc, Peer, ops) /\ Peer \in Nat  BY <1>4, <1>5
<1> HIDE DEF doc
<1>9. QED BY <1>1, <1>6, <1>7, <1>8, WriteIs

\* A text put over REST is written to the room.
LEMMA PutIs ==
    ASSUME WorldType, Put
    PROVE  room' \in Rooms /\ event' \in Events
<1>1. room \in Rooms /\ count \in [edits : Nat, puts : Nat, drops : Nat]  BY DEF WorldType
<1>2. Current.doc \in Trees  BY <1>1, CurrentIs
<1> DEFINE old == Materialize(Current.doc)
<1>3. old \in Seq(Nat)  BY <1>2, TreeShows DEF Texts
<1>4. Fresh \in Nat /\ Rest \in Nat \ {0}  BY <1>1, FreshIs, SitesAre
<1>5. PICK text \in {Append(old, Fresh), <<Fresh>>, << >>} :
         Write(BuildFromString(Rest, text), Rest, << >>)
  BY DEF Put
<1> HIDE DEF old
<1>6. text \in Seq(Nat)
  <2>1. Append(old, Fresh) \in Seq(Nat)  BY <1>3, <1>4
  <2>2. <<Fresh>> \in Seq(Nat)  BY <1>4
  <2>3. << >> \in Seq(Nat)  OBVIOUS
  <2>4. QED BY <1>5, <2>1, <2>2, <2>3
<1>7. BuildFromString(Rest, text) \in Trees  BY <1>4, <1>6, BuildShows DEF Trees
<1>8. << >> \in Seq(Ops) /\ Rest \in Nat  BY <1>4
<1>9. QED BY <1>1, <1>5, <1>7, <1>8, WriteIs

\* The rest of the world when others act.
LEMMA OthersWorld ==
    ASSUME WorldType, Others
    PROVE  WorldType'
<1>1. /\ room \in Rooms /\ wire \in Seq(Frames)
      /\ (event # None => event \in Events) /\ count \in [edits : Nat, puts : Nat, drops : Nat]
  BY DEF WorldType
<1>2. CASE PeerEdit
  <2>1. room' \in Rooms /\ event' \in Events  BY <1>2, PeerEditIs
  <2>2. count' \in [edits : Nat, puts : Nat, drops : Nat]  BY <1>1, <1>2, CountedIs DEF PeerEdit
  <2>3. wire' = wire /\ trail' = trail  BY <1>2 DEF PeerEdit
  <2>4. QED BY <1>1, <2>1, <2>2, <2>3 DEF WorldType
<1>3. CASE PeerMove
  <2>1. PICK pos \in 0 .. Len(VisibleIDs(room.doc)) :
           wire' = Append(wire, CursorFrame(AnchorAt(pos, VisibleIDs(room.doc)), pos))
    BY <1>3 DEF PeerMove
  <2> DEFINE ids == VisibleIDs(room.doc)
  <2>2. ids \in Seq(Id)  BY <1>1, TreeShows DEF Rooms
  <2> HIDE DEF ids
  <2>3. AnchorAt(pos, ids) \in Id \cup {Root}
    <3>1. CASE pos = 0 \/ ids = << >>  BY <3>1 DEF AnchorAt
    <3>2. CASE ~(pos = 0 \/ ids = << >>)
      <4>1. pos \in 1 .. Len(ids)  BY <2>2, <3>2 DEF ids
      <4>2. Clamp(pos, Len(ids)) \in 1 .. Len(ids)  BY <2>2, <4>1 DEF Clamp
      <4>3. ids[Clamp(pos, Len(ids))] \in Id  BY <2>2, <4>2
      <4>4. QED BY <3>2, <4>3 DEF AnchorAt
    <3>3. QED BY <3>1, <3>2
  <2> DEFINE f == CursorFrame(AnchorAt(pos, ids), pos)
  <2>4. pos \in Nat  BY <2>2 DEF ids
  <2>5. f \in Frames  BY <2>3, <2>4 DEF CursorFrame, CursorFrames, Frames
  <2>6. wire' = Append(wire, f)  BY <2>1 DEF ids
  <2> HIDE DEF f
  <2>7. wire' \in Seq(Frames)  BY <1>1, <2>5, <2>6
  <2>8. room' = room /\ event' = event /\ trail' = trail /\ Counted("edits")
    BY <1>3 DEF PeerMove
  <2>9. count' \in [edits : Nat, puts : Nat, drops : Nat]  BY <1>1, <2>8, CountedIs
  <2>10. QED BY <1>1, <2>7, <2>8, <2>9 DEF WorldType
<1>4. CASE Put
  <2>1. room' \in Rooms /\ event' \in Events  BY <1>4, PutIs
  <2>2. count' \in [edits : Nat, puts : Nat, drops : Nat]
    <3> DEFINE edits == count.edits + 1
               puts == count.puts + 1
    <3>1. edits \in Nat /\ puts \in Nat  BY <1>1
    <3>2. count' = [count EXCEPT !.edits = edits, !.puts = puts]  BY <1>4 DEF Put
    <3> HIDE DEF edits, puts
    <3>3. QED BY <1>1, <3>1, <3>2
  <2>3. wire' = wire /\ trail' = trail  BY <1>4 DEF Put
  <2>4. QED BY <1>1, <2>1, <2>2, <2>3 DEF WorldType
<1>5. CASE Vanish
  <2>1. NewDoc \in Trees  BY NewDocIsDoc, DocIsTree DEF Trees
  <2>2. room' \in Rooms /\ event' = None  BY <1>1, <1>5, <2>1 DEF Vanish, Rooms
  <2>3. count' \in [edits : Nat, puts : Nat, drops : Nat]  BY <1>1, <1>5, CountedIs DEF Vanish
  <2>4. wire' = wire /\ trail' = trail  BY <1>5 DEF Vanish
  <2>6. QED BY <1>1, <2>2, <2>3, <2>4 DEF WorldType
<1>6. CASE Capture
  <2>1. Materialize(room.doc) \in Texts  BY <1>1, TreeShows DEF Rooms
  <2>2. trail' \in Texts /\ room' = room /\ event' = event /\ wire' = wire /\ Counted("edits")
    BY <1>6, <2>1 DEF Capture
  <2>3. count' \in [edits : Nat, puts : Nat, drops : Nat]  BY <1>1, <2>2, CountedIs
  <2>4. QED BY <1>1, <2>2, <2>3 DEF WorldType
<1>7. QED BY <1>2, <1>3, <1>4, <1>5, <1>6 DEF Others

\* The steps of others preserve the invariant.
LEMMA OthersInv ==
    ASSUME Inv, Others
    PROVE  Inv'
<1>1. WorldType /\ EdType(ed) /\ EdInv(ed)  BY DEF Inv, EdInv
<1>2. EdInv(ed')
  <2>1. CASE Vanish
    <3>1. EdType(ed') /\ Looks(ed', ed)  BY <1>1, <2>1, QuietIs
    <3>2. QED BY <1>1, <3>1, LooksSame
  <2>2. CASE PeerEdit \/ PeerMove \/ Put \/ Capture
    BY <1>1, <2>2 DEF PeerEdit, PeerMove, Put, Capture
  <2>3. QED BY <2>1, <2>2 DEF Others
<1>3. EdInv(ed)'  BY <1>2
<1>4. QED BY <1>1, <1>3, OthersWorld DEF Inv

-----------------------------------------------------------------------------
\* Every step preserves the invariant.
LEMMA StepInv == Inv /\ [Next]_vars => Inv'
<1> SUFFICES ASSUME Inv, [Next]_vars PROVE Inv'
  OBVIOUS
<1>1. CASE User  BY <1>1, UserInv
<1>2. CASE Network  BY <1>2, NetworkInv
<1>3. CASE Others  BY <1>3, OthersInv
<1>4. CASE UNCHANGED vars
  BY <1>4 DEF vars, Inv, WorldType
<1>5. QED BY <1>1, <1>2, <1>3, <1>4 DEF Next

\* The text area shows the document after every operation of the editor.
THEOREM TextareaInStep == Spec => []TextareaShowsDocument
<1>1. Inv => TextareaShowsDocument
  BY DEF Inv, EdInv, Showing, TextareaShowsDocument
<1>2. QED BY <1>1, InitInv, StepInv, PTL DEF Spec

\* Nothing but the user changes what an input method shows.
THEOREM InputMethodUndisturbed == Spec => CompositionUntouched
<1>1. ASSUME Inv, [Next]_vars, ed.ime # "off" /\ ed'.ime # "off" /\ ed'.value # ed.value
      PROVE  ComposeInput \/ ComposeCancel
  <2>1. CASE UNCHANGED vars  BY <1>1, <2>1 DEF vars
  <2>2. CASE Type \/ Erase \/ Undo \/ Redo \/ Restore \/ ComposeStart
    BY <1>1, <2>2 DEF Type, Erase, Undo, Redo, Restore, ComposeStart
  <2>3. CASE ComposeEnd
    <3>1. ed' = [ed EXCEPT !.ime = "ending"]  BY <2>3 DEF ComposeEnd, ByUser
    <3>2. ed'.value = ed.value  BY <1>1, <3>1 DEF Inv, EdInv, EdType, Fields
    <3>3. QED BY <1>1, <3>2
  <2>4. CASE Commit  BY <1>1, <2>4, CommitIs
  <2>5. CASE FlushAccepted \/ FlushRefused
    <3>1. Sending  BY <2>5 DEF FlushAccepted, FlushRefused
    <3>2. QED BY <1>1, <3>1, SendingIs DEF Inv, EdInv, Looks
  <2>6. CASE Receive  BY <1>1, <2>6, ReceiveIs
  <2>7. CASE Disconnect \/ Answer \/ Prune \/ Vanish
    BY <1>1, <2>7, QuietIs DEF Inv, EdInv, Looks
  <2>8. CASE Connect \/ Push \/ PeerEdit \/ PeerMove \/ Put \/ Capture
    BY <1>1, <2>8 DEF Connect, Push, PeerEdit, PeerMove, Put, Capture
  <2>9. QED BY <1>1, <2>1, <2>2, <2>3, <2>4, <2>5, <2>6, <2>7, <2>8 DEF Next, User, Network, Others
<1>2. Inv /\ [Next]_vars
      => [ed.ime # "off" /\ ed'.ime # "off" /\ ed'.value # ed.value
            => ComposeInput \/ ComposeCancel]_vars
  BY <1>1
<1>3. QED BY <1>2, InitInv, StepInv, PTL DEF Spec, CompositionUntouched

\* What arrives leaves the user's caret behind the character it was behind.
THEOREM CaretFollows == Spec => CaretSticks
<1>1. ASSUME Inv, Receive, ed'.value # ed.value
      PROVE  PosAfter(Selection(ed).left, VisibleIDs(ed'.doc)) \in {Unknown, ed'.caret}
  BY <1>1, ReceiveIs DEF CaretAt
<1>2. Inv /\ [Next]_vars
      => [Receive /\ ed.ime = "off" /\ ed.painted /\ ed'.value # ed.value =>
            LET left == Selection(ed).left
            IN  PosAfter(left, VisibleIDs(ed'.doc)) \in {Unknown, ed'.caret}]_vars
  BY <1>1
<1>3. QED BY <1>2, InitInv, StepInv, PTL DEF Spec, CaretSticks

-----------------------------------------------------------------------------
(* The caret of a peer                                                     *)

\* A document with more items, or with more of them erased.
Extends(e, d) ==
    \A k \in Known(d) : /\ k \in Known(e)
                        /\ e.items[k].after = d.items[k].after /\ e.items[k].ch = d.items[k].ch
                        /\ d.items[k].del => e.items[k].del

\* A document extends itself.
LEMMA ExtendsItself == \A d : Extends(d, d)
BY DEF Extends

\* Growth on growth.
LEMMA ExtendsTwice ==
    ASSUME NEW d, NEW e, NEW f, Extends(e, d), Extends(f, e)
    PROVE  Extends(f, d)
BY DEF Extends

\* An operation adds an item, or erases one.
LEMMA ApplyExtends ==
    ASSUME NEW d \in Trees, NEW op \in Ops
    PROVE  Extends(Apply(d, op).doc, d)
<1>1. d \in Tree(Nat)  BY DEF Trees
<1>2. CASE op.op = "ins"
  <2>1. op.id \in Id /\ op.ch \in Nat  BY <1>2 DEF Ops, AnyOp
  <2>2. Apply(d, op) = Insert(d, op.id, op.after, op.ch)  BY <1>2 DEF Apply
  <2>3. CASE op.id \in Known(d) \/ op.after \notin Known(d) \cup {Root}
    BY <2>2, <2>3, ExtendsItself DEF Insert
  <2>4. CASE op.id \notin Known(d) /\ op.after \in Known(d) \cup {Root}
    <3> DEFINE e == Added(d, op.id, op.after, op.ch)
    <3>1. Apply(d, op).doc = e  BY <2>2, <2>4 DEF Insert, Added
    <3>2. GrownBy(e, d, op.id, op.after, op.ch)  BY <1>1, <2>1, <2>4, GrownIs
    <3> HIDE DEF e
    <3>3. Extends(e, d)  BY <3>2 DEF GrownBy, Extends
    <3>4. QED BY <3>1, <3>3
  <2>5. QED BY <2>3, <2>4
<1>3. CASE op.op # "ins"
  <2> DEFINE e == Delete(d, op.id)
  <2>1. Apply(d, op).doc = e  BY <1>3 DEF Apply
  <2>2. BuriedAt(e, d, op.id)  BY <1>1, BuriedIs
  <2> HIDE DEF e
  <2>3. ASSUME NEW k \in Known(d)
        PROVE  /\ k \in Known(e)
               /\ e.items[k].after = d.items[k].after /\ e.items[k].ch = d.items[k].ch
               /\ d.items[k].del => e.items[k].del
    <3>1. k \in Known(e)  BY <2>2 DEF BuriedAt
    <3>2. CASE k = op.id
      <4>1. e.items[k] = [after |-> d.items[k].after, ch |-> d.items[k].ch, del |-> TRUE]
        BY <2>2, <3>2 DEF BuriedAt
      <4>2. QED BY <3>1, <4>1
    <3>3. CASE k # op.id
      <4>1. e.items[k] = d.items[k]  BY <2>2, <3>3 DEF BuriedAt
      <4>2. QED BY <3>1, <4>1
    <3>4. QED BY <3>2, <3>3
  <2>4. Extends(e, d)  BY <2>3 DEF Extends
  <2>5. QED BY <2>1, <2>4
<1>4. QED BY <1>2, <1>3

\* So it is for a batch, whether it fits or stops half-way.
LEMMA BatchExtends ==
    ASSUME NEW d \in Trees, NEW ops \in Seq(Ops)
    PROVE  Extends(ApplyBatch(d, ops).doc, d)
<1> DEFINE N == Len(ops)
<1>1. PICK run \in [0 .. N -> Outcome(Trees)] :
         BatchRun(run, d, ops) /\ ApplyBatch(d, ops) = run[N]
  BY BatchTree DEF Trees, Ops
<1>2. N \in Nat /\ \A n \in 1 .. N : ops[n] \in Ops  OBVIOUS
<1>3. run[0].doc = d /\ \A n \in 1 .. N : run[n] = ApplyNext(run[n - 1], ops[n])
  BY <1>1 DEF BatchRun
<1> HIDE DEF N
<1> DEFINE T == {n \in Nat : n <= N => Extends(run[n].doc, d)}
<1>4. 0 \in T  BY <1>3, ExtendsItself
<1>5. ASSUME NEW n \in T PROVE n + 1 \in T
  <2> SUFFICES ASSUME n + 1 <= N PROVE Extends(run[n + 1].doc, d)
    OBVIOUS
  <2>1. n \in 0 .. N /\ n + 1 \in 1 .. N /\ (n + 1) - 1 = n /\ Extends(run[n].doc, d)  BY <1>2
  <2>2. run[n + 1] = ApplyNext(run[n], ops[n + 1]) /\ ops[n + 1] \in Ops  BY <1>2, <1>3, <2>1
  <2>3. run[n].doc \in Trees  BY <1>1, <2>1 DEF Outcome
  <2>4. Extends(run[n + 1].doc, run[n].doc)
    BY <2>2, <2>3, ApplyExtends, ExtendsItself DEF ApplyNext
  <2>5. QED BY <2>1, <2>4, ExtendsTwice
<1>6. T = Nat
  <2>1. T \in SUBSET Nat  OBVIOUS
  <2> HIDE DEF T
  <2>2. QED BY <1>4, <1>5, <2>1, SetInduction
<1>7. Extends(run[N].doc, d)  BY <1>2, <1>6
<1>8. QED BY <1>1, <1>7

\* The traversal visits what hangs on the root or on what it visits, and nothing else.
LEMMA WalkLeast ==
    ASSUME NEW C, NEW d \in Tree(C)
    PROVE  /\ \A k \in Known(d) : Parent(d, k) \in {Root} \cup ToSet(Walk(d)) => k \in ToSet(Walk(d))
           /\ \A S : (\A k \in Known(d) : Parent(d, k) \in {Root} \cup S => k \in S)
                     => ToSet(Walk(d)) \subseteq S
<1> DEFINE K == Known(d)
           w == Walk(d)
           N == Len(w)
<1>1. PICK stack \in [0 .. N -> Seq(K)] : Unfolds(stack, w, d)  BY WalkUnfolds
<1>2. w \in Seq(K) /\ N \in Nat /\ DOMAIN w = 1 .. N /\ \A n \in 1 .. N : w[n] \in K
  BY WalkUnfolds
<1>3. \A p \in K \cup {Root} :
         d.children[p] \in Seq(K) /\ ToSet(d.children[p]) = {k \in K : Parent(d, k) = p}
  BY TreeIs DEF TreeOf, WellBuilt
<1> HIDE DEF w, N
<1>4. /\ stack[0] = d.children[Root] /\ stack[N] = << >>
      /\ \A n \in 1 .. N : /\ stack[n - 1] # << >> /\ Head(stack[n - 1]) = w[n]
                           /\ stack[n] = d.children[w[n]] \o Tail(stack[n - 1])
  BY <1>1 DEF Unfolds, N
<1>5. ASSUME NEW n \in 1 .. N
      PROVE  /\ ToSet(stack[n - 1]) = {w[n]} \cup ToSet(Tail(stack[n - 1]))
             /\ ToSet(stack[n]) = {k \in K : Parent(d, k) = w[n]} \cup ToSet(Tail(stack[n - 1]))
  <2>1. n - 1 \in 0 .. N /\ w[n] \in K  BY <1>2, <1>5
  <2>2. stack[n - 1] \in Seq(K) /\ stack[n - 1] # << >>  BY <1>1, <1>4, <2>1
  <2>3. Tail(stack[n - 1]) \in Seq(K) /\ ToSet(stack[n - 1]) = {Head(stack[n - 1])} \cup ToSet(Tail(stack[n - 1]))
    BY <2>2, HeadTailIs
  <2>4. d.children[w[n]] \in Seq(K) /\ ToSet(d.children[w[n]]) = {k \in K : Parent(d, k) = w[n]}
    BY <1>3, <2>1
  <2>5. ToSet(d.children[w[n]] \o Tail(stack[n - 1]))
        = ToSet(d.children[w[n]]) \cup ToSet(Tail(stack[n - 1]))
    <3> DEFINE s == d.children[w[n]]
               t == Tail(stack[n - 1])
    <3>1. s \in Seq(K) /\ t \in Seq(K)  BY <2>3, <2>4
    <3> HIDE DEF s, t
    <3>2. ToSet(s \o t) = ToSet(s) \cup ToSet(t)  BY <3>1, ConcatKeeps
    <3>3. QED BY <3>2 DEF s, t
  <2>6. QED BY <1>4, <2>3, <2>4, <2>5
<1> DEFINE T == {n \in Nat : n <= N => ToSet(stack[N - n]) \subseteq ToSet(w)}
<1>6. 0 \in T
  <2>1. ToSet(<< >>) = {}  BY DEF ToSet
  <2>2. N - 0 = N  BY <1>2
  <2>3. QED BY <1>4, <2>1, <2>2
<1>7. ASSUME NEW n \in T PROVE n + 1 \in T
  <2> SUFFICES ASSUME n + 1 <= N PROVE ToSet(stack[N - (n + 1)]) \subseteq ToSet(w)
    OBVIOUS
  <2>1. N - n \in 1 .. N /\ (N - n) - 1 = N - (n + 1) /\ ToSet(stack[N - n]) \subseteq ToSet(w)  BY <1>2
  <2>2. w[N - n] \in ToSet(w)  BY <1>2, <2>1 DEF ToSet
  <2>3. /\ ToSet(stack[N - (n + 1)]) = {w[N - n]} \cup ToSet(Tail(stack[N - (n + 1)]))
        /\ ToSet(Tail(stack[N - (n + 1)])) \subseteq ToSet(stack[N - n])
    BY <1>5, <2>1
  <2>4. QED BY <2>1, <2>2, <2>3
<1>8. T = Nat
  <2>1. T \in SUBSET Nat  OBVIOUS
  <2> HIDE DEF T
  <2>2. QED BY <1>6, <1>7, <2>1, SetInduction
<1>9. \A n \in 0 .. N : ToSet(stack[n]) \subseteq ToSet(w)
  <2> SUFFICES ASSUME NEW n \in 0 .. N PROVE ToSet(stack[n]) \subseteq ToSet(w)
    OBVIOUS
  <2>1. N - n \in Nat /\ N - n <= N /\ N - (N - n) = n  BY <1>2
  <2>2. N - n \in T  BY <1>8, <2>1
  <2>3. QED BY <2>1, <2>2
<1> HIDE DEF T
<1>10. ASSUME NEW k \in K, Parent(d, k) \in {Root} \cup ToSet(w) PROVE k \in ToSet(w)
  <2>1. CASE Parent(d, k) = Root
    <3>1. k \in ToSet(stack[0])  BY <1>3, <1>4, <2>1
    <3>2. 0 \in 0 .. N  BY <1>2
    <3>3. QED BY <1>9, <3>1, <3>2
  <2>2. CASE Parent(d, k) \in ToSet(w)
    <3>1. PICK n \in 1 .. N : Parent(d, k) = w[n]  BY <1>2, <2>2 DEF ToSet
    <3>2. k \in ToSet(stack[n])  BY <1>5, <3>1
    <3>3. n \in 0 .. N  BY <1>2
    <3>4. QED BY <1>9, <3>2, <3>3
  <2>3. QED BY <1>10, <2>1, <2>2
<1>11. ASSUME NEW S, \A k \in K : Parent(d, k) \in {Root} \cup S => k \in S
       PROVE  ToSet(w) \subseteq S
  <2> DEFINE U == {n \in Nat : n <= N => ToSet(stack[n]) \subseteq S}
  <2>1. 0 \in U
    <3>1. ToSet(stack[0]) = {k \in K : Parent(d, k) = Root}  BY <1>3, <1>4
    <3>2. ToSet(stack[0]) \subseteq S  BY <1>11, <3>1
    <3>3. QED BY <3>2
  <2>2. ASSUME NEW n \in U PROVE n + 1 \in U
    <3> SUFFICES ASSUME n + 1 <= N PROVE ToSet(stack[n + 1]) \subseteq S
      OBVIOUS
    <3>1. n + 1 \in 1 .. N /\ (n + 1) - 1 = n /\ ToSet(stack[n]) \subseteq S  BY <1>2
    <3>2. /\ w[n + 1] \in S /\ ToSet(Tail(stack[n])) \subseteq S
          /\ ToSet(stack[n + 1]) = {k \in K : Parent(d, k) = w[n + 1]} \cup ToSet(Tail(stack[n]))
      BY <1>5, <3>1
    <3>3. QED BY <1>11, <3>2
  <2>3. U = Nat
    <3>1. U \in SUBSET Nat  OBVIOUS
    <3> HIDE DEF U
    <3>2. QED BY <2>1, <2>2, <3>1, SetInduction
  <2>4. ASSUME NEW n \in 1 .. N PROVE w[n] \in S
    <3>1. n - 1 \in Nat /\ n - 1 <= N  BY <1>2
    <3>2. n - 1 \in U  BY <2>3, <3>1
    <3>3. ToSet(stack[n - 1]) \subseteq S  BY <3>1, <3>2
    <3>4. QED BY <1>5, <3>3
  <2>5. QED BY <1>2, <2>4 DEF ToSet
<1>12. QED BY <1>10, <1>11 DEF w

\* What is known and shown after an extension was shown before.
LEMMA ShownBefore ==
    ASSUME NEW d \in Trees, NEW e \in Trees, Extends(e, d), NEW id \in Known(d),
           id \in ToSet(VisibleIDs(e))
    PROVE  id \in ToSet(VisibleIDs(d))
<1> DEFINE v == ToSet(Walk(d))
           w == ToSet(Walk(e))
           S == (Known(e) \ Known(d)) \cup v
<1>1. d \in Tree(Nat) /\ e \in Tree(Nat)  BY DEF Trees
<1>2. /\ ToSet(VisibleIDs(d)) = {k \in v : ~d.items[k].del}
      /\ ToSet(VisibleIDs(e)) = {k \in w : ~e.items[k].del}
  BY <1>1, VisibleOfTree DEF Displays
<1>3. \A k \in Known(d) : Parent(d, k) \in Known(d) \cup {Root}
  <2>1. d.items \in [Known(d) -> ItemType(Known(d), Nat)]  BY <1>1, TreeIs DEF TreeOf
  <2>2. QED BY <2>1 DEF ItemType, Parent
<1>4. v \subseteq Known(d)
  <2>1. Walk(d) \in Seq(Known(d))  BY <1>1, WalkType
  <2>2. QED BY <2>1 DEF ToSet
<1>5. Root \notin Known(d)  BY <1>1, TreeIs
<1>6. \A k \in Known(d) : Parent(d, k) \in {Root} \cup v => k \in v  BY <1>1, WalkLeast
<1>7. (\A k \in Known(e) : Parent(e, k) \in {Root} \cup S => k \in S) => w \subseteq S
  <2> HIDE DEF S, w
  <2>1. \A R : (\A k \in Known(e) : Parent(e, k) \in {Root} \cup R => k \in R) => w \subseteq R
    BY <1>1, WalkLeast DEF w
  <2>2. QED BY <2>1
<1> HIDE DEF v, w
<1>8. ASSUME NEW k \in Known(e), Parent(e, k) \in {Root} \cup S PROVE k \in S
  <2>1. CASE k \notin Known(d)  BY <2>1
  <2>2. CASE k \in Known(d)
    <3>1. Parent(e, k) = Parent(d, k)  BY <2>2 DEF Extends, Parent
    <3>2. Parent(d, k) \in {Root} \cup v  BY <1>3, <1>8, <2>2, <3>1
    <3>3. QED BY <1>6, <2>2, <3>2
  <2>3. QED BY <2>1, <2>2
<1>9. id \in S  BY <1>2, <1>7, <1>8
<1>10. id \in v  BY <1>9
<1>11. ~d.items[id].del  BY <1>2 DEF Extends
<1>12. QED BY <1>2, <1>10, <1>11

\* Where an item is shown.
LEMMA PosIs ==
    ASSUME NEW ids \in Seq(Id), Distinct(ids)
    PROVE  /\ \A i \in 1 .. Len(ids) : PosAfter(ids[i], ids) = i
           /\ \A id \in ToSet(ids) : PosAfter(id, ids) \in 1 .. Len(ids) /\ ids[PosAfter(id, ids)] = id
           /\ \A id : id \notin ToSet(ids) \cup {Root} => PosAfter(id, ids) = Unknown
           /\ \A pos \in 0 .. Len(ids) : /\ PosAfter(AnchorAt(pos, ids), ids) = pos
                                        /\ AnchorAt(pos, ids) \in ToSet(ids) \cup {Root}
<1>1. DOMAIN ids = 1 .. Len(ids) /\ Len(ids) \in Nat /\ ToSet(ids) \subseteq Id
      /\ \A i \in 1 .. Len(ids) : ids[i] \in ToSet(ids)
  BY DEF ToSet
<1>2. Root \notin Id  BY DEF Root, Id
<1>3. ASSUME NEW i \in 1 .. Len(ids) PROVE PosAfter(ids[i], ids) = i
  <2>1. PosAfter(ids[i], ids) = CHOOSE j \in 1 .. Len(ids) : ids[j] = ids[i]
    BY <1>1, <1>2 DEF PosAfter
  <2>2. \A j \in 1 .. Len(ids) : ids[j] = ids[i] => j = i  BY DEF Distinct
  <2>3. QED BY <2>1, <2>2
<1>4. ASSUME NEW id \in ToSet(ids)
      PROVE  PosAfter(id, ids) \in 1 .. Len(ids) /\ ids[PosAfter(id, ids)] = id
  <2>1. PICK i \in 1 .. Len(ids) : ids[i] = id  BY <1>1 DEF ToSet
  <2>2. QED BY <1>3, <2>1
<1>5. \A id : id \notin ToSet(ids) \cup {Root} => PosAfter(id, ids) = Unknown
  BY DEF PosAfter
<1>6. ASSUME NEW pos \in 0 .. Len(ids)
      PROVE  PosAfter(AnchorAt(pos, ids), ids) = pos /\ AnchorAt(pos, ids) \in ToSet(ids) \cup {Root}
  <2>1. CASE pos = 0
    <3>1. AnchorAt(pos, ids) = Root  BY <2>1 DEF AnchorAt
    <3>2. QED BY <2>1, <3>1 DEF PosAfter
  <2>2. CASE pos # 0
    <3>1. pos \in 1 .. Len(ids)  BY <1>1, <2>2
    <3>2. ids # << >>  BY <3>1
    <3>3. Clamp(pos, Len(ids)) = pos
      <4> DEFINE n == Len(ids)
      <4>1. n \in Nat /\ pos \in 1 .. n  BY <1>1, <3>1
      <4> HIDE DEF n
      <4>2. Clamp(pos, n) = pos  BY <4>1 DEF Clamp
      <4>3. QED BY <4>2 DEF n
    <3>4. AnchorAt(pos, ids) = ids[pos]  BY <2>2, <3>2, <3>3 DEF AnchorAt
    <3>5. QED BY <1>1, <1>3, <3>1, <3>4
  <2>3. QED BY <2>1, <2>2
<1>7. QED BY <1>3, <1>4, <1>5, <1>6

\* What a page shows, each item once.
LEMMA VisibleOnce ==
    ASSUME NEW d \in Trees
    PROVE  /\ VisibleIDs(d) \in Seq(Id) /\ Distinct(VisibleIDs(d))
           /\ ToSet(VisibleIDs(d)) \subseteq Known(d)
<1>1. VisibleIDs(d) \in Seq(Known(d)) /\ Distinct(VisibleIDs(d))
  BY VisibleOfTree DEF Displays, Trees
<1>2. ToSet(VisibleIDs(d)) \subseteq Known(d)  BY <1>1 DEF ToSet
<1>3. QED BY <1>1, <1>2, TreeShows

\* A caret that is mapped through a change of the text is in the new text.
LEMMA MapCaretIs ==
    ASSUME NEW old \in Texts, NEW new \in Texts, NEW pos \in Nat
    PROVE  MapCaret(old, new, pos) \in 0 .. Len(new)
<1> DEFINE lo == CommonPrefix(old, new)
           a == SubSeq(old, lo + 1, Len(old))
           b == SubSeq(new, lo + 1, Len(new))
           kept == CommonPrefix(Reverse(a), Reverse(b))
<1>1. Len(old) \in Nat /\ Len(new) \in Nat  BY DEF Texts
<1>2. lo \in Nat /\ lo <= Len(old) /\ lo <= Len(new)  BY CommonPrefixIs DEF Texts
<1> HIDE DEF lo
<1>3. a \in Texts /\ Len(a) = Len(old) - lo
  BY <1>1, <1>2, SubSeqIs DEF Texts
<1>4. b \in Texts /\ Len(b) = Len(new) - lo
  BY <1>1, <1>2, SubSeqIs DEF Texts
<1> HIDE DEF a, b
<1>5. /\ Reverse(a) \in Texts /\ Len(Reverse(a)) = Len(a)
      /\ Reverse(b) \in Texts /\ Len(Reverse(b)) = Len(b)
  BY <1>3, <1>4, ReverseIs DEF Texts
<1>6. kept \in Nat /\ kept <= Len(a) /\ kept <= Len(b)
  BY <1>5, CommonPrefixIs DEF Texts
<1> HIDE DEF kept
<1>7. MapCaret(old, new, pos) =
        IF Clamp(pos, Len(old)) <= lo THEN Clamp(pos, Len(old))
        ELSE IF pos >= Len(old) - kept THEN Clamp(pos, Len(old)) + Len(new) - Len(old)
        ELSE lo
  BY DEF MapCaret, lo, a, b, kept
<1>8. QED BY <1>1, <1>2, <1>3, <1>4, <1>6, <1>7 DEF Clamp

\* If the text stays the same and shows no character twice, what is still shown is
\* where it was.
LEMMA SameText ==
    ASSUME NEW d \in Trees, NEW e \in Trees, Extends(e, d), Materialize(e) = Materialize(d),
           IsInjective(Materialize(d)), NEW id \in Known(d) \cup {Root}, NEW pos,
           PosAfter(id, VisibleIDs(d)) \in {Unknown, pos}
    PROVE  PosAfter(id, VisibleIDs(e)) \in {Unknown, pos}
<1> DEFINE v == VisibleIDs(d)
           w == VisibleIDs(e)
<1>1. v \in Seq(Id) /\ Distinct(v) /\ w \in Seq(Id) /\ Distinct(w)  BY VisibleOnce
<1>2. /\ Len(Materialize(d)) = Len(v) /\ Len(Materialize(e)) = Len(w)
      /\ Materialize(d) \in Texts
      /\ \A i \in 1 .. Len(v) : Materialize(d)[i] = d.items[v[i]].ch
      /\ \A i \in 1 .. Len(w) : Materialize(e)[i] = e.items[w[i]].ch
  BY MaterializeIs DEF Trees, Texts
<1>3. CASE id = Root
  BY <1>3 DEF PosAfter
<1>4. CASE id \notin ToSet(w) \cup {Root}
  BY <1>1, <1>4, PosIs
<1>5. CASE id # Root /\ id \in ToSet(w)
  <2>1. id \in Known(d) /\ id \in ToSet(v)  BY <1>5, ShownBefore
  <2>2. d.items[id].ch = e.items[id].ch  BY <2>1 DEF Extends
  <2> DEFINE i == PosAfter(id, v)
             j == PosAfter(id, w)
  <2>3. i \in 1 .. Len(v) /\ v[i] = id  BY <1>1, <2>1, PosIs
  <2>4. j \in 1 .. Len(w) /\ w[j] = id  BY <1>1, <1>5, PosIs
  <2>5. i \in {Unknown, pos}  OBVIOUS
  <2> HIDE DEF i, j, v, w
  <2>6. Materialize(d)[i] = Materialize(d)[j]  BY <1>2, <2>2, <2>3, <2>4
  <2>7. i \in DOMAIN Materialize(d) /\ j \in DOMAIN Materialize(d)  BY <1>2, <2>3, <2>4 DEF Texts
  <2>8. i = j  BY <2>6, <2>7 DEF IsInjective
  <2>9. QED BY <2>5, <2>8 DEF j, w
<1>6. QED BY <1>3, <1>4, <1>5

\* What is known of a peer's caret.
PeerType(e) ==
    e.peer # None => e.peer = [after |-> e.peer.after, pos |-> e.peer.pos] /\ e.peer.pos \in Nat

\* It is behind an item of the document.
Stands(e) ==
    e.peer # None => e.peer.after \in Known(e.doc) \cup {Root} /\ (Clear(e) => Behind(e))

\* From e to x it stays there, or has been put there.
Sticks(x, e) == PeerType(x) /\ (Stands(e) \/ x.peer # e.peer => Stands(x))

\* A caret sticks if nothing happens.
LEMMA SticksItself ==
    ASSUME NEW e, PeerType(e)
    PROVE  Sticks(e, e)
BY DEF Sticks

\* If it sticks from step to step, it sticks.
LEMMA SticksTwice ==
    ASSUME NEW e, NEW x, NEW y, Sticks(x, e), Sticks(y, x)
    PROVE  Sticks(y, e)
BY DEF Sticks

\* The caret is left alone, and so is the document, or it is not what is shown.
LEMMA SticksAlone ==
    ASSUME NEW e, NEW x, PeerType(e), x.peer = e.peer, Extends(x.doc, e.doc),
           Clear(x) => Clear(e) /\ x.doc = e.doc
    PROVE  Sticks(x, e)
<1>1. PeerType(x)  BY DEF PeerType
<1>2. ASSUME Stands(e), x.peer # None PROVE x.peer.after \in Known(x.doc) \cup {Root}
  BY <1>2 DEF Stands, Extends
<1>3. ASSUME Stands(e), x.peer # None, Clear(x) PROVE Behind(x)
  BY <1>3 DEF Stands, Behind
<1>4. Stands(e) => Stands(x)  BY <1>2, <1>3 DEF Stands
<1>5. QED BY <1>1, <1>4 DEF Sticks

\* What the page shows and the caret are the same.
LEMMA SticksLooking ==
    ASSUME NEW e, NEW x, PeerType(e), x.peer = e.peer, Looks(x, e)
    PROVE  Sticks(x, e)
<1>1. Extends(x.doc, e.doc) /\ x.doc = e.doc  BY ExtendsItself DEF Looks
<1>2. Clear(x) => Clear(e)  BY DEF Looks, Alike, Clear, Text
<1>3. QED BY <1>1, <1>2, SticksAlone

\* A caret that is put somewhere on what is shown.
LEMMA Anchored ==
    ASSUME NEW e, EdType(e), NEW pos \in 0 .. Len(VisibleIDs(e.doc)), NEW x,
           x.doc = e.doc, x.peer = [after |-> AnchorAt(pos, VisibleIDs(e.doc)), pos |-> pos]
    PROVE  PeerType(x) /\ Stands(x)
<1> DEFINE ids == VisibleIDs(e.doc)
<1>1. ids \in Seq(Id) /\ Distinct(ids) /\ ToSet(ids) \subseteq Known(e.doc)
  BY VisibleOnce DEF EdType
<1>2. PosAfter(AnchorAt(pos, ids), ids) = pos /\ AnchorAt(pos, ids) \in ToSet(ids) \cup {Root}
  BY <1>1, PosIs
<1>3. pos \in Nat  BY <1>1
<1>4. x.peer.after = AnchorAt(pos, ids) /\ x.peer.pos = pos  OBVIOUS
<1> HIDE DEF ids
<1>5. VisibleIDs(x.doc) = ids  BY DEF ids
<1>6. QED BY <1>1, <1>2, <1>3, <1>4, <1>5 DEF PeerType, Stands, Behind

\* onLocalTextChanged, after the document has grown.
LEMMA TextChangedSticks ==
    ASSUME NEW e, EdType(e), PeerType(e), NEW y, EdType(y), y.peer = e.peer, Extends(y.doc, e.doc),
           y.painted /\ ~y.torn => e.painted /\ ~e.torn,
           NEW x, x = TextChanged(y, Text(e))
    PROVE  Sticks(x, e)
<1> DEFINE new == Text(y)
           old == Text(e)
           ids == VisibleIDs(y.doc)
           pos == PosAfter(y.peer.after, ids)
           mapped == MapCaret(old, new, y.peer.pos)
           anchor == AnchorAt(mapped, ids)
<1>1. e.doc \in Trees /\ y.doc \in Trees  BY DEF EdType
<1>2. old \in Texts /\ new \in Texts /\ Len(new) = Len(ids)  BY <1>1, TreeShows DEF Text
<1>3. ids \in Seq(Id) /\ Distinct(ids) /\ ToSet(ids) \subseteq Known(y.doc)  BY <1>1, VisibleOnce
<1>4. CASE y.peer = None
  <2>1. x = y  BY <1>4 DEF TextChanged
  <2>2. QED BY <1>4, <2>1 DEF Sticks, PeerType, Stands
<1>5. CASE y.peer # None /\ old = new
  <2>1. x = y  BY <1>5 DEF TextChanged
  <2>2. PeerType(y)  BY DEF PeerType
  <2>3. ASSUME Stands(e) PROVE Stands(y)
    <3>1. y.peer.after \in Known(e.doc) \cup {Root} /\ (Clear(e) => Behind(e))
      BY <1>5, <2>3 DEF Stands
    <3>2. y.peer.after \in Known(y.doc) \cup {Root}  BY <3>1 DEF Extends
    <3>3. ASSUME Clear(y) PROVE Behind(y)
      <4>1. Clear(e) /\ IsInjective(Text(e))  BY <1>5, <3>3 DEF Clear
      <4>2. PosAfter(y.peer.after, VisibleIDs(e.doc)) \in {Unknown, y.peer.pos}  BY <3>1, <4>1 DEF Behind
      <4>3. Materialize(y.doc) = Materialize(e.doc)  BY <1>5 DEF Text
      <4>4. IsInjective(Materialize(e.doc))  BY <4>1 DEF Text
      <4>5. PosAfter(y.peer.after, VisibleIDs(y.doc)) \in {Unknown, y.peer.pos}
        <5> DEFINE d == e.doc
                   f == y.doc
                   id == y.peer.after
                   at == y.peer.pos
        <5>1. d \in Trees /\ f \in Trees /\ Extends(f, d) /\ Materialize(f) = Materialize(d)
              /\ IsInjective(Materialize(d)) /\ id \in Known(d) \cup {Root}
              /\ PosAfter(id, VisibleIDs(d)) \in {Unknown, at}
          BY <1>1, <3>1, <4>2, <4>3, <4>4
        <5> HIDE DEF d, f, id, at
        <5>2. PosAfter(id, VisibleIDs(f)) \in {Unknown, at}  BY <5>1, SameText
        <5>3. QED BY <5>2 DEF f, id, at
      <4>6. QED BY <4>5 DEF Behind
    <3>4. QED BY <3>2, <3>3 DEF Stands
  <2>4. QED BY <2>1, <2>2, <2>3 DEF Sticks
<1>6. CASE y.peer # None /\ old # new /\ pos # Unknown
  <2>1. x = [y EXCEPT !.peer.pos = pos]  BY <1>6 DEF TextChanged
  <2>2. y.peer = [after |-> y.peer.after, pos |-> y.peer.pos]  BY <1>6 DEF PeerType
  <2>3. y.peer.after \in ToSet(ids) \cup {Root}  BY <1>3, <1>6, PosIs
  <2>4. pos \in Nat
    <3>1. CASE y.peer.after = Root  BY <3>1 DEF PosAfter
    <3>2. CASE y.peer.after \in ToSet(ids)  BY <1>3, <3>2, PosIs
    <3>3. QED BY <2>3, <3>1, <3>2
  <2>5. x.doc = y.doc /\ x.peer = [y.peer EXCEPT !.pos = pos]
    <3> HIDE DEF pos
    <3>1. QED BY <2>1 DEF EdType, Fields
  <2>6. x.peer = [after |-> y.peer.after, pos |-> pos]
    <3> HIDE DEF pos
    <3>1. QED BY <2>2, <2>5
  <2>7. x.peer.after = y.peer.after /\ x.peer.pos = pos  BY <2>6
  <2>8. Behind(x)  BY <2>5, <2>7 DEF Behind
  <2>9. PeerType(x)  BY <2>4, <2>6, <2>7 DEF PeerType
  <2>10. Stands(x)  BY <1>3, <2>3, <2>5, <2>7, <2>8 DEF Stands
  <2>11. QED BY <2>9, <2>10 DEF Sticks
<1>7. CASE y.peer # None /\ old # new /\ pos = Unknown
  <2>1. x = [y EXCEPT !.peer = [after |-> anchor, pos |-> mapped]]  BY <1>7 DEF TextChanged
  <2>2. y.peer.pos \in Nat  BY <1>7 DEF PeerType
  <2>3. mapped \in 0 .. Len(ids)
    <3> HIDE DEF old, new
    <3>1. QED BY <1>2, <2>2, MapCaretIs
  <2>4. x.doc = y.doc /\ x.peer = [after |-> anchor, pos |-> mapped]
    <3> HIDE DEF anchor, mapped
    <3>1. QED BY <2>1 DEF EdType, Fields
  <2>5. PeerType(x) /\ Stands(x)  BY <2>3, <2>4, Anchored
  <2>6. QED BY <2>5 DEF Sticks
<1>8. QED BY <1>4, <1>5, <1>6, <1>7

\* A snapshot.
LEMMA ReanchoredStands ==
    ASSUME NEW e, EdType(e), PeerType(e), NEW x, x = Reanchored(e)
    PROVE  PeerType(x) /\ Stands(x)
<1> DEFINE ids == VisibleIDs(e.doc)
           known == PosAfter(e.peer.after, ids)
           pos == IF known # Unknown THEN known ELSE Clamp(e.peer.pos, Len(ids))
<1>1. CASE e.peer = None
  <2>1. x = e  BY <1>1 DEF Reanchored
  <2>2. QED BY <1>1, <2>1 DEF PeerType, Stands
<1>2. CASE e.peer # None
  <2>1. ids \in Seq(Id) /\ Distinct(ids) /\ Len(ids) \in Nat  BY VisibleOnce DEF EdType
  <2>2. pos \in 0 .. Len(ids)
    <3>1. CASE known # Unknown
      <4>1. e.peer.after \in ToSet(ids) \cup {Root}  BY <2>1, <3>1, PosIs
      <4>2. CASE e.peer.after = Root
        <5>1. known = 0  BY <4>2 DEF PosAfter
        <5>2. QED BY <2>1, <3>1, <5>1
      <4>3. CASE e.peer.after \in ToSet(ids)
        <5>1. known \in 1 .. Len(ids)  BY <2>1, <4>3, PosIs
        <5> HIDE DEF known
        <5>2. QED BY <2>1, <3>1, <5>1
      <4>4. QED BY <4>1, <4>2, <4>3
    <3>2. CASE known = Unknown
      <4>1. pos = Clamp(e.peer.pos, Len(ids)) /\ e.peer.pos \in Nat  BY <1>2, <3>2 DEF PeerType
      <4> HIDE DEF pos
      <4>2. QED BY <2>1, <4>1 DEF Clamp
    <3>3. QED BY <3>1, <3>2
  <2> DEFINE anchor == AnchorAt(pos, ids)
  <2>3. x = [e EXCEPT !.peer = [after |-> anchor, pos |-> pos]]  BY <1>2 DEF Reanchored
  <2>4. x.doc = e.doc /\ x.peer = [after |-> anchor, pos |-> pos]
    <3> HIDE DEF anchor, pos
    <3>1. QED BY <2>3 DEF EdType, Fields
  <2> HIDE DEF pos
  <2>5. QED BY <2>2, <2>4, Anchored
<1>3. QED BY <1>1, <1>2

\* What is typed grows the document and moves no caret.
LEMMA TypedPeer ==
    ASSUME NEW e, EdType(e), NEW ops \in Seq(Ops), NEW join, NEW x, x = Typed(e, ops, join)
    PROVE  x.peer = e.peer /\ Extends(x.doc, e.doc)
<1>1. x.doc = ApplyBatch(e.doc, ops).doc  BY TypedIs
<1>2. e.doc \in Trees  BY DEF EdType
<1>3. x.peer = e.peer
  <2>1. CASE ops = << >>
    <3>1. x = e  BY <2>1 DEF Typed
    <3>2. QED BY <3>1
  <2>2. CASE ops # << >>
    <3> DEFINE doc == ApplyBatch(e.doc, ops).doc
               clock == Clock([e EXCEPT !.doc = doc])
               pending == e.pending \o ops
               undo == Pushed(e.undo, ops, join)
    <3>1. x = [e EXCEPT !.doc = doc, !.clock = clock, !.pending = pending, !.undo = undo,
                        !.redo = << >>]
      BY <2>2 DEF Typed
    <3> HIDE DEF doc, clock, pending, undo
    <3>2. QED BY <3>1 DEF EdType, Fields
  <2>3. QED BY <2>1, <2>2
<1>4. QED BY <1>1, <1>2, <1>3, BatchExtends

\* So it is with a text that is typed.
LEMMA LocalTextPeer ==
    ASSUME NEW e, EdType(e), NEW text \in Texts, NEW join, NEW x, x = LocalText(e, text, join)
    PROVE  x.peer = e.peer /\ Extends(x.doc, e.doc)
<1> DEFINE ops == DiffToOps(VisibleIDs(e.doc), Text(e), text, Me, Clock(e))
<1>1. e.doc \in Trees /\ Clock(e) \in Nat /\ MaxClock(e.doc) <= Clock(e) /\ Me \in Nat \ {0}
  BY ClockIs, SitesAre DEF EdType
<1>2. ops = DiffToOps(VisibleIDs(e.doc), Materialize(e.doc), text, Me, Clock(e))
  BY DEF Text
<1>3. x = Typed(e, ops, join)  BY DEF LocalText
<1> HIDE DEF ops
<1>4. ops \in Seq(Ops)  BY <1>1, <1>2, DifferenceShown DEF Ops, Trees, Texts
<1>5. QED BY <1>3, <1>4, TypedPeer

\* An inverse, too, grows the document.
LEMMA InvertedPeer ==
    ASSUME NEW e, EdType(e), NEW entry \in Seq(Ops), NEW res, res = Inverted(e, entry)
    PROVE  res.e.peer = e.peer /\ Extends(res.e.doc, e.doc)
<1> DEFINE inv == InverseOps(e, entry)
           doc == ApplyBatch(e.doc, inv.ops).doc
           clock == Larger(inv.clock, MaxClock(doc))
           pending == e.pending \o inv.ops
           x == [e EXCEPT !.doc = doc, !.clock = clock, !.pending = pending]
<1>1. res = [ops |-> inv.ops, e |-> x]  BY DEF Inverted
<1>2. inv.ops \in Seq(Ops)  BY InverseIs
<1>3. e.doc \in Trees  BY DEF EdType
<1> HIDE DEF inv
<1>4. Extends(doc, e.doc)  BY <1>2, <1>3, BatchExtends
<1> HIDE DEF doc, clock, pending
<1>5. x.peer = e.peer /\ x.doc = doc  BY DEF EdType, Fields
<1>6. res.e = x  BY <1>1
<1> HIDE DEF x
<1>7. QED BY <1>4, <1>5, <1>6

\* setContentValue moves the user's caret only.
LEMMA ShowPeer ==
    ASSUME NEW e, EdType(e), NEW sel, NEW x, x = Show(e, sel)
    PROVE  x.peer = e.peer
<1>1. CASE e.value = Text(e)
  <2>1. x = e  BY <1>1 DEF Show
  <2>2. QED BY <2>1
<1>2. CASE e.value # Text(e)
  <2> DEFINE shown == [e EXCEPT !.value = Text(e)]
             caret == RestoreSelection(shown, sel)
  <2>1. x = [shown EXCEPT !.caret = caret]  BY <1>2 DEF Show
  <2> HIDE DEF caret
  <2>2. QED BY <2>1 DEF EdType, Fields
<1>3. QED BY <1>1, <1>2

\* undo, redo, restore and the end of a composition.
LEMMA ShowInverseSticks ==
    ASSUME NEW e, EdType(e), PeerType(e), NEW y, EdType(y), y.peer = e.peer,
           Extends(y.doc, e.doc), y.painted = e.painted, y.torn = e.torn,
           NEW x, x = ShowInverse(y, Text(e))
    PROVE  Sticks(x, e)
<1> DEFINE caret == Clamp(y.caret, Len(Text(y)))
           z == [y EXCEPT !.value = Text(y), !.caret = caret]
<1>1. x = TextChanged(z, Text(e))  BY DEF ShowInverse
<1>2. Text(y) \in Texts  BY TreeShows DEF EdType, Text
<1>3. EdType(z) /\ z.peer = y.peer /\ z.doc = y.doc /\ z.painted = y.painted /\ z.torn = y.torn
  <2> HIDE DEF caret
  <2>1. QED BY <1>2 DEF EdType, Fields
<1> HIDE DEF z
<1>4. z.painted /\ ~z.torn => e.painted /\ ~e.torn  BY <1>3
<1>5. z.peer = e.peer /\ Extends(z.doc, e.doc)  BY <1>3
<1>6. QED BY <1>1, <1>3, <1>4, <1>5, TextChangedSticks

\* Undo moves the peer's caret with its item.
LEMMA UndoneSticks ==
    ASSUME NEW e, EdType(e), PeerType(e), e.undo # << >>, NEW x, x = Undone(e)
    PROVE  Sticks(x, e)
<1>1. e.undo \in Seq(Seq(Ops)) /\ e.redo \in Seq(Seq(Ops))  BY DEF EdType
<1>2. Last(e.undo) \in Seq(Ops) /\ Front(e.undo) \in Seq(Seq(Ops))  BY <1>1, StackIs
<1> DEFINE res == Inverted(e, Last(e.undo))
<1>3. /\ res.ops \in Seq(Ops) /\ EdType(res.e) /\ Alike(res.e, e)
      /\ res.e.peer = e.peer /\ Extends(res.e.doc, e.doc)
  BY <1>2, InvertedIs, InvertedPeer
<1>4. CASE res.ops = << >>
  <2>1. x = [e EXCEPT !.undo = Front(e.undo)]  BY <1>4 DEF Undone
  <2>2. x.peer = e.peer /\ Looks(x, e)  BY <2>1 DEF EdType, Fields, Looks, Alike
  <2>3. QED BY <2>2, SticksLooking
<1>5. CASE res.ops # << >>
  <2> DEFINE d == res.e
             y == [d EXCEPT !.undo = Front(d.undo), !.redo = Append(d.redo, res.ops)]
  <2>1. x = ShowInverse(y, Text(e))  BY <1>5 DEF Undone
  <2>2. d.undo = e.undo /\ d.redo = e.redo  BY DEF Inverted, EdType, Fields
  <2> HIDE DEF res
  <2>3. Append(d.redo, res.ops) \in Seq(Seq(Ops))  BY <1>1, <1>3, <2>2
  <2>4. Front(d.undo) \in Seq(Seq(Ops))  BY <1>2, <2>2
  <2>5. EdType(y) /\ Alike(y, e) /\ y.peer = d.peer /\ y.doc = d.doc
    BY <1>3, <2>3, <2>4 DEF EdType, Fields, Alike
  <2>6. y.peer = e.peer /\ Extends(y.doc, e.doc) /\ y.painted = e.painted /\ y.torn = e.torn
    BY <1>3, <2>5 DEF Alike
  <2> HIDE DEF y
  <2>7. QED BY <2>1, <2>5, <2>6, ShowInverseSticks
<1>6. QED BY <1>4, <1>5

\* So does redo.
LEMMA RedoneSticks ==
    ASSUME NEW e, EdType(e), PeerType(e), e.redo # << >>, NEW x, x = Redone(e)
    PROVE  Sticks(x, e)
<1>1. e.undo \in Seq(Seq(Ops)) /\ e.redo \in Seq(Seq(Ops))  BY DEF EdType
<1>2. Last(e.redo) \in Seq(Ops) /\ Front(e.redo) \in Seq(Seq(Ops))  BY <1>1, StackIs
<1> DEFINE res == Inverted(e, Last(e.redo))
<1>3. /\ res.ops \in Seq(Ops) /\ EdType(res.e) /\ Alike(res.e, e)
      /\ res.e.peer = e.peer /\ Extends(res.e.doc, e.doc)
  BY <1>2, InvertedIs, InvertedPeer
<1>4. CASE res.ops = << >>
  <2>1. x = [e EXCEPT !.redo = Front(e.redo)]  BY <1>4 DEF Redone
  <2>2. x.peer = e.peer /\ Looks(x, e)  BY <2>1 DEF EdType, Fields, Looks, Alike
  <2>3. QED BY <2>2, SticksLooking
<1>5. CASE res.ops # << >>
  <2> DEFINE d == res.e
             y == [d EXCEPT !.redo = Front(d.redo), !.undo = Append(d.undo, res.ops)]
  <2>1. x = ShowInverse(y, Text(e))  BY <1>5 DEF Redone
  <2>2. d.undo = e.undo /\ d.redo = e.redo  BY DEF Inverted, EdType, Fields
  <2> HIDE DEF res
  <2>3. Append(d.undo, res.ops) \in Seq(Seq(Ops))  BY <1>1, <1>3, <2>2
  <2>4. Front(d.redo) \in Seq(Seq(Ops))  BY <1>2, <2>2
  <2>5. EdType(y) /\ Alike(y, e) /\ y.peer = d.peer /\ y.doc = d.doc
    BY <1>3, <2>3, <2>4 DEF EdType, Fields, Alike
  <2>6. y.peer = e.peer /\ Extends(y.doc, e.doc) /\ y.painted = e.painted /\ y.torn = e.torn
    BY <1>3, <2>5 DEF Alike
  <2> HIDE DEF y
  <2>7. QED BY <2>1, <2>5, <2>6, ShowInverseSticks
<1>6. QED BY <1>4, <1>5

\* handleState
LEMMA AdoptedSticks ==
    ASSUME NEW e, EdType(e), PeerType(e), NEW r \in Rooms, NEW join, NEW x, x = Adopted(e, r, join)
    PROVE  Sticks(x, e)
<1> DEFINE theirs == Materialize(r.doc)
           res == Replayed(e, r.doc)
           replayed == e.pending # << >> /\ res.ok
           draft == ~e.painted /\ e.pending = << >> /\ e.synced = << >> /\ e.value # << >>
           rebase == ~replayed /\ e.value # theirs /\ (e.pending # << >> \/ draft)
                     /\ Rebased(e, theirs) # theirs
           doc == res.doc
           clock == IF replayed THEN MaxClock(res.doc) ELSE MaxClock(r.doc)
           pending == IF replayed THEN e.pending ELSE << >>
           known == [exists |-> r.exists, ver |-> r.ver,
                     gen |-> IF r.exists THEN r.gen ELSE e.known.gen]
           astray == e.astray \/ Unfit(e, r, res)
           fresh == [e EXCEPT !.doc = doc, !.clock = clock, !.pending = pending, !.flying = {},
                              !.synced = theirs, !.known = known, !.ask = FALSE, !.torn = FALSE,
                              !.painted = TRUE, !.astray = astray]
           next == IF rebase THEN LocalText(fresh, Rebased(e, theirs), join) ELSE fresh
           sel == Selection(e)
           shown == Show(next, sel)
<1>1. x = Reanchored(shown)  BY DEF Adopted
<1>2. r.doc \in Trees /\ e.pending \in Seq(Ops)  BY DEF Rooms, EdType
<1>3. doc \in Trees  BY <1>2, AppliedIs DEF Replayed
<1>4. theirs \in Texts /\ MaxClock(r.doc) \in Nat  BY <1>2, TreeShows
<1>5. clock \in Nat  BY <1>3, <1>4, TreeShows
<1>6. pending \in Seq(Ops)
  <2>1. << >> \in Seq(Ops)  OBVIOUS
  <2>2. QED BY <1>2, <2>1
<1>7. Rebased(e, theirs) \in Texts  BY <1>4, RebasedIs
<1> HIDE DEF theirs, doc, clock, pending, known, astray, rebase, sel
<1>8. EdType(fresh) /\ fresh.peer = e.peer
  <2>1. fresh = Taken(e, doc, clock, pending, theirs, known, astray)  BY DEF Taken
  <2> HIDE DEF fresh
  <2>2. QED BY <1>3, <1>4, <1>5, <1>6, <2>1, SnapshotTaken
<1> HIDE DEF fresh
<1>9. EdType(next) /\ next.peer = fresh.peer
  <2>1. CASE rebase
    <3>1. next = LocalText(fresh, Rebased(e, theirs), join)  BY <2>1
    <3>2. QED BY <1>7, <1>8, <3>1, LocalTextIs, LocalTextPeer
  <2>2. CASE ~rebase
    <3>1. next = fresh  BY <2>2
    <3>2. QED BY <1>8, <3>1
  <2>3. QED BY <2>1, <2>2
<1> HIDE DEF next
<1>10. EdType(shown) /\ shown.peer = next.peer
  <2>1. shown = Show(next, sel)  OBVIOUS
  <2> HIDE DEF shown
  <2>2. QED BY <1>9, <2>1, ShowIs, ShowPeer
<1> HIDE DEF shown
<1>11. PeerType(shown)  BY <1>8, <1>9, <1>10 DEF PeerType
<1>12. PeerType(x) /\ Stands(x)  BY <1>1, <1>10, <1>11, ReanchoredStands
<1>13. QED BY <1>12 DEF Sticks

\* A state is adopted or stale.
LEMMA HandleStateSticks ==
    ASSUME NEW e, EdType(e), PeerType(e), NEW f \in StateFrames, NEW join,
           NEW x, x = HandleState(e, f, join)
    PROVE  Sticks(x, e)
<1>1. f.room \in Rooms  BY DEF StateFrames
<1>2. CASE SnapshotIsStale(e.known, f.room)
  <2>1. x = e  BY <1>2 DEF HandleState
  <2>2. QED BY <2>1, SticksItself
<1>3. CASE ~SnapshotIsStale(e.known, f.room)
  <2>1. x = Adopted(e, f.room, join)  BY <1>3 DEF HandleState
  <2>2. QED BY <1>1, <2>1, AdoptedSticks
<1>4. QED BY <1>2, <1>3

\* handleRemoteOps
LEMMA HandleOpsSticks ==
    ASSUME NEW e, EdType(e), PeerType(e), NEW f \in OpsFrames, NEW x, x = HandleOps(e, f)
    PROVE  Sticks(x, e)
<1> DEFINE res == ApplyBatch(e.doc, f.ops)
           known == [e.known EXCEPT !.ver = f.ver]
           next == [e EXCEPT !.known.ver = f.ver, !.synced = f.text]
<1>1. f.ops \in Seq(Ops) /\ f.text \in Texts  BY DEF OpsFrames
<1>2. e.doc \in Trees /\ e.clock \in Nat /\ e.torn \in BOOLEAN  BY DEF EdType
<1>3. res.doc \in Trees /\ res.ok \in BOOLEAN /\ Extends(res.doc, e.doc)
  BY <1>1, <1>2, AppliedIs, BatchExtends
<1>4. next = [e EXCEPT !.known = known, !.synced = f.text]  OBVIOUS
<1> HIDE DEF res, known, next
<1>5. EdType(next) /\ Looks(next, e) /\ next.peer = e.peer /\ next.clock = e.clock
  BY <1>1, <1>4 DEF EdType, Fields, Looks, Alike
<1>6. CASE Misses(e, f)
  <2>1. x = [e EXCEPT !.ask = TRUE]  BY <1>6 DEF HandleOps
  <2>2. x.peer = e.peer /\ Looks(x, e)  BY <2>1 DEF EdType, Fields, Looks, Alike
  <2>3. QED BY <2>2, SticksLooking
<1>7. CASE ~Misses(e, f) /\ (f.gen < e.known.gen \/ f.ver <= e.known.ver)
  <2>1. x = e  BY <1>7 DEF HandleOps
  <2>2. QED BY <2>1, SticksItself
<1>8. CASE ~Misses(e, f) /\ ~(f.gen < e.known.gen \/ f.ver <= e.known.ver) /\ f.by = Me
  <2> DEFINE pending == Without(next.pending, Keys(f.ops))
             flying == Forget(next.flying, Keys(f.ops))
  <2>1. x = [next EXCEPT !.pending = pending, !.flying = flying]
    BY <1>8 DEF HandleOps, next
  <2> HIDE DEF pending, flying
  <2>2. x.peer = next.peer /\ Looks(x, next)  BY <1>5, <2>1 DEF EdType, Fields, Looks, Alike
  <2>3. x.peer = e.peer /\ Looks(x, e)  BY <1>5, <2>2 DEF Looks, Alike
  <2>4. QED BY <2>3, SticksLooking
<1>9. CASE ~Misses(e, f) /\ ~(f.gen < e.known.gen \/ f.ver <= e.known.ver) /\ f.by # Me /\ ~res.ok
  <2> DEFINE torn == e.torn \/ res.doc # e.doc
  <2>1. x = [e EXCEPT !.doc = res.doc, !.ask = TRUE, !.torn = torn]
    BY <1>9 DEF HandleOps, res
  <2>2. ~torn => res.doc = e.doc /\ ~e.torn  OBVIOUS
  <2> HIDE DEF torn
  <2>3. x.doc = res.doc /\ x.torn = torn /\ x.painted = e.painted /\ x.peer = e.peer
    BY <2>1 DEF EdType, Fields
  <2>4. Clear(x) => Clear(e) /\ x.doc = e.doc  BY <2>2, <2>3 DEF Clear, Text
  <2>5. QED BY <1>3, <2>3, <2>4, SticksAlone
<1>10. CASE ~Misses(e, f) /\ ~(f.gen < e.known.gen \/ f.ver <= e.known.ver) /\ f.by # Me /\ res.ok
  <2> DEFINE clock == Bumped(next.clock, f.ops)
             y == [next EXCEPT !.doc = res.doc, !.clock = clock]
             sel == Selection(e)
             z == Show(y, sel)
  <2>1. x = TextChanged(z, Text(e))
    BY <1>10 DEF HandleOps, res, next
  <2>2. clock \in Nat  BY <1>1, <1>2, <1>5, BumpedIs
  <2> HIDE DEF clock, sel
  <2>3. EdType(y) /\ Alike(y, next) /\ y.doc = res.doc /\ y.peer = next.peer
    BY <1>3, <1>5, <2>2 DEF EdType, Fields, Alike
  <2> HIDE DEF y
  <2>4. EdType(z) /\ Alike(z, y) /\ z.doc = y.doc /\ z.peer = y.peer
    <3>1. z = Show(y, sel)  OBVIOUS
    <3> HIDE DEF z
    <3>2. QED BY <2>3, <3>1, ShowIs, ShowPeer
  <2> HIDE DEF z
  <2>5. z.painted /\ ~z.torn => e.painted /\ ~e.torn  BY <1>5, <2>3, <2>4 DEF Looks, Alike
  <2>6. z.peer = e.peer /\ Extends(z.doc, e.doc)  BY <1>3, <1>5, <2>3, <2>4
  <2>7. QED BY <2>1, <2>4, <2>5, <2>6, TextChangedSticks
<1>11. QED BY <1>3, <1>6, <1>7, <1>8, <1>9, <1>10

\* handleAck
LEMMA HandleAckSticks ==
    ASSUME NEW e, EdType(e), PeerType(e), NEW f, NEW x, x = HandleAck(e, f)
    PROVE  Sticks(x, e)
<1> DEFINE pending == Without(e.pending, Confirms(e, f.seq))
           flying == {b \in e.flying : b.seq # f.seq}
           astray == e.astray \/ \E i \in DOMAIN e.deferred : e.deferred[i].type = "state"
           next == [e EXCEPT !.pending = pending, !.flying = flying, !.astray = astray]
<1>1. x = next \/ \E k, a : x = [next EXCEPT !.known = k, !.astray = a]
  BY DEF HandleAck
<1> HIDE DEF pending, flying, astray
<1>2. x.peer = e.peer  BY <1>1 DEF EdType, Fields
<1>3. Looks(x, e)  BY HandleAckIs
<1>4. QED BY <1>2, <1>3, SticksLooking

\* A message with content.
LEMMA ContentSticks ==
    ASSUME NEW e, EdType(e), PeerType(e), NEW f \in ContentFrames, NEW join,
           NEW x, x = Handle(e, f, join)
    PROVE  Sticks(x, e)
<1>1. CASE f \in StateFrames
  <2>1. f.type = "state"  BY <1>1 DEF StateFrames
  <2>2. x = HandleState(e, f, join)  BY <2>1 DEF Handle
  <2>3. QED BY <1>1, <2>2, HandleStateSticks
<1>2. CASE f \in OpsFrames
  <2>1. f.type = "ops"  BY <1>2 DEF OpsFrames
  <2>2. x = HandleOps(e, f)  BY <2>1 DEF Handle
  <2>3. QED BY <1>2, <2>2, HandleOpsSticks
<1>3. QED BY <1>1, <1>2 DEF ContentFrames

\* What was held back, message after message.
LEMMA HandleAllSticks ==
    ASSUME NEW e, EdType(e), PeerType(e), NEW frames \in Seq(ContentFrames), NEW join,
           NEW x, x = HandleAll(e, frames, join)
    PROVE  Sticks(x, e)
<1> DEFINE N == Len(frames)
<1>1. PICK after :
         /\ after[0] = e
         /\ \A n \in 1 .. N : after[n] = Handle(after[n - 1], frames[n], join)
         /\ HandleAll(e, frames, join) = after[N]
  BY HandlingRuns
<1>2. N \in Nat /\ \A n \in 1 .. N : frames[n] \in ContentFrames  OBVIOUS
<1> HIDE DEF N
<1> DEFINE T == {n \in Nat : n <= N => EdType(after[n]) /\ Sticks(after[n], e)}
<1>3. 0 \in T  BY <1>1, SticksItself
<1>4. ASSUME NEW n \in T PROVE n + 1 \in T
  <2> SUFFICES ASSUME n + 1 <= N PROVE EdType(after[n + 1]) /\ Sticks(after[n + 1], e)
    OBVIOUS
  <2>1. n + 1 \in 1 .. N /\ (n + 1) - 1 = n /\ EdType(after[n]) /\ Sticks(after[n], e)  BY <1>2
  <2>2. after[n + 1] = Handle(after[n], frames[n + 1], join) /\ frames[n + 1] \in ContentFrames
    BY <1>1, <1>2, <2>1
  <2>3. frames[n + 1] \in Frames  BY <2>2 DEF Frames
  <2>4. EdType(after[n + 1])  BY <2>1, <2>2, <2>3, HandleIs
  <2>5. PeerType(after[n])  BY <2>1 DEF Sticks
  <2>6. Sticks(after[n + 1], after[n])  BY <2>1, <2>2, <2>5, ContentSticks
  <2>7. QED BY <2>1, <2>4, <2>6, SticksTwice
<1>5. T = Nat
  <2>1. T \in SUBSET Nat  OBVIOUS
  <2> HIDE DEF T
  <2>2. QED BY <1>3, <1>4, <2>1, SetInduction
<1>6. Sticks(after[N], e)  BY <1>2, <1>5
<1>7. QED BY <1>1, <1>6

\* commitComposition
LEMMA CommittedSticks ==
    ASSUME NEW e, EdType(e), Composing(e), PeerType(e), NEW join, NEW x, x = Committed(e, join)
    PROVE  Sticks(x, e)
<1> DEFINE ops == Composed(e)
           res == ApplyBatch(e.doc, ops)
           off == [e EXCEPT !.ime = "off", !.base = None, !.deferred = << >>]
<1>1. e.doc \in Trees /\ ops \in Seq(Ops) /\ (e.painted /\ ~e.torn => res.ok)
  <2>1. e.doc \in Trees  BY DEF EdType
  <2>2. QED BY <2>1, ComposedIs
<1>2. Extends(res.doc, e.doc)  BY <1>1, BatchExtends
<1>3. /\ EdType(off) /\ off.painted = e.painted /\ off.torn = e.torn /\ off.peer = e.peer
      /\ off.doc = e.doc
  <2>1. << >> \in Seq(ContentFrames)  OBVIOUS
  <2>2. QED BY <2>1 DEF EdType, Fields
<1> HIDE DEF ops, res
<1>4. CASE ~res.ok
  <2> DEFINE clock == Bumped(Clock(e), ops)
  <2>1. x = [off EXCEPT !.doc = res.doc, !.clock = clock, !.ask = TRUE]
    BY <1>4 DEF Committed, ops, res
  <2> HIDE DEF off, clock
  <2>2. x.doc = res.doc /\ x.peer = e.peer /\ x.painted = e.painted /\ x.torn = e.torn
    BY <1>3, <2>1 DEF EdType, Fields
  <2>3. ~Clear(x)  BY <1>1, <1>4, <2>2 DEF Clear
  <2>4. QED BY <1>2, <2>2, <2>3, SticksAlone
<1>5. CASE res.ok
  <2> DEFINE y == Typed(off, ops, join)
  <2>1. x = ShowInverse(y, Text(e))  BY <1>5 DEF Committed, ops, res
  <2> HIDE DEF off
  <2>2. EdType(y) /\ Alike(y, off) /\ y.peer = off.peer /\ Extends(y.doc, off.doc)
    BY <1>1, <1>3, TypedIs, TypedPeer
  <2>3. y.peer = e.peer /\ Extends(y.doc, e.doc) /\ y.painted = e.painted /\ y.torn = e.torn
    BY <1>3, <2>2 DEF Alike
  <2> HIDE DEF y
  <2>4. QED BY <2>1, <2>2, <2>3, ShowInverseSticks
<1>6. QED BY <1>4, <1>5

\* From e to x, a step: a caret that is behind its item stays there, and one that is
\* moved is put there.
CaretStep(x, e) ==
    /\ PeerType(x)
    /\ LET stands == e.peer # None /\ Behind(e) /\ e.peer.after \in Known(e.doc) \cup {Root}
       IN  x.peer # None /\ Clear(x) /\ (stands \/ x.peer # e.peer) => Behind(x)

\* A caret that sticks follows.
LEMMA SticksFollows ==
    ASSUME NEW e, NEW x, Sticks(x, e)
    PROVE  CaretStep(x, e)
BY DEF Sticks, Stands, CaretStep

\* The peer tells where its caret is.
LEMMA HandleCursorFollows ==
    ASSUME NEW e, EdType(e), PeerType(e), NEW f \in CursorFrames, NEW x, x = HandleCursor(e, f)
    PROVE  CaretStep(x, e)
<1> DEFINE ids == VisibleIDs(e.doc)
           known == PosAfter(f.after, ids)
           pos == IF known = Unknown THEN Clamp(f.pos, Len(ids)) ELSE known
<1>1. CASE known = Unknown /\ e.peer # None /\ e.peer.after = f.after
  <2>1. x = e  BY <1>1 DEF HandleCursor
  <2>2. QED BY <2>1, SticksItself, SticksFollows
<1>2. CASE ~(known = Unknown /\ e.peer # None /\ e.peer.after = f.after)
  <2>1. x = [e EXCEPT !.peer = [after |-> f.after, pos |-> pos]]  BY <1>2 DEF HandleCursor
  <2>2. ids \in Seq(Id) /\ Distinct(ids) /\ Len(ids) \in Nat  BY VisibleOnce DEF EdType
  <2>3. pos \in Nat
    <3>1. CASE known = Unknown
      <4>1. pos = Clamp(f.pos, Len(ids)) /\ f.pos \in Nat  BY <3>1 DEF CursorFrames
      <4> HIDE DEF pos
      <4>2. QED BY <2>2, <4>1 DEF Clamp
    <3>2. CASE known # Unknown
      <4>1. pos = known  BY <3>2
      <4>2. f.after \in ToSet(ids) \cup {Root}  BY <2>2, <3>2, PosIs
      <4>3. CASE f.after = Root  BY <4>1, <4>3 DEF PosAfter
      <4>4. CASE f.after \in ToSet(ids)  BY <2>2, <4>1, <4>4, PosIs
      <4>5. QED BY <4>2, <4>3, <4>4
    <3>3. QED BY <3>1, <3>2
  <2>4. known \in {Unknown, pos}  OBVIOUS
  <2> HIDE DEF pos
  <2>5. x.doc = e.doc /\ x.peer = [after |-> f.after, pos |-> pos]  BY <2>1 DEF EdType, Fields
  <2>6. x.peer.after = f.after /\ x.peer.pos = pos  BY <2>5
  <2>7. PeerType(x)  BY <2>3, <2>5, <2>6 DEF PeerType
  <2>8. Behind(x)  BY <2>4, <2>5, <2>6 DEF Behind
  <2>9. QED BY <2>7, <2>8 DEF CaretStep
<1>3. QED BY <1>1, <1>2

\* A key.
LEMMA InputFollows ==
    ASSUME EdType(ed), PeerType(ed), NEW text \in Texts, NEW caret, NEW join,
           Input(text, caret, join)
    PROVE  CaretStep(ed', ed)
<1> DEFINE y == [ed EXCEPT !.value = text, !.caret = caret]
           z == LocalText(y, text, join)
           x == ed'
<1>1. x = TextChanged(z, Text(ed))  BY DEF Input, ByUser
<1>2. EdType(y) /\ Alike(y, ed) /\ y.peer = ed.peer /\ y.doc = ed.doc  BY DEF EdType, Fields, Alike
<1> HIDE DEF x, y
<1>3. EdType(z) /\ Alike(z, y) /\ z.peer = y.peer /\ Extends(z.doc, y.doc)
  BY <1>2, LocalTextIs, LocalTextPeer
<1> HIDE DEF z
<1>4. z.peer = ed.peer /\ Extends(z.doc, ed.doc) /\ (z.painted /\ ~z.torn => ed.painted /\ ~ed.torn)
  BY <1>2, <1>3 DEF Alike
<1>5. Sticks(x, ed)
  <2> DEFINE e == ed
  <2>1. EdType(e) /\ PeerType(e) /\ z.peer = e.peer /\ Extends(z.doc, e.doc)
        /\ (z.painted /\ ~z.torn => e.painted /\ ~e.torn) /\ x = TextChanged(z, Text(e))
    BY <1>1, <1>4
  <2> HIDE DEF e
  <2>2. Sticks(x, e)  BY <1>3, <2>1, TextChangedSticks
  <2>3. QED BY <2>2 DEF e
<1>6. QED BY <1>5, SticksFollows DEF x

\* The user.
LEMMA UserFollows ==
    ASSUME Inv, PeerType(ed), User
    PROVE  CaretStep(ed', ed)
<1>1. WorldType /\ EdType(ed) /\ ed.value \in Texts  BY DEF Inv, EdInv, EdType
<1>3. CASE Type
  <2>1. PICK at \in 0 .. Len(ed.value), join \in BOOLEAN :
           Input(InsertAt(ed.value, at + 1, Fresh), at + 1, join)
    BY <1>3 DEF Type
  <2>2. at + 1 \in 1 .. Len(ed.value) + 1  BY <1>1 DEF Texts
  <2>3. Fresh \in Nat  BY <1>1, FreshIs DEF WorldType
  <2>4. InsertAt(ed.value, at + 1, Fresh) \in Texts  BY <1>1, <2>2, <2>3, InsertAtIs DEF Texts
  <2>5. QED BY <1>1, <2>1, <2>4, InputFollows
<1>4. CASE Erase
  <2>1. PICK at \in DOMAIN ed.value, join \in BOOLEAN :
           Input(RemoveAt(ed.value, at), at - 1, join)
    BY <1>4 DEF Erase
  <2>2. at \in 1 .. Len(ed.value)  BY <1>1 DEF Texts
  <2>3. RemoveAt(ed.value, at) \in Texts  BY <1>1, <2>2, RemoveAtIs DEF Texts
  <2>4. QED BY <1>1, <2>1, <2>3, InputFollows
<1>5. CASE Undo \/ Redo
  <2> DEFINE x == ed'
  <2>1. \/ ed.undo # << >> /\ x = Undone(ed)
        \/ ed.redo # << >> /\ x = Redone(ed)
    BY <1>5 DEF Undo, Redo, ByUser
  <2> HIDE DEF x
  <2>2. Sticks(x, ed)  BY <1>1, <2>1, UndoneSticks, RedoneSticks
  <2>3. QED BY <2>2, SticksFollows DEF x
<1>6. CASE Restore
  <2>1. trail \in Texts  BY <1>1, <1>6 DEF WorldType, Restore
  <2>2. PICK join \in BOOLEAN : ByUser(ShowInverse(LocalText(ed, trail, join), Text(ed)))
    BY <1>6 DEF Restore
  <2> DEFINE y == LocalText(ed, trail, join)
             x == ed'
  <2>3. x = ShowInverse(y, Text(ed))  BY <2>2 DEF ByUser
  <2>4. EdType(y) /\ Alike(y, ed) /\ y.peer = ed.peer /\ Extends(y.doc, ed.doc)
    BY <1>1, <2>1, LocalTextIs, LocalTextPeer
  <2>5. y.painted = ed.painted /\ y.torn = ed.torn  BY <2>4 DEF Alike
  <2> HIDE DEF x, y
  <2>6. Sticks(x, ed)  BY <1>1, <2>3, <2>4, <2>5, ShowInverseSticks
  <2>7. QED BY <2>6, SticksFollows DEF x
<1>7. CASE ComposeStart \/ ComposeInput \/ ComposeCancel \/ ComposeEnd
  <2> DEFINE x == ed'
  <2>1. PICK ime, base, value, caret :
           x = [ed EXCEPT !.ime = ime, !.base = base, !.value = value, !.caret = caret]
    <3>1. ed = [f \in Fields |-> ed[f]]  BY <1>1 DEF EdType
    <3>2. CASE ComposeStart
      <4>1. x = [ed EXCEPT !.ime = "on", !.base = [text |-> ed.value, ids |-> VisibleIDs(ed.doc)],
                           !.value = ed.value, !.caret = ed.caret]
        BY <3>1, <3>2 DEF ComposeStart, ByUser, Fields
      <4>2. QED BY <4>1
    <3>3. CASE ComposeInput
      <4>1. PICK at : ed' = [ed EXCEPT !.value = InsertAt(@, at + 1, Fresh), !.caret = at + 1]
        BY <3>3 DEF ComposeInput, ByUser
      <4>2. x = [ed EXCEPT !.ime = ed.ime, !.base = ed.base,
                           !.value = InsertAt(ed.value, at + 1, Fresh), !.caret = at + 1]
        BY <3>1, <4>1 DEF Fields
      <4>3. QED BY <4>2
    <3>4. CASE ComposeCancel
      <4>1. x = [ed EXCEPT !.ime = ed.ime, !.base = ed.base,
                           !.value = ed.base.text, !.caret = Clamp(ed.caret, Len(ed.base.text))]
        BY <3>1, <3>4 DEF ComposeCancel, ByUser, Fields
      <4>2. QED BY <4>1
    <3>5. CASE ComposeEnd
      <4>1. x = [ed EXCEPT !.ime = "ending", !.base = ed.base,
                           !.value = ed.value, !.caret = ed.caret]
        BY <3>1, <3>5 DEF ComposeEnd, ByUser, Fields
      <4>2. QED BY <4>1
    <3>6. QED BY <1>7, <3>2, <3>3, <3>4, <3>5
  <2> HIDE DEF x
  <2>2. x.peer = ed.peer /\ x.doc = ed.doc /\ x.painted = ed.painted /\ x.torn = ed.torn
    BY <1>1, <2>1 DEF EdType, Fields
  <2>3. Clear(x) => Clear(ed)  BY <2>2 DEF Clear, Text
  <2>4. Sticks(x, ed)  BY <2>2, <2>3, ExtendsItself, SticksAlone
  <2>5. QED BY <2>4, SticksFollows DEF x
<1>8. CASE Commit
  <2>1. Composing(ed) /\ ed.deferred \in Seq(ContentFrames) /\ ed.ime # "off"
    BY <1>8 DEF Inv, EdInv, EdType, Commit
  <2>2. PICK join \in BOOLEAN : ed' = HandleAll(Committed(ed, join), ed.deferred, join)
    BY <1>8 DEF Commit
  <2> DEFINE y == Committed(ed, join)
             x == ed'
  <2>3. EdType(y) /\ Sticks(y, ed)  BY <1>1, <2>1, CommittedIs, CommittedSticks
  <2>4. x = HandleAll(y, ed.deferred, join)  BY <2>2
  <2> HIDE DEF x, y
  <2>5. Sticks(x, y)
    <3>1. PeerType(y)  BY <2>3 DEF Sticks
    <3>2. QED BY <2>1, <2>3, <2>4, <3>1, HandleAllSticks
  <2>6. Sticks(x, ed)  BY <2>3, <2>5, SticksTwice
  <2>7. QED BY <2>6, SticksFollows DEF x
<1>9. QED BY <1>3, <1>4, <1>5, <1>6, <1>7, <1>8 DEF User

\* What arrives.
LEMMA ReceiveFollows ==
    ASSUME Inv, PeerType(ed), Receive
    PROVE  CaretStep(ed', ed)
<1>1. EdType(ed)  BY DEF Inv, EdInv
<1> DEFINE f == Head(wire)
           x == ed'
<1>2. f \in Frames  BY DEF Receive, Inv, WorldType
<1>3. CASE Held(ed, f)
  <2>1. x = [ed EXCEPT !.deferred = Append(ed.deferred, f)]  BY <1>3 DEF Receive
  <2> HIDE DEF f, x
  <2>2. x.peer = ed.peer /\ x.doc = ed.doc /\ x.painted = ed.painted /\ x.torn = ed.torn
    BY <1>1, <2>1 DEF EdType, Fields
  <2>3. Clear(x) => Clear(ed)  BY <2>2 DEF Clear, Text
  <2>4. Sticks(x, ed)  BY <2>2, <2>3, ExtendsItself, SticksAlone
  <2>5. QED BY <2>4, SticksFollows DEF x
<1>4. CASE ~Held(ed, f)
  <2>1. PICK join \in BOOLEAN : x = Handle(ed, f, join)  BY <1>4 DEF Receive
  <2> HIDE DEF f, x
  <2>2. CASE f \in ContentFrames
    <3>1. Sticks(x, ed)  BY <1>1, <2>1, <2>2, ContentSticks
    <3>2. QED BY <3>1, SticksFollows DEF x
  <2>3. CASE f \in Acks
    <3>1. f.type = "ack"  BY <2>3 DEF Acks
    <3>2. x = HandleAck(ed, f)  BY <2>1, <3>1 DEF Handle
    <3>3. Sticks(x, ed)  BY <1>1, <3>2, HandleAckSticks
    <3>4. QED BY <3>3, SticksFollows DEF x
  <2>4. CASE f \in CursorFrames
    <3>1. f.type = "cursor"  BY <2>4 DEF CursorFrames
    <3>2. x = HandleCursor(ed, f)  BY <2>1, <3>1 DEF Handle
    <3>3. CaretStep(x, ed)  BY <1>1, <2>4, <3>2, HandleCursorFollows
    <3>4. QED BY <3>3 DEF x
  <2>5. QED BY <1>2, <2>2, <2>3, <2>4 DEF Frames
<1>5. QED BY <1>3, <1>4

\* Every step.
LEMMA StepFollows ==
    ASSUME Inv, PeerType(ed), [Next]_vars
    PROVE  CaretStep(ed', ed)
<1>1. EdType(ed)  BY DEF Inv, EdInv
<1>2. ASSUME ed' = ed PROVE CaretStep(ed', ed)
  <2> DEFINE x == ed'
  <2>1. x = ed  BY <1>2
  <2> HIDE DEF x
  <2>2. CaretStep(x, ed)  BY <2>1, SticksItself, SticksFollows
  <2>3. QED BY <2>2 DEF x
<1>3. CASE User  BY <1>3, UserFollows
<1>4. CASE Receive  BY <1>4, ReceiveFollows
<1>5. CASE FlushAccepted \/ FlushRefused
  <2> DEFINE flying == ed.flying \cup {[seq |-> ed.seq + 1, keys |-> Keys(Batch)]}
             x == ed'
  <2>1. x = [ed EXCEPT !.seq = ed.seq + 1, !.flying = flying]
    BY <1>5 DEF FlushAccepted, FlushRefused, Sending
  <2> HIDE DEF x, flying
  <2>2. x.peer = ed.peer /\ Looks(x, ed)  BY <1>1, <2>1 DEF EdType, Fields, Looks, Alike
  <2>3. QED BY <2>2, SticksLooking, SticksFollows DEF x
<1>6. CASE Answer \/ Vanish
  <2> DEFINE x == ed'
  <2>1. x = [ed EXCEPT !.ask = FALSE] \/ x = [ed EXCEPT !.astray = TRUE]
    BY <1>6 DEF Answer, Vanish
  <2> HIDE DEF x
  <2>2. x.peer = ed.peer /\ Looks(x, ed)  BY <1>1, <2>1 DEF EdType, Fields, Looks, Alike
  <2>3. QED BY <2>2, SticksLooking, SticksFollows DEF x
<1>7. CASE Disconnect \/ Prune
  <2> DEFINE x == ed'
  <2>1. x = [ed EXCEPT !.flying = {}, !.peer = None, !.ask = FALSE] \/ x = [ed EXCEPT !.peer = None]
    BY <1>7 DEF Disconnect, Prune
  <2> HIDE DEF x
  <2>2. x.peer = None  BY <1>1, <2>1 DEF EdType, Fields
  <2>3. QED BY <2>2 DEF CaretStep, PeerType, x
<1>8. CASE Connect \/ Push \/ PeerEdit \/ PeerMove \/ Put \/ Capture
  BY <1>2, <1>8 DEF Connect, Push, PeerEdit, PeerMove, Put, Capture
<1>9. CASE UNCHANGED vars  BY <1>2, <1>9 DEF vars
<1>10. QED BY <1>3, <1>4, <1>5, <1>6, <1>7, <1>8, <1>9 DEF Next, Network, Others

\* A peer's caret that is right behind an item of the document stays there, and one
\* that is moved is put there (updateAllCursorPositions).
THEOREM PeerCaretFollows == Spec => PeerCaretSticks
<1> DEFINE Peers == Inv /\ PeerType(ed)
<1>1. Init => Peers
  <2>1. ASSUME Init PROVE ed.peer = None  BY <2>1 DEF Init, Blank
  <2>2. QED BY <2>1, InitInv DEF PeerType
<1>2. Peers /\ [Next]_vars => Peers'
  <2>1. ASSUME Peers, [Next]_vars PROVE PeerType(ed')
    BY <2>1, StepFollows DEF CaretStep
  <2>2. ASSUME Peers, [Next]_vars PROVE PeerType(ed)'
    BY <2>1, <2>2 DEF PeerType
  <2>3. QED BY <2>2, StepInv
<1>3. Peers /\ [Next]_vars
      => [LET stands == /\ ed.peer # None /\ Behind(ed)
                        /\ ed.peer.after \in Known(ed.doc) \cup {Root}
          IN  ed'.peer # None /\ Clear(ed') /\ (stands \/ ed'.peer # ed.peer) => Behind(ed')]_vars
  BY StepFollows DEF CaretStep
<1> HIDE DEF Peers
<1>4. QED BY <1>1, <1>2, <1>3, PTL DEF Spec, PeerCaretSticks

\* Both carets stay where they belong.
THEOREM CaretsFollow == Spec => CaretsStick
BY CaretFollows, PeerCaretFollows DEF CaretsStick

-----------------------------------------------------------------------------
(* Without the socket                                                      *)

IsReading(r) == r.exists \in BOOLEAN /\ r.gen \in Nat /\ r.ver \in Nat /\ r.text \in Texts

RestFields ==
    {"dialing", "tries", "poll", "flush", "armed", "putInFlight", "put", "get",
     "fails", "polls", "chases"}

\* The record of a PUT.
PutShape(put) ==
    /\ put.text \in Texts
    /\ put = [f \in {"text", "base", "knew", "reply", "conflict"} |-> put[f]]
    /\ put.reply # None => IsReading(put.reply)

\* What the requests of the page carry.
RestType(x) ==
    /\ x = [f \in RestFields |-> x[f]]
    /\ x.get = [k \in Reads |-> x.get[k]]
    /\ \A k \in Reads : x.get[k] \notin {None, Asked} => IsReading(x.get[k])
    /\ x.putInFlight => PutShape(x.put)

\* The property, of a page that has painted nothing yet as well.
Kept(e, armed, busy) ==
    e.value = Text(e) \/ (e.value \in Drafts /\ Text(e) = << >>) \/ e.torn \/ armed \/ busy

RestInv ==
    /\ WorldType /\ EdType(ed) /\ ed.ime = "off" /\ RestType(rest)
    /\ Kept(ed, rest.armed, rest.putInFlight)

\* The invariant of a page without a socket speaks of what it shows.
LEMMA LooksKept ==
    ASSUME NEW x, NEW e, Looks(x, e), NEW armed, NEW busy, Kept(e, armed, busy)
    PROVE  Kept(x, armed, busy)
BY DEF Looks, Alike, Kept, Text

\* A document that is rebuilt is that of the text.
LEMMA RebuiltIs ==
    ASSUME NEW e, EdType(e), NEW site \in Nat \ {0}, NEW text \in Texts, NEW r, IsReading(r),
           NEW synced \in Texts, NEW x, x = Rebuilt(e, site, text, r, synced)
    PROVE  EdType(x) /\ Text(x) = text /\ x.value = e.value /\ x.ime = e.ime
<1> DEFINE doc == BuildFromString(site, text)
           clock == MaxClock(doc)
           known == [exists |-> r.exists, gen |-> r.gen, ver |-> r.ver]
<1>1. doc \in Trees /\ Materialize(doc) = text  BY BuildShows DEF Trees, Texts
<1>2. clock \in Nat  BY <1>1, TreeShows
<1>3. known \in [exists : BOOLEAN, gen : Nat, ver : Nat]  BY DEF IsReading
<1>4. x = [e EXCEPT !.doc = doc, !.clock = clock, !.known = known, !.synced = synced,
                    !.pending = << >>, !.flying = {}, !.torn = FALSE]
  BY DEF Rebuilt
<1>5. << >> \in Seq(Ops)  OBVIOUS
<1> HIDE DEF doc, clock, known
<1>6. e = [f \in Fields |-> e[f]]  BY DEF EdType
<1>7. x = [f \in Fields |-> x[f]]  BY <1>4, <1>6 DEF Fields
<1>8. x.doc = doc /\ x.clock = clock /\ x.synced = synced /\ x.pending = << >> /\ x.torn = FALSE
  BY <1>4, <1>6 DEF Fields
<1>9. /\ x.undo = e.undo /\ x.redo = e.redo /\ x.value = e.value /\ x.painted = e.painted
      /\ x.ime = e.ime /\ x.deferred = e.deferred /\ x.seq = e.seq
  BY <1>4, <1>6 DEF Fields
<1>10. EdType(x)  BY <1>1, <1>2, <1>5, <1>7, <1>8, <1>9 DEF EdType
<1>11. QED BY <1>1, <1>8, <1>9, <1>10 DEF Text

\* setContentValue with a text.
LEMMA ShowAtIs ==
    ASSUME NEW e, EdType(e), NEW text \in Texts, NEW x, x = ShowAt(e, text)
    PROVE  EdType(x) /\ x.doc = e.doc /\ x.value = text /\ x.ime = e.ime
<1> DEFINE caret == Clamp(e.caret, Len(text))
<1>1. x = IF e.value = text THEN e ELSE [e EXCEPT !.value = text, !.caret = caret]
  BY DEF ShowAt
<1> HIDE DEF caret
<1>2. CASE e.value = text  BY <1>1, <1>2
<1>3. CASE e.value # text
  <2>1. e = [f \in Fields |-> e[f]]  BY DEF EdType
  <2>2. x = [e EXCEPT !.value = text, !.caret = caret]  BY <1>1, <1>3
  <2>3. x = [f \in Fields |-> x[f]]  BY <2>1, <2>2
  <2>4. /\ x.value = text /\ x.doc = e.doc /\ x.clock = e.clock /\ x.pending = e.pending
        /\ x.undo = e.undo /\ x.redo = e.redo /\ x.synced = e.synced
    BY <2>1, <2>2 DEF Fields
  <2>5. /\ x.painted = e.painted /\ x.torn = e.torn /\ x.ime = e.ime
        /\ x.deferred = e.deferred /\ x.seq = e.seq
    BY <2>1, <2>2 DEF Fields
  <2>6. EdType(x)  BY <2>3, <2>4, <2>5 DEF EdType
  <2>7. QED BY <2>4, <2>5, <2>6
<1>4. QED BY <1>2, <1>3

\* A merge is shown, and it is the document.
LEMMA MergedIs ==
    ASSUME NEW p, EdType(p.ed), NEW r, IsReading(r), NEW x, x = Merged(p, r)
    PROVE  EdType(x.ed) /\ x.ed.value = Text(x.ed) /\ x.ed.ime = p.ed.ime
<1> DEFINE text == MergedText(p.ed.synced, p.ed.value, r.text)
           y == Rebuilt(p.ed, Me, text, r, r.text)
           z == ShowAt(y, text)
           e == x.ed
<1>1. p.ed.synced \in Texts /\ p.ed.value \in Texts /\ r.text \in Texts  BY DEF EdType, IsReading
<1>2. text \in Texts  BY <1>1, Merge3Is DEF MergedText
<1>3. Me \in Nat \ {0}  BY SitesAre
<1>4. e = [z EXCEPT !.painted = TRUE]  BY DEF Merged
<1> HIDE DEF text, e
<1>5. EdType(y) /\ Text(y) = text /\ y.ime = p.ed.ime  BY <1>1, <1>2, <1>3, RebuiltIs
<1> HIDE DEF y
<1>6. EdType(z) /\ z.doc = y.doc /\ z.value = text /\ z.ime = y.ime  BY <1>2, <1>5, ShowAtIs
<1> HIDE DEF z
<1>7. EdType(e) /\ e.doc = z.doc /\ e.value = z.value /\ e.ime = z.ime  BY <1>4, <1>6 DEF EdType, Fields
<1>8. QED BY <1>5, <1>6, <1>7 DEF Text, e

\* An answer to a load is shown, or dropped.
LEMMA LoadedIs ==
    ASSUME NEW e, EdType(e), NEW r, IsReading(r), NEW x, x = Loaded(e, r)
    PROVE  EdType(x) /\ x.ime = e.ime /\ (x = e \/ x.value = Text(x))
<1> DEFINE y == Rebuilt(e, Rest, r.text, r, r.text)
           z == ShowAt(y, r.text)
           astray == e.astray \/ e.value # e.synced
<1>1. r.text \in Texts /\ Rest \in Nat \ {0}  BY SitesAre DEF IsReading
<1>2. EdType(y) /\ Text(y) = r.text /\ y.ime = e.ime /\ y.astray = e.astray
  <2>1. y.astray = e.astray  BY DEF Rebuilt, EdType, Fields
  <2> HIDE DEF y
  <2>2. EdType(y) /\ Text(y) = r.text /\ y.ime = e.ime  BY <1>1, RebuiltIs DEF y
  <2>3. QED BY <2>1, <2>2
<1>3. x = e \/ \E a : x = [z EXCEPT !.painted = TRUE, !.astray = a]  BY DEF Loaded
<1> HIDE DEF y
<1>4. EdType(z) /\ z.doc = y.doc /\ z.value = r.text /\ z.ime = y.ime  BY <1>1, <1>2, ShowAtIs
<1> HIDE DEF z
<1>5. CASE x = e  BY <1>5
<1>6. ASSUME NEW a, x = [z EXCEPT !.painted = TRUE, !.astray = a]
      PROVE  EdType(x) /\ x.ime = e.ime /\ x.value = Text(x)
  <2>1. EdType(x) /\ x.ime = z.ime /\ x.value = z.value /\ x.doc = z.doc
    BY <1>4, <1>6 DEF EdType, Fields
  <2>2. QED BY <1>2, <1>4, <2>1 DEF Text
<1>7. QED BY <1>3, <1>5, <1>6

\* The text saved is what is shown, or the next save is due.
LEMMA PutDoneIs ==
    ASSUME NEW p, EdType(p.ed), NEW put, put.text \in Texts, IsReading(put.reply),
           NEW x, x = PutDone(p, put)
    PROVE  /\ EdType(x.ed) /\ x.ed.ime = p.ed.ime
           /\ x.ed.value = Text(x.ed) \/ x.armed
<1> DEFINE y == Rebuilt(p.ed, Me, put.text, put.reply, put.text)
<1>1. x.ed = y /\ (x.armed \/ p.ed.value = put.text)  BY DEF PutDone
<1>2. Me \in Nat \ {0}  BY SitesAre
<1> HIDE DEF y
<1>3. EdType(y) /\ Text(y) = put.text /\ y.value = p.ed.value /\ y.ime = p.ed.ime
  BY <1>2, RebuiltIs DEF y
<1>4. QED BY <1>1, <1>3

\* What a read returns.
LEMMA ReadingIs == room \in Rooms => IsReading(Reading)
BY TreeShows DEF Rooms, Reading, IsReading

\* Steps that leave the requests as they are, or the timers only.
LEMMA TimersOnly ==
    ASSUME RestType(rest), NEW x, x = [f \in RestFields |-> x[f]], x.put = rest.put,
           x.putInFlight = rest.putInFlight, x.get = rest.get
    PROVE  RestType(x)
BY DEF RestType

\* A new document shows nothing.
LEMMA NothingShown == Materialize(NewDoc) = << >>
<1>1. NewDoc \in Doc(Nat) /\ Known(NewDoc) = {} /\ NewDoc \in Trees
  BY NewDocIsDoc, DocIsTree DEF Trees
<1>2. VisibleIDs(NewDoc) \in Seq({})
  <2>1. VisibleIDs(NewDoc) \in Seq(Known(NewDoc))  BY <1>1, VisibleType, TreeIs DEF Trees
  <2>2. QED BY <1>1, <2>1
<1> DEFINE ids == VisibleIDs(NewDoc)
           text == Materialize(NewDoc)
<1>3. text \in Seq(Nat) /\ Len(text) = Len(ids)  BY <1>1, TreeShows DEF Texts
<1>4. ids \in Seq({})  BY <1>2
<1> HIDE DEF ids, text
<1>5. Len(ids) = 0
  <2>1. \A i \in 1 .. Len(ids) : ids[i] \in {}  BY <1>4
  <2>2. Len(ids) \in Nat  BY <1>4
  <2>3. Len(ids) # 0 => 1 \in 1 .. Len(ids)  BY <2>2
  <2>4. QED BY <2>1, <2>3
<1>6. text = << >>  BY <1>3, <1>5
<1>7. QED BY <1>6 DEF text

\* The page as it opens, its first load asked for.
LEMMA RestInitInv == InitRest => RestInv
<1> SUFFICES ASSUME InitRest PROVE RestInv
  OBVIOUS
<1>1. Inv  BY InitInv DEF InitRest
<1>2. PICK draft \in Drafts : ed = Blank(draft)  BY DEF InitRest, Init
<1>3. ed.ime = "off" /\ ed.value = draft /\ ed.doc = NewDoc  BY <1>2 DEF Blank
<1>4. ed.value \in Drafts /\ Text(ed) = << >>
  <2>1. Materialize(NewDoc) = << >>  BY NothingShown
  <2>2. QED BY <1>3, <2>1 DEF Text
<1>5. RestType(rest)
  <2>1. rest.putInFlight = FALSE /\ rest.get = [k \in Reads |-> IF k = "load" THEN Asked ELSE None]
        /\ rest = [f \in RestFields |-> rest[f]]
    BY DEF InitRest, Start, RestFields
  <2>2. QED BY <2>1 DEF RestType
<1>6. QED BY <1>1, <1>2, <1>3, <1>4, <1>5 DEF Inv, EdInv, RestInv, Kept

\* A key.
LEMMA UserRestInv ==
    ASSUME RestInv, UserRest
    PROVE  RestInv'
<1>1. WorldType /\ EdType(ed) /\ RestType(rest)  BY DEF RestInv
<1>2. Type \/ Erase  BY DEF UserRest
<1>3. WorldType'  BY <1>1, <1>2, UserWorld DEF User
<1>4. EdInv(ed') /\ ed'.ime = "off" /\ ed'.value = Text(ed')  BY <1>1, <1>2, TypeIs, EraseIs
<1> DEFINE flush == rest.flush \/ ed'.pending # ed.pending
           x == rest'
<1>5. x = [rest EXCEPT !.flush = flush]  BY DEF UserRest
<1> HIDE DEF flush
<1>6. x = [f \in RestFields |-> x[f]] /\ x.put = rest.put /\ x.putInFlight = rest.putInFlight /\ x.get = rest.get
  BY <1>1, <1>5 DEF RestType, RestFields
<1>7. RestType(rest')  BY <1>1, <1>6, TimersOnly
<1>8. QED BY <1>3, <1>4, <1>7 DEF RestInv, Kept, EdInv

\* Steps of the connection: the page's editor looks as before.
LEMMA SocketInv ==
    ASSUME RestInv, DialSucceeds \/ Drop \/ Socket
    PROVE  RestInv'
<1>1. WorldType /\ EdType(ed) /\ RestType(rest) /\ ed.ime = "off" /\ Kept(ed, rest.armed, rest.putInFlight)
  BY DEF RestInv
<1>2. Network  BY DEF DialSucceeds, Drop, Socket, Network
<1>3. WorldType'  BY <1>1, <1>2, NetworkWorld
<1>4. EdType(ed') /\ Looks(ed', ed)
  <2>1. CASE DialSucceeds \/ (Push /\ Socket)
    <3>1. ed' = ed  BY <2>1 DEF DialSucceeds, Connect, Push
    <3>2. QED BY <1>1, <3>1 DEF Looks, Alike
  <2>2. CASE Drop \/ (Answer /\ Socket)
    <3>1. Disconnect \/ Answer  BY <2>2 DEF Drop
    <3>2. QED BY <1>1, <3>1, QuietIs
  <2>3. CASE FlushAccepted \/ FlushRefused
    <3>1. Sending  BY <2>3 DEF FlushAccepted, FlushRefused
    <3>2. QED BY <1>1, <3>1, SendingIs
  <2>4. QED BY <2>1, <2>2, <2>3 DEF Socket
<1> DEFINE x == rest'
<1>5. /\ x = [f \in RestFields |-> x[f]] /\ x.put = rest.put /\ x.putInFlight = rest.putInFlight /\ x.get = rest.get
      /\ x.armed = rest.armed
  <2>1. \/ \E poll, tries : x = [rest EXCEPT !.dialing = FALSE, !.tries = tries, !.poll = poll]
        \/ x = rest
        \/ x = [rest EXCEPT !.flush = FALSE]
    BY DEF DialSucceeds, Drop, Socket, Failed
  <2> HIDE DEF x
  <2>2. QED BY <1>1, <2>1 DEF RestType, RestFields
<1>6. RestType(rest')  BY <1>1, <1>5, TimersOnly
<1>7. Kept(ed', rest'.armed, rest'.putInFlight)
  <2>1. Kept(ed', rest.armed, rest.putInFlight)  BY <1>1, <1>4, LooksKept
  <2>2. QED BY <1>5, <2>1
<1>8. QED BY <1>1, <1>3, <1>4, <1>6, <1>7 DEF RestInv, Looks, Alike

\* A message: what it does is HandleIs.
LEMMA ReceiveRestInv ==
    ASSUME RestInv, ReceiveRest
    PROVE  RestInv'
<1>1. WorldType /\ EdType(ed) /\ RestType(rest) /\ ed.ime = "off" /\ Kept(ed, rest.armed, rest.putInFlight)
      /\ wire \in Seq(Frames)
  BY DEF RestInv, WorldType
<1>2. wire' \in Seq(Frames) /\ Head(wire) \in Frames  BY <1>1 DEF ReceiveRest
<1>3. WorldType'  BY <1>1, <1>2 DEF ReceiveRest, WorldType
<1> DEFINE both == Head(wire).type # "ack" /\ (rest.armed \/ rest.putInFlight)
           astray == ed.astray \/ both
           y == [ed EXCEPT !.astray = astray]
<1>4. PICK join \in BOOLEAN : ed' = Handle(y, Head(wire), join)
  BY Zenon DEF ReceiveRest
<1>5. EdType(y) /\ Looks(y, ed)
  <2> HIDE DEF astray
  <2>1. QED BY <1>1 DEF EdType, Fields, Looks, Alike
<1> HIDE DEF y
<1>6. EdType(ed') /\ Faithful(ed', y)
  <2> DEFINE x == ed'
  <2>1. x = Handle(y, Head(wire), join)  BY <1>4
  <2> HIDE DEF x
  <2>2. EdType(x) /\ Faithful(x, y)  BY <1>2, <1>5, <2>1, HandleIs
  <2>3. QED BY <2>2 DEF x
<1>7. Kept(ed', rest.armed, rest.putInFlight) /\ ed'.ime = "off"
  <2>1. Kept(y, rest.armed, rest.putInFlight)  BY <1>1, <1>5, LooksKept
  <2>2. CASE Looks(ed', y)  BY <1>1, <1>5, <2>1, <2>2, LooksKept DEF Looks, Alike
  <2>3. CASE ed'.value = Text(ed') \/ ed'.torn
    BY <1>1, <1>5, <1>6, <2>3 DEF Kept, Faithful, Looks, Alike
  <2>4. QED BY <1>6, <2>2, <2>3 DEF Faithful
<1> DEFINE x == rest'
           flush == rest.flush \/ ed'.pending # << >>
<1>8. x = [rest EXCEPT !.flush = flush]  BY DEF ReceiveRest
<1> HIDE DEF flush
<1>9. /\ x = [f \in RestFields |-> x[f]] /\ x.put = rest.put /\ x.putInFlight = rest.putInFlight /\ x.get = rest.get
      /\ x.armed = rest.armed
  BY <1>1, <1>8 DEF RestType, RestFields
<1>10. RestType(rest')  BY <1>1, <1>9, TimersOnly
<1>11. QED BY <1>3, <1>6, <1>7, <1>9, <1>10 DEF RestInv

\* Timers and requests: the world and the page's editor stay.
LEMMA TimerInv ==
    ASSUME RestInv, Redial \/ DialFails \/ FlushOffline
    PROVE  RestInv'
<1>1. WorldType /\ EdType(ed) /\ RestType(rest) /\ ed.ime = "off" /\ Kept(ed, rest.armed, rest.putInFlight)
  BY DEF RestInv
<1>2. WorldType' /\ ed' = ed  BY <1>1 DEF Redial, DialFails, FlushOffline, Same, WorldType
<1> DEFINE x == rest'
<1>3. \/ x = [rest EXCEPT !.dialing = TRUE]
      \/ \E poll, tries : x = [rest EXCEPT !.dialing = FALSE, !.tries = tries, !.poll = poll]
      \/ x = [rest EXCEPT !.flush = FALSE, !.armed = rest.armed \/ rest.tries >= 2]
  BY DEF Redial, DialFails, Failed, FlushOffline
<1> HIDE DEF x
<1>4. /\ x = [f \in RestFields |-> x[f]] /\ x.put = rest.put /\ x.putInFlight = rest.putInFlight /\ x.get = rest.get
      /\ (rest.armed => x.armed)
  BY <1>1, <1>3 DEF RestType, RestFields
<1>5. RestType(rest')
  <2>1. RestType(x)  BY <1>1, <1>4, TimersOnly
  <2>2. QED BY <2>1 DEF x
<1>6. Kept(ed', rest'.armed, rest'.putInFlight)  BY <1>1, <1>2, <1>4 DEF Kept, x
<1>7. QED BY <1>1, <1>2, <1>5, <1>6 DEF RestInv

\* A read is asked for, served or given up.
LEMMA ReadTyped ==
    ASSUME RestType(rest), NEW k \in Reads, NEW v, v \in {None, Asked} \/ IsReading(v),
           NEW x, x = [f \in RestFields |-> x[f]], x.put = rest.put,
           x.putInFlight = rest.putInFlight, x.get = [rest.get EXCEPT ![k] = v]
    PROVE  RestType(x)
<1> DEFINE get == [rest.get EXCEPT ![k] = v]
<1>1. get = [j \in Reads |-> get[j]]
      /\ \A j \in Reads : get[j] = IF j = k THEN v ELSE rest.get[j]
  BY DEF RestType
<1>2. x.get = get  OBVIOUS
<1> HIDE DEF get
<1>3. \A j \in Reads : get[j] \notin {None, Asked} => IsReading(get[j])  BY <1>1 DEF RestType
<1>4. x.get = [j \in Reads |-> x.get[j]]  BY <1>1, <1>2
<1>5. x.putInFlight => PutShape(x.put)  BY DEF RestType
<1>6. QED BY <1>2, <1>3, <1>4, <1>5 DEF RestType

\* A PUT is sent, answered or lost.
LEMMA PutTyped ==
    ASSUME RestType(rest), NEW x, x = [f \in RestFields |-> x[f]], x.get = rest.get,
           x.putInFlight => PutShape(x.put)
    PROVE  RestType(x)
BY DEF RestType

\* Reads are asked for, served and lost.
LEMMA ReadsInv ==
    ASSUME RestInv, Poll \/ ReadServed \/ ReadFails
    PROVE  RestInv'
<1>1. RestType(rest) /\ room \in Rooms /\ EdType(ed) /\ WorldType /\ ed.ime = "off"
      /\ Kept(ed, rest.armed, rest.putInFlight)
  BY DEF RestInv, WorldType
<1> DEFINE x == rest'
<1>2. /\ x = [f \in RestFields |-> x[f]] /\ x.put = rest.put
      /\ x.putInFlight = rest.putInFlight /\ x.armed = rest.armed
      /\ \E k \in Reads : \E v \in {None, Asked, Reading} : x.get = [rest.get EXCEPT ![k] = v]
  <2>1. CASE Poll
    <3>1. "poll" \in Reads /\ x = [rest EXCEPT !.get["poll"] = Asked, !.polls = rest.polls + 1]
      BY <2>1 DEF Poll, Reads
    <3> HIDE DEF x
    <3>2. QED BY <1>1, <3>1 DEF RestType, RestFields
  <2>2. CASE ReadServed
    <3>1. PICK k \in Reads : x = [rest EXCEPT !.get[k] = Reading]  BY <2>2 DEF ReadServed
    <3> HIDE DEF x
    <3>2. QED BY <1>1, <3>1 DEF RestType, RestFields
  <2>3. CASE ReadFails
    <3>1. PICK k \in Reads : x = [rest EXCEPT !.get[k] = None, !.fails = rest.fails + 1]
      BY <2>3 DEF ReadFails
    <3> HIDE DEF x
    <3>2. QED BY <1>1, <3>1 DEF RestType, RestFields
  <2>4. QED BY <2>1, <2>2, <2>3
<1>3. RestType(rest')
  <2>1. PICK k \in Reads, v \in {None, Asked, Reading} : x.get = [rest.get EXCEPT ![k] = v]
    BY <1>2
  <2>2. v \in {None, Asked} \/ IsReading(v)  BY <1>1, <2>1, ReadingIs
  <2> HIDE DEF x
  <2>3. RestType(x)  BY <1>1, <1>2, <2>1, <2>2, ReadTyped
  <2>4. QED BY <2>3 DEF x
<1>4. /\ EdType(ed') /\ ed'.ime = "off" /\ ed'.doc = ed.doc /\ ed'.value = ed.value
      /\ ed'.torn = ed.torn
  <2>1. CASE Poll \/ ReadServed
    <3>1. ed' = ed  BY <2>1 DEF Poll, ReadServed
    <3>2. QED BY <1>1, <3>1
  <2>2. CASE ReadFails
    <3> DEFINE y == ed'
    <3>1. PICK painted \in BOOLEAN : y = [ed EXCEPT !.painted = painted]
      BY <1>1, <2>2 DEF ReadFails, EdType
    <3> HIDE DEF y
    <3>2. EdType(y) /\ y.ime = "off" /\ y.doc = ed.doc /\ y.value = ed.value /\ y.torn = ed.torn
      BY <1>1, <3>1 DEF EdType, Fields
    <3>3. QED BY <3>2 DEF y
  <2>3. QED BY <2>1, <2>2
<1>5. WorldType'  BY <1>1 DEF Poll, ReadServed, ReadFails, Same, WorldType
<1>6. QED BY <1>1, <1>2, <1>3, <1>4, <1>5 DEF RestInv, Kept, Text

\* Reads are answered.
LEMMA AnswersInv ==
    ASSUME RestInv, LoadAnswered \/ PollAnswered
    PROVE  RestInv'
<1>1. RestType(rest) /\ EdType(ed) /\ WorldType /\ ed.ime = "off" /\ Kept(ed, rest.armed, rest.putInFlight)
  BY DEF RestInv
<1>2. WorldType'  BY <1>1 DEF LoadAnswered, PollAnswered, Same, WorldType
<1>3. {"load", "poll"} \subseteq Reads  BY DEF Reads
<1> DEFINE x == rest'
           e == ed'
<1>4. CASE LoadAnswered
  <2> DEFINE r == rest.get["load"]
  <2>1. e = Loaded(ed, r) /\ IsReading(r)  BY <1>1, <1>3, <1>4 DEF LoadAnswered, RestType
  <2> HIDE DEF e, r
  <2>2. EdType(e) /\ e.ime = "off" /\ (e = ed \/ e.value = Text(e))  BY <1>1, <2>1, LoadedIs
  <2>3. x = [rest EXCEPT !.get["load"] = None]  BY <1>4 DEF LoadAnswered
  <2> HIDE DEF x
  <2>4. /\ x = [f \in RestFields |-> x[f]] /\ x.put = rest.put
        /\ x.putInFlight = rest.putInFlight /\ x.armed = rest.armed
        /\ x.get = [rest.get EXCEPT !["load"] = None]
    BY <1>1, <2>3 DEF RestType, RestFields
  <2>5. RestType(x)  BY <1>1, <1>3, <2>4, ReadTyped
  <2>6. Kept(e, rest.armed, rest.putInFlight)  BY <1>1, <2>2 DEF Kept
  <2>7. Kept(e, x.armed, x.putInFlight)  BY <2>4, <2>6
  <2>8. QED BY <1>2, <2>2, <2>5, <2>7 DEF RestInv, e, x
<1>5. CASE PollAnswered
  <2> DEFINE r == rest.get["poll"]
  <2>1. PICK p : /\ p = Merged(Page, r) \/ p = Page
                 /\ e = p.ed /\ x = [rest EXCEPT !.get["poll"] = None, !.armed = p.armed]
    BY <1>5 DEF PollAnswered
  <2>2. IsReading(r)  BY <1>1, <1>3, <1>5 DEF PollAnswered, RestType
  <2> DEFINE armed == p.armed
  <2>3. EdType(e) /\ e.ime = "off" /\ Kept(e, armed, rest.putInFlight)
    <3> DEFINE page == Page
    <3>1. page.ed = ed /\ page.armed = rest.armed  BY DEF Page
    <3>2. CASE p = page  BY <1>1, <2>1, <3>1, <3>2
    <3>3. CASE p = Merged(page, r)
      <4>1. e = p.ed  BY <2>1
      <4> HIDE DEF page, e, r
      <4>2. EdType(p.ed) /\ p.ed.value = Text(p.ed) /\ p.ed.ime = page.ed.ime
        BY <1>1, <2>2, <3>1, <3>3, MergedIs
      <4>3. QED BY <1>1, <3>1, <4>1, <4>2 DEF Kept
    <3>4. QED BY <2>1, <3>2, <3>3
  <2>4. x = [rest EXCEPT !.get["poll"] = None, !.armed = armed]  BY <2>1
  <2> HIDE DEF x, armed
  <2>5. /\ x = [f \in RestFields |-> x[f]] /\ x.put = rest.put
        /\ x.putInFlight = rest.putInFlight /\ x.armed = armed
        /\ x.get = [rest.get EXCEPT !["poll"] = None]
    BY <1>1, <2>4 DEF RestType, RestFields
  <2>6. RestType(x)  BY <1>1, <1>3, <2>5, ReadTyped
  <2>7. QED BY <1>2, <2>3, <2>5, <2>6 DEF RestInv, x
<1>6. QED BY <1>4, <1>5

\* A PUT is on its way: until it is answered nothing is claimed.
LEMMA PutSentInv ==
    ASSUME RestInv, PutSent
    PROVE  RestInv'
<1>1. RestType(rest) /\ EdType(ed) /\ WorldType /\ ed.ime = "off"  BY DEF RestInv
<1>2. WorldType' /\ ed' = ed  BY <1>1 DEF PutSent, Same, WorldType
<1> DEFINE x == rest'
           put == [text |-> ed.value, base |-> ed.known.ver, knew |-> Knew(ed),
                   reply |-> None, conflict |-> FALSE]
           chases == IF Open THEN rest.chases + 1 ELSE rest.chases
<1>3. x = [rest EXCEPT !.armed = FALSE, !.putInFlight = TRUE, !.chases = chases, !.put = put]
  BY DEF PutSent
<1>4. PutShape(put)  BY <1>1 DEF PutShape, EdType
<1> HIDE DEF x, put, chases
<1>5. /\ x = [f \in RestFields |-> x[f]] /\ x.get = rest.get
      /\ x.putInFlight = TRUE /\ x.put = put
  BY <1>1, <1>3 DEF RestType, RestFields
<1>6. RestType(x) /\ x.putInFlight  BY <1>1, <1>4, <1>5, PutTyped
<1>7. QED BY <1>1, <1>2, <1>6 DEF RestInv, Kept, x

\* A PUT that is lost is due again.
LEMMA PutFailsInv ==
    ASSUME RestInv, PutFails
    PROVE  RestInv'
<1>1. RestType(rest) /\ EdType(ed) /\ WorldType /\ ed.ime = "off"  BY DEF RestInv
<1>2. WorldType' /\ ed' = ed  BY <1>1 DEF PutFails, Same, WorldType
<1> DEFINE x == rest'
           fails == rest.fails + 1
<1>3. x = [rest EXCEPT !.putInFlight = FALSE, !.put = None, !.armed = TRUE, !.fails = fails]
  BY DEF PutFails
<1> HIDE DEF x, fails
<1>4. /\ x = [f \in RestFields |-> x[f]] /\ x.get = rest.get
      /\ x.putInFlight = FALSE /\ x.armed = TRUE
  BY <1>1, <1>3 DEF RestType, RestFields
<1>5. RestType(x) /\ x.armed  BY <1>1, <1>4, PutTyped
<1>6. QED BY <1>1, <1>2, <1>5 DEF RestInv, Kept, x

\* The server's part in a PUT.
LEMMA PutServedInv ==
    ASSUME RestInv, PutAccepted \/ PutConflicts
    PROVE  RestInv'
<1>1. RestType(rest) /\ EdType(ed) /\ WorldType /\ ed.ime = "off" /\ rest.putInFlight
      /\ PutShape(rest.put) /\ room \in Rooms
  BY DEF RestInv, RestType, WorldType, PutAccepted, PutConflicts
<1>2. ed' = ed  BY DEF PutAccepted, PutConflicts
<1>3. WorldType'
  <2>1. CASE PutConflicts  BY <1>1, <2>1 DEF PutConflicts, Same, WorldType
  <2>2. CASE PutAccepted
    <3> DEFINE text == rest.put.text
               doc == BuildFromString(Me, text)
    <3>1. UNCHANGED <<room, event>> \/ Write(doc, Me, << >>)  BY <2>2 DEF PutAccepted
    <3>2. UNCHANGED <<wire, trail, count>>  BY <2>2 DEF PutAccepted
    <3>3. doc \in Trees
      <4>1. text \in Seq(Nat) /\ Me \in Nat \ {0}  BY <1>1, SitesAre DEF PutShape, Texts
      <4> HIDE DEF text
      <4>2. QED BY <4>1, BuildShows DEF Trees
    <3>4. Me \in Nat /\ << >> \in Seq(Ops)  BY SitesAre
    <3> HIDE DEF doc
    <3>5. CASE Write(doc, Me, << >>)
      <4>1. room' \in Rooms /\ event' \in Events  BY <1>1, <3>3, <3>4, <3>5, WriteIs
      <4>2. QED BY <1>1, <3>2, <4>1 DEF WorldType
    <3>6. CASE UNCHANGED <<room, event>>  BY <1>1, <3>2, <3>6 DEF WorldType
    <3>7. QED BY <3>1, <3>5, <3>6
  <2>3. QED BY <2>1, <2>2
<1> DEFINE x == rest'
<1>4. \E reply, conflict : /\ IsReading(reply)
                           /\ x = [rest EXCEPT !.put.reply = reply, !.put.conflict = conflict]
  <2>1. CASE PutConflicts
    <3>1. IsReading(Reading)  BY <1>1, ReadingIs
    <3>2. x = [rest EXCEPT !.put.reply = Reading, !.put.conflict = TRUE]
      BY <2>1 DEF PutConflicts
    <3> HIDE DEF x
    <3>3. QED BY <3>1, <3>2
  <2>2. CASE PutAccepted
    <3> DEFINE reply == [exists |-> TRUE, gen |-> room'.gen, ver |-> room'.ver,
                         text |-> rest.put.text]
    <3>1. x = [rest EXCEPT !.put.reply = reply]  BY <2>2 DEF PutAccepted
    <3>2. IsReading(reply)  BY <1>1, <1>3 DEF IsReading, PutShape, WorldType, Rooms
    <3> HIDE DEF x, reply
    <3>3. x = [rest EXCEPT !.put.reply = reply, !.put.conflict = rest.put.conflict]
      <4> DEFINE put == [rest.put EXCEPT !.reply = reply]
                 same == [rest.put EXCEPT !.reply = reply, !.conflict = rest.put.conflict]
      <4>1. put = same  BY <1>1 DEF PutShape
      <4>2. x = [rest EXCEPT !.put = put]  BY <3>1
      <4>3. x = [rest EXCEPT !.put = same]  BY <4>1, <4>2
      <4>4. QED BY <4>3
    <3>4. QED BY <3>2, <3>3
  <2>3. QED BY <2>1, <2>2
<1>5. PICK reply, conflict : /\ IsReading(reply)
                             /\ x = [rest EXCEPT !.put.reply = reply, !.put.conflict = conflict]
  BY <1>4
<1> DEFINE put == [rest.put EXCEPT !.reply = reply, !.conflict = conflict]
<1>6. x = [rest EXCEPT !.put = put]  BY <1>5
<1>7. PutShape(put)  BY <1>1, <1>5 DEF PutShape
<1> HIDE DEF x, put
<1>8. /\ x = [f \in RestFields |-> x[f]] /\ x.get = rest.get
      /\ x.putInFlight = rest.putInFlight /\ x.put = put
  BY <1>1, <1>6 DEF RestType, RestFields
<1>9. RestType(x) /\ x.putInFlight  BY <1>1, <1>7, <1>8, PutTyped
<1>10. QED BY <1>1, <1>2, <1>3, <1>9 DEF RestInv, Kept, x

\* A PUT is answered: merged, or saved.
LEMMA PutAnsweredInv ==
    ASSUME RestInv, PutAnswered
    PROVE  RestInv'
<1>1. RestType(rest) /\ EdType(ed) /\ WorldType /\ ed.ime = "off"  BY DEF RestInv
<1>2. WorldType'  BY <1>1 DEF PutAnswered, Same, WorldType
<1> DEFINE put == rest.put
           page == Page
           x == rest'
           e == ed'
<1>3. PutShape(put) /\ IsReading(put.reply)  BY <1>1 DEF PutAnswered, RestType, PutShape
<1>4. PICK p : /\ p = Merged(page, put.reply) \/ p = PutDone(page, put)
               /\ e = p.ed
               /\ x = [rest EXCEPT !.putInFlight = FALSE, !.put = None, !.armed = p.armed]
  BY DEF PutAnswered
<1>5. page.ed = ed  BY DEF Page
<1> HIDE DEF put, page, x, e
<1>6. /\ EdType(p.ed) /\ p.ed.ime = "off" /\ (p.ed.value = Text(p.ed) \/ p.armed)
  <2>1. CASE p = Merged(page, put.reply)  BY <1>1, <1>3, <1>5, <2>1, MergedIs
  <2>2. CASE p = PutDone(page, put)
    <3>1. put.text \in Texts  BY <1>3 DEF PutShape
    <3>2. QED BY <1>1, <1>3, <1>5, <2>2, <3>1, PutDoneIs
  <2>3. QED BY <1>4, <2>1, <2>2
<1> DEFINE armed == p.armed
<1>7. x = [rest EXCEPT !.putInFlight = FALSE, !.put = None, !.armed = armed]  BY <1>4
<1> HIDE DEF armed
<1>8. /\ x = [f \in RestFields |-> x[f]] /\ x.get = rest.get
      /\ x.putInFlight = FALSE /\ x.armed = armed
  BY <1>1, <1>7 DEF RestType, RestFields
<1>9. RestType(x) /\ x.armed = armed  BY <1>1, <1>8, PutTyped
<1>10. Kept(e, armed, x.putInFlight) /\ EdType(e) /\ e.ime = "off"
  BY <1>4, <1>6 DEF Kept, armed
<1>11. QED BY <1>2, <1>9, <1>10 DEF RestInv, e, x

\* Every step without the socket preserves the invariant.
LEMMA RestStepInv == RestInv /\ [NextRest]_restVars => RestInv'
<1> SUFFICES ASSUME RestInv, [NextRest]_restVars PROVE RestInv'
  OBVIOUS
<1>1. CASE UserRest  BY <1>1, UserRestInv
<1>2. CASE Redial \/ DialFails \/ FlushOffline  BY <1>2, TimerInv
<1>3. CASE DialSucceeds \/ Drop \/ Socket  BY <1>3, SocketInv
<1>4. CASE ReceiveRest  BY <1>4, ReceiveRestInv
<1>5. CASE Poll \/ ReadServed \/ ReadFails  BY <1>5, ReadsInv
<1>6. CASE LoadAnswered \/ PollAnswered  BY <1>6, AnswersInv
<1>7. CASE PutSent  BY <1>7, PutSentInv
<1>8. CASE PutAccepted \/ PutConflicts  BY <1>8, PutServedInv
<1>9. CASE PutFails  BY <1>9, PutFailsInv
<1>10. CASE PutAnswered  BY <1>10, PutAnsweredInv
<1>11. CASE OthersRest
  <2>1. WorldType /\ PeerEdit /\ ed' = ed /\ rest' = rest  BY <1>11 DEF OthersRest, PeerEdit, RestInv
  <2>2. WorldType'  BY <2>1, OthersWorld DEF Others
  <2>3. QED BY <2>1, <2>2 DEF RestInv, RestType, Kept, Text
<1>12. CASE UNCHANGED restVars
  BY <1>12 DEF restVars, vars, RestInv, WorldType, RestType, Kept, Text
<1>13. QED
  BY <1>1, <1>2, <1>3, <1>4, <1>5, <1>6, <1>7, <1>8, <1>9, <1>10, <1>11, <1>12 DEF NextRest

\* What is shown is in the document, is about to be put, is an untouched draft or
\* waits for the state that a batch of others has made the page ask for, through
\* loads, polls, conflicts, merges and saves that are lost (putReplace).
THEOREM ShownIsKept == SpecRest => []ShownOrPut
<1>1. RestInv => ShownOrPut
  BY DEF RestInv, Kept, ShownOrPut
<1>2. QED BY <1>1, RestInitInv, RestStepInv, PTL DEF SpecRest
=============================================================================
