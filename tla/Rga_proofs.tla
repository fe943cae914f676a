----------------------------- MODULE Rga_proofs -----------------------------
(***************************************************************************)
(* What the operators of Rga do to any document, whatever its size: the    *)
(* order of siblings, insertion, deletion, batches and the traversal.      *)
(*                                                                         *)
(* It begins with induction over the natural numbers, stated of sets and   *)
(* functions: a property is the set of the numbers that have it, a         *)
(* recursion is a function that is applied again and again.  The loops of  *)
(* the code that the modules write as recursive functions are reasoned     *)
(* about with them, also in other modules, which take them from here.      *)
(***************************************************************************)
EXTENDS Rga, FiniteSetTheorems, FunctionTheorems, SequenceTheorems, WellFoundedInduction, TLAPS

-----------------------------------------------------------------------------
(* Induction and iteration                                                 *)

\* A set of numbers that is not empty has a least element.
LEMMA LeastNumber ==
    ASSUME NEW T \in SUBSET Nat, T # {}
    PROVE  \E x \in T : \A y \in T : x <= y
<1> DEFINE Below == {0 .. n : n \in T}
           R == StrictSubsetOrdering(Nat)
<1>1. Below \subseteq FiniteSubsetsOf(Nat) /\ Below # {}
  <2>1. \A n \in Nat : 0 .. n \subseteq Nat /\ IsFiniteSet(0 .. n)  BY FS_Interval
  <2> QED BY <2>1 DEF FiniteSubsetsOf
<1>2. IsWellFoundedOn(R, FiniteSubsetsOf(Nat))  BY FS_StrictSubsetOrderingWellFounded
<1>3. \E d \in Below : \A e \in Below : <<e, d>> \notin R
  <2> HIDE DEF Below, R
  <2> QED BY <1>1, <1>2, WFMin
<1>4. PICK n \in T : \A m \in T : <<0 .. m, 0 .. n>> \notin R  BY <1>3
<1>5. ASSUME NEW m \in T, m < n PROVE FALSE
  <2>1. 0 .. m \subseteq 0 .. n /\ 0 .. m # 0 .. n
    <3>1. n \in 0 .. n /\ n \notin 0 .. m  BY <1>5
    <3> QED BY <3>1, <1>5
  <2>2. <<0 .. m, 0 .. n>> \in R
    BY <2>1 DEF StrictSubsetOrdering
  <2> QED BY <2>2, <1>4
<1> QED BY <1>5

\* A set of numbers with 0 and the successor of each of its elements has all.
LEMMA SetInduction ==
    ASSUME NEW T \in SUBSET Nat, 0 \in T, \A n \in T : n + 1 \in T
    PROVE  T = Nat
<1> SUFFICES ASSUME Nat \ T # {} PROVE FALSE
  OBVIOUS
<1>1. PICK x \in Nat \ T : \A y \in Nat \ T : x <= y
  <2> DEFINE U == Nat \ T
  <2>1. U \in SUBSET Nat /\ U # {}  OBVIOUS
  <2> HIDE DEF U
  <2>2. \E x \in U : \A y \in U : x <= y  BY <2>1, LeastNumber
  <2> QED BY <2>2 DEF U
<1>2. x # 0 /\ x - 1 \in Nat  OBVIOUS
<1>3. x - 1 \in T  BY <1>1, <1>2
<1> QED BY <1>3, <1>1

\* A finite set of numbers that is not empty has a greatest element.
LEMMA GreatestNumber ==
    ASSUME NEW S \in SUBSET Nat, IsFiniteSet(S), S # {}
    PROVE  \E x \in S : \A y \in S : y <= x
<1> DEFINE Top(X) == \E x \in X : \A y \in X : y <= x
           Bad == {X \in SUBSET S : X # {} /\ ~Top(X)}
           R == StrictSubsetOrdering(S)
<1> SUFFICES ASSUME Bad # {} PROVE FALSE
  OBVIOUS
<1>1. Bad \subseteq FiniteSubsetsOf(S)
  BY FS_Subset DEF FiniteSubsetsOf
<1>2. \E X \in Bad : \A Y \in Bad : <<Y, X>> \notin R
  <2>1. IsWellFoundedOn(R, FiniteSubsetsOf(S))  BY FS_StrictSubsetOrderingWellFounded
  <2> HIDE DEF Bad, R
  <2> QED BY <1>1, <2>1, WFMin
<1>3. PICK X \in Bad : \A Y \in Bad : <<Y, X>> \notin R  BY <1>2
<1>4. PICK x \in X : TRUE  OBVIOUS
<1>5. <<X \ {x}, X>> \in R  BY DEF StrictSubsetOrdering
<1>6. X \ {x} \notin Bad  BY <1>3, <1>5
<1>7. CASE X \ {x} = {}
  <2>1. X = {x}  BY <1>7
  <2> QED BY <2>1
<1>8. CASE X \ {x} # {}
  <2>1. PICK z \in X \ {x} : \A y \in X \ {x} : y <= z  BY <1>6, <1>8
  <2>2. x \in Nat /\ z \in Nat  OBVIOUS
  <2>3. CASE x <= z  BY <2>1, <2>3
  <2>4. CASE z <= x
    <3>1. \A y \in X : y <= x  BY <2>1, <2>2, <2>4
    <3> QED BY <3>1
  <2> QED BY <2>2, <2>3, <2>4
<1> QED BY <1>7, <1>8

\* A function has finitely many values on a finite set.
LEMMA ValuesAreFinite ==
    ASSUME NEW S, IsFiniteSet(S), NEW T, NEW f \in [S -> T]
    PROVE  IsFiniteSet({f[x] : x \in S})
<1>1. f \in Surjection(S, {f[x] : x \in S})  BY DEF Surjection
<1> QED BY <1>1, FS_Surjection

\* f[n] is what n turns of a step make of base; k is the same as a recursive
\* function over the turns of a loop.
Repeats(f, base, step) ==
    f[0] = base /\ \A n \in Nat : f[n + 1] = step[<<n + 1, f[n]>>]
Loops(k, N, base, step) ==
    k = [n \in 0 .. N |-> IF n = 0 THEN base ELSE step[<<n, k[n - 1]>>]]

\* A step that leads from every value of A and every turn to a value of A can be
\* taken again and again.
LEMMA IterationExists ==
    ASSUME NEW A, NEW base \in A, NEW step \in [Nat \X A -> A]
    PROVE  \E f \in [Nat -> A] : Repeats(f, base, step)
<1> DEFINE Runs(g, n) == /\ g \in [0 .. n -> A]
                         /\ g[0] = base
                         /\ \A i \in Nat : i < n => g[i + 1] = step[<<i + 1, g[i]>>]
           T == {n \in Nat : \E g : Runs(g, n)}
           F(n) == CHOOSE g : Runs(g, n)
           f == [n \in Nat |-> F(n)[n]]
<1>1. 0 \in T
  <2>1. Runs([i \in 0 .. 0 |-> base], 0)  OBVIOUS
  <2> QED BY <2>1
<1>2. ASSUME NEW n \in T PROVE n + 1 \in T
  <2>1. PICK g : Runs(g, n)  OBVIOUS
  <2> DEFINE h == [i \in 0 .. n + 1 |-> IF i = n + 1 THEN step[<<n + 1, g[n]>>] ELSE g[i]]
  <2>2. h \in [0 .. n + 1 -> A]  BY <2>1
  <2>3. h[0] = base  BY <2>1
  <2>4. ASSUME NEW i \in Nat, i < n + 1 PROVE h[i + 1] = step[<<i + 1, h[i]>>]
    <3>1. CASE i = n
      <4>1. h[n] = g[n] /\ h[n + 1] = step[<<n + 1, g[n]>>]  OBVIOUS
      <4> QED BY <4>1, <3>1
    <3>2. CASE i < n  BY <2>1, <3>2
    <3> QED BY <2>4, <3>1, <3>2
  <2> HIDE DEF h
  <2>5. Runs(h, n + 1)  BY <2>2, <2>3, <2>4
  <2> QED BY <2>5
<1>3. \A n \in Nat : \E g : Runs(g, n)
  <2>1. T = Nat
    <3> HIDE DEF T
    <3>1. T \in SUBSET Nat  BY DEF T
    <3> QED BY <3>1, <1>1, <1>2, SetInduction
  <2> QED BY <2>1
<1>4. \A n \in Nat : Runs(F(n), n)
  <2> HIDE DEF Runs
  <2> QED BY <1>3
<1> HIDE DEF F
<1>5. ASSUME NEW n \in Nat PROVE F(n + 1)[n] = F(n)[n]
  <2>1. PICK g : g = F(n)  OBVIOUS
  <2>2. PICK h : h = F(n + 1)  OBVIOUS
  <2>3. Runs(g, n) /\ Runs(h, n + 1)  BY <1>4, <2>1, <2>2
  <2> DEFINE U == {i \in Nat : i <= n => g[i] = h[i]}
  <2>4. 0 \in U  BY <2>3
  <2>5. ASSUME NEW i \in U PROVE i + 1 \in U
    <3> SUFFICES ASSUME i + 1 <= n PROVE g[i + 1] = h[i + 1]
      OBVIOUS
    <3>1. g[i] = h[i] /\ i < n /\ i < n + 1  OBVIOUS
    <3> QED BY <2>3, <3>1
  <2>6. U = Nat
    <3> HIDE DEF U
    <3>1. U \in SUBSET Nat  BY DEF U
    <3> QED BY <3>1, <2>4, <2>5, SetInduction
  <2> QED BY <2>1, <2>2, <2>6
<1>6. f \in [Nat -> A]  BY <1>4
<1>7. f[0] = base  BY <1>4
<1>8. ASSUME NEW n \in Nat PROVE f[n + 1] = step[<<n + 1, f[n]>>]
  <2>1. Runs(F(n + 1), n + 1) /\ n < n + 1  BY <1>4
  <2>2. F(n + 1)[n + 1] = step[<<n + 1, F(n + 1)[n]>>]  BY <2>1
  <2> QED BY <2>2, <1>5
<1> HIDE DEF f
<1>9. Repeats(f, base, step)  BY <1>7, <1>8 DEF Repeats
<1> QED BY <1>6, <1>9

\* So a recursive function over the turns 0 .. n of a loop is what it says.
LEMMA LoopExists ==
    ASSUME NEW A, NEW base \in A, NEW N \in Nat, NEW step \in [Nat \X A -> A]
    PROVE  \E k \in [0 .. N -> A] : Loops(k, N, base, step)
<1>1. PICK f \in [Nat -> A] : Repeats(f, base, step)
  BY IterationExists
<1> DEFINE k == [n \in 0 .. N |-> f[n]]
<1>2. ASSUME NEW n \in 0 .. N, n # 0 PROVE k[n] = step[<<n, k[n - 1]>>]
  <2>1. n - 1 \in Nat /\ (n - 1) + 1 = n /\ n - 1 \in 0 .. N  BY <1>2
  <2> QED BY <2>1, <1>1 DEF Repeats
<1>3. k[0] = base /\ k \in [0 .. N -> A]  BY <1>1 DEF Repeats
<1> HIDE DEF k
<1>4. Loops(k, N, base, step)
  BY <1>2, <1>3 DEF Loops
<1> QED BY <1>3, <1>4

-----------------------------------------------------------------------------
(* Sequences and intervals                                                 *)

LEMMA ConcatIs ==
    ASSUME NEW S, NEW s \in Seq(S), NEW t \in Seq(S)
    PROVE  /\ s \o t \in Seq(S) /\ Len(s \o t) = Len(s) + Len(t)
           /\ DOMAIN (s \o t) = 1 .. Len(s) + Len(t)
           /\ \A i \in 1 .. Len(s) + Len(t) : (s \o t)[i] = IF i <= Len(s) THEN s[i] ELSE t[i - Len(s)]
OBVIOUS

LEMMA SubSeqIs ==
    ASSUME NEW S, NEW s \in Seq(S), NEW i \in 1 .. Len(s) + 1, NEW j \in 0 .. Len(s), i <= j + 1
    PROVE  /\ SubSeq(s, i, j) \in Seq(S) /\ Len(SubSeq(s, i, j)) = j - i + 1
           /\ DOMAIN SubSeq(s, i, j) = 1 .. j - i + 1
           /\ \A k \in 1 .. j - i + 1 : SubSeq(s, i, j)[k] = s[i + k - 1]
OBVIOUS

LEMMA SameSequence ==
    ASSUME NEW S, NEW s \in Seq(S), NEW t \in Seq(S),
           Len(s) = Len(t), \A i \in 1 .. Len(s) : s[i] = t[i]
    PROVE  s = t
OBVIOUS

\* No element comes twice.
Distinct(s) == \A i, j \in 1 .. Len(s) : i # j => s[i] # s[j]

InsertedAt(new, s, i, e) ==
    /\ Len(new) = Len(s) + 1 /\ DOMAIN new = 1 .. Len(s) + 1
    /\ \A j \in 1 .. Len(s) + 1 :
          new[j] = IF j < i THEN s[j] ELSE IF j = i THEN e ELSE s[j - 1]

LEMMA InsertAtIs ==
    ASSUME NEW S, NEW s \in Seq(S), NEW e \in S, NEW i \in 1 .. Len(s) + 1
    PROVE  InsertAt(s, i, e) \in Seq(S) /\ InsertedAt(InsertAt(s, i, e), s, i, e)
<1> DEFINE a == SubSeq(s, 1, i - 1)
           b == SubSeq(s, i, Len(s))
           ae == a \o <<e>>
<1>1. /\ a \in Seq(S) /\ Len(a) = i - 1 /\ \A k \in 1 .. i - 1 : a[k] = s[k]
      /\ b \in Seq(S) /\ Len(b) = Len(s) - i + 1 /\ \A k \in 1 .. Len(s) - i + 1 : b[k] = s[i + k - 1]
  <2>1. Len(s) \in Nat /\ 1 \in 1 .. Len(s) + 1 /\ i - 1 \in 0 .. Len(s) /\ Len(s) \in 0 .. Len(s)
        /\ i <= Len(s) + 1 /\ 1 <= (i - 1) + 1
    OBVIOUS
  <2>2. /\ a \in Seq(S) /\ Len(a) = (i - 1) - 1 + 1
        /\ \A k \in 1 .. (i - 1) - 1 + 1 : a[k] = s[1 + k - 1]
    BY <2>1, SubSeqIs
  <2>3. /\ b \in Seq(S) /\ Len(b) = Len(s) - i + 1
        /\ \A k \in 1 .. Len(s) - i + 1 : b[k] = s[i + k - 1]
    BY <2>1, SubSeqIs
  <2>4. (i - 1) - 1 + 1 = i - 1 /\ \A k \in 1 .. i - 1 : 1 + k - 1 = k  OBVIOUS
  <2> HIDE DEF a, b
  <2>5. QED BY <2>2, <2>3, <2>4
<1>2. InsertAt(s, i, e) = ae \o b  BY DEF InsertAt
<1> HIDE DEF a, b
<1>3. <<e>> \in Seq(S) /\ Len(<<e>>) = 1 /\ <<e>>[1] = e  OBVIOUS
<1>4. /\ ae \in Seq(S) /\ Len(ae) = i
      /\ \A k \in 1 .. i : ae[k] = IF k <= i - 1 THEN s[k] ELSE e
  <2>1. /\ ae \in Seq(S) /\ Len(ae) = Len(a) + Len(<<e>>)
        /\ \A k \in 1 .. Len(a) + Len(<<e>>) : ae[k] = IF k <= Len(a) THEN a[k] ELSE <<e>>[k - Len(a)]
    BY <1>1, <1>3, ConcatIs
  <2> HIDE DEF ae
  <2>2. Len(a) + Len(<<e>>) = i /\ Len(a) = i - 1 /\ i \in Nat  BY <1>1, <1>3
  <2> DEFINE one == <<e>>
  <2>3. one[1] = e  BY <1>3
  <2> HIDE DEF one
  <2>4. \A k \in 1 .. i : ae[k] = IF k <= i - 1 THEN a[k] ELSE one[k - (i - 1)]
    BY <2>1, <2>2 DEF one
  <2>5. ASSUME NEW k \in 1 .. i PROVE ae[k] = IF k <= i - 1 THEN s[k] ELSE e
    <3>1. CASE k <= i - 1
      <4>1. k \in 1 .. i - 1  BY <3>1
      <4>2. QED BY <1>1, <2>4, <3>1, <4>1
    <3>2. CASE ~(k <= i - 1)
      <4>1. k - (i - 1) = 1  BY <2>2, <3>2
      <4>2. QED BY <2>3, <2>4, <3>2, <4>1
    <3>3. QED BY <3>1, <3>2
  <2>6. QED BY <2>1, <2>2, <2>5
<1> HIDE DEF ae
<1>5. /\ ae \o b \in Seq(S) /\ Len(ae \o b) = Len(ae) + Len(b) /\ DOMAIN (ae \o b) = 1 .. Len(ae) + Len(b)
      /\ \A k \in 1 .. Len(ae) + Len(b) : (ae \o b)[k] = IF k <= Len(ae) THEN ae[k] ELSE b[k - Len(ae)]
  <2>1. ae \in Seq(S) /\ b \in Seq(S)  BY <1>1, <1>4
  <2> HIDE DEF b
  <2>2. QED BY ONLY <2>1, ConcatIs
<1>6. Len(ae) + Len(b) = Len(s) + 1  BY <1>1, <1>4
<1>7. ASSUME NEW j \in 1 .. Len(s) + 1
      PROVE  (ae \o b)[j] = IF j < i THEN s[j] ELSE IF j = i THEN e ELSE s[j - 1]
  <2>1. CASE j <= i  BY <1>4, <1>5, <1>6, <2>1
  <2>2. CASE j > i
    <3>1. j - i \in 1 .. Len(s) - i + 1 /\ i + (j - i) - 1 = j - 1  BY <2>2
    <3>2. (ae \o b)[j] = b[j - i]  BY <1>4, <1>5, <1>6, <2>2
    <3>3. QED BY <1>1, <3>1, <3>2, <2>2
  <2>3. j <= i \/ j > i  OBVIOUS
  <2>4. QED BY <2>1, <2>2, <2>3
<1>8. QED BY <1>2, <1>5, <1>6, <1>7 DEF InsertedAt

\* A set of positions that has all below each of its elements is an interval.
LEMMA Initial ==
    ASSUME NEW n \in Nat, NEW J \in SUBSET (1 .. n), \A j \in J : 1 .. j \subseteq J
    PROVE  Cardinality(J) \in 0 .. n /\ J = 1 .. Cardinality(J)
<1>1. IsFiniteSet(1 .. n) /\ IsFiniteSet(J) /\ J \in SUBSET Nat
  <2>1. IsFiniteSet(1 .. n)
    <3>1. 1 \in Int /\ n \in Int  OBVIOUS
    <3>2. QED BY <3>1, FS_Interval
  <2>2. IsFiniteSet(J)  BY <2>1, FS_Subset
  <2>3. QED BY <2>1, <2>2
<1>2. CASE J = {}
  <2>1. Cardinality(J) = 0  BY <1>2, FS_EmptySet
  <2>2. QED BY <2>1, <1>2
<1>3. CASE J # {}
  <2>1. PICK m \in J : \A j \in J : j <= m  BY <1>1, <1>3, GreatestNumber
  <2>2. m \in Nat /\ m <= n /\ J = 1 .. m
    <3>1. 1 .. m \subseteq J /\ m \in 1 .. n  OBVIOUS
    <3>2. \A j \in J : j \in 1 .. m  BY <2>1, <3>1
    <3>3. J \subseteq 1 .. m  BY <3>2
    <3>4. J = 1 .. m  BY <3>1, <3>3
    <3>5. m \in 1 .. n  OBVIOUS
    <3>6. QED BY <3>4, <3>5
  <2>3. Cardinality(1 .. m) = m
    <3>1. 1 <= m  BY <2>1
    <3>2. QED BY <2>2, <3>1, FS_Interval
  <2>4. QED BY <2>2, <2>3
<1>4. QED BY <1>2, <1>3

-----------------------------------------------------------------------------
(* The order of siblings                                                   *)

Id == [clock : Nat \ {0}, site : Nat \ {0}]

LEMMA SiblingOrder ==
    ASSUME NEW a \in Id, NEW b \in Id, NEW c \in Id
    PROVE  /\ ~ SiblingBefore(a, a)
           /\ SiblingBefore(a, b) \/ SiblingBefore(b, a) \/ a = b
           /\ SiblingBefore(a, b) /\ SiblingBefore(b, c) => SiblingBefore(a, c)
<1>1. /\ a.clock \in Nat /\ b.clock \in Nat /\ c.clock \in Nat
      /\ a.site \in Nat /\ b.site \in Nat /\ c.site \in Nat
  BY DEF Id
<1>2. a.clock = b.clock /\ a.site = b.site => a = b
  BY DEF Id
<1>3. QED BY <1>1, <1>2 DEF SiblingBefore

Ordered(kids) ==
    \A i, j \in DOMAIN kids : i < j => SiblingBefore(kids[i], kids[j])

\* A sequence that is sorted by an asymmetric relation is given by its elements.
SortedBy(s, R) == \A i, j \in DOMAIN s : i < j => <<s[i], s[j]>> \in R
Asymmetric(R) == \A a, b : ~(<<a, b>> \in R /\ <<b, a>> \in R)

LEMMA SortedAgree ==
    ASSUME NEW S, NEW R, Asymmetric(R), NEW s \in Seq(S), NEW t \in Seq(S),
           SortedBy(s, R), SortedBy(t, R), ToSet(s) = ToSet(t),
           NEW n \in Nat, \A i \in 1 .. n : i \in DOMAIN s => i \in DOMAIN t /\ s[i] = t[i],
           n + 1 \in DOMAIN s
    PROVE  n + 1 \in DOMAIN t /\ s[n + 1] = t[n + 1]
<1>1. Len(s) \in Nat /\ Len(t) \in Nat /\ DOMAIN s = 1 .. Len(s) /\ DOMAIN t = 1 .. Len(t)
  OBVIOUS
<1>2. \A i \in DOMAIN s : \E j \in DOMAIN t : t[j] = s[i]
  BY DEF ToSet
<1>3. \A i \in DOMAIN t : \E j \in DOMAIN s : s[j] = t[i]
  BY DEF ToSet
<1>4. PICK j \in DOMAIN t : t[j] = s[n + 1]  BY <1>2
<1>5. j >= n + 1
  <2> SUFFICES ASSUME j < n + 1 PROVE FALSE
    BY <1>1
  <2>1. j \in DOMAIN s /\ j \in 1 .. n /\ s[j] = t[j]  BY <1>1
  <2>2. <<s[j], s[n + 1]>> \in R  BY <1>1, <2>1 DEF SortedBy
  <2>3. QED BY <1>4, <2>1, <2>2 DEF Asymmetric
<1>6. n + 1 \in DOMAIN t  BY <1>1, <1>5
<1>7. PICK k \in DOMAIN s : s[k] = t[n + 1]  BY <1>3, <1>6
<1>8. k >= n + 1
  <2> SUFFICES ASSUME k < n + 1 PROVE FALSE
    BY <1>1
  <2>1. k \in DOMAIN t /\ k \in 1 .. n /\ s[k] = t[k]  BY <1>1
  <2>2. <<t[k], t[n + 1]>> \in R  BY <1>1, <1>6, <2>1 DEF SortedBy
  <2>3. QED BY <1>7, <2>1, <2>2 DEF Asymmetric
<1>9. CASE j = n + 1  BY <1>4, <1>6, <1>9
<1>10. CASE j > n + 1
  <2>1. <<t[n + 1], s[n + 1]>> \in R  BY <1>4, <1>6, <1>10, <1>1 DEF SortedBy
  <2>2. k = n + 1 \/ <<s[n + 1], t[n + 1]>> \in R
    <3>1. CASE k = n + 1  BY <3>1
    <3>2. CASE k # n + 1
      <4>1. n + 1 \in DOMAIN s /\ k \in DOMAIN s /\ n + 1 < k  BY <1>1, <1>7, <1>8, <3>2
      <4>2. <<s[n + 1], s[k]>> \in R  BY <4>1 DEF SortedBy
      <4>3. QED BY <1>7, <4>2
    <3>3. QED BY <3>1, <3>2
  <2>3. QED BY <1>7, <2>1, <2>2 DEF Asymmetric
<1>11. QED BY <1>1, <1>5, <1>9, <1>10

LEMMA SortedPrefix ==
    ASSUME NEW S, NEW R, Asymmetric(R), NEW s \in Seq(S), NEW t \in Seq(S),
           SortedBy(s, R), SortedBy(t, R), ToSet(s) = ToSet(t)
    PROVE  \A i \in DOMAIN s : i \in DOMAIN t /\ s[i] = t[i]
<1> DEFINE T == {n \in Nat : \A i \in 1 .. n : i \in DOMAIN s => i \in DOMAIN t /\ s[i] = t[i]}
<1>1. 0 \in T  OBVIOUS
<1>2. ASSUME NEW n \in T PROVE n + 1 \in T
  <2>1. n + 1 \in DOMAIN s => n + 1 \in DOMAIN t /\ s[n + 1] = t[n + 1]
    BY SortedAgree
  <2>2. QED BY <2>1
<1>3. T = Nat
  <2>1. T \in SUBSET Nat  OBVIOUS
  <2> HIDE DEF T
  <2>2. QED BY <1>1, <1>2, <2>1, SetInduction
<1>4. ASSUME NEW i \in DOMAIN s PROVE i \in DOMAIN t /\ s[i] = t[i]
  <2>1. i \in T /\ i \in 1 .. i  BY <1>3
  <2>2. QED BY <2>1
<1>5. QED BY <1>4

LEMMA SortedUnique ==
    ASSUME NEW S, NEW R, Asymmetric(R), NEW s \in Seq(S), NEW t \in Seq(S),
           SortedBy(s, R), SortedBy(t, R), ToSet(s) = ToSet(t)
    PROVE  s = t
<1>1. /\ \A i \in DOMAIN s : i \in DOMAIN t /\ s[i] = t[i]
      /\ \A i \in DOMAIN t : i \in DOMAIN s /\ t[i] = s[i]
  BY SortedPrefix
<1>2. Len(s) \in Nat /\ Len(t) \in Nat /\ DOMAIN s = 1 .. Len(s) /\ DOMAIN t = 1 .. Len(t)
  OBVIOUS
<1>3. Len(s) = Len(t)
  <2>1. Len(s) <= Len(t)
    <3>1. CASE Len(s) = 0  BY <1>2, <3>1
    <3>2. CASE Len(s) \in DOMAIN s  BY <1>1, <1>2, <3>2
    <3>3. QED BY <1>2, <3>1, <3>2
  <2>2. Len(t) <= Len(s)
    <3>1. CASE Len(t) = 0  BY <1>2, <3>1
    <3>2. CASE Len(t) \in DOMAIN t  BY <1>1, <1>2, <3>2
    <3>3. QED BY <1>2, <3>1, <3>2
  <2>3. Len(s) \in Nat /\ Len(t) \in Nat  OBVIOUS
  <2>4. QED BY <2>1, <2>2, <2>3
<1>4. QED BY <1>1, <1>2, <1>3, SameSequence

\* Ordered children are given by who they are.
LEMMA OrderedUnique ==
    ASSUME NEW s \in Seq(Id), NEW t \in Seq(Id), Ordered(s), Ordered(t), ToSet(s) = ToSet(t)
    PROVE  s = t
<1> DEFINE R == {p \in Id \X Id : SiblingBefore(p[1], p[2])}
<1>1. \A a \in Id, b \in Id : <<a, b>> \in R <=> SiblingBefore(a, b)
  OBVIOUS
<1>2. Asymmetric(R)
  <2> SUFFICES ASSUME NEW a, NEW b, <<a, b>> \in R, <<b, a>> \in R PROVE FALSE
    BY DEF Asymmetric
  <2>1. a \in Id /\ b \in Id /\ SiblingBefore(a, b) /\ SiblingBefore(b, a)  OBVIOUS
  <2>2. QED BY <2>1, SiblingOrder
<1> HIDE DEF R
<1>3. SortedBy(s, R) /\ SortedBy(t, R)
  <2>1. (\A i \in DOMAIN s : s[i] \in Id) /\ \A i \in DOMAIN t : t[i] \in Id  OBVIOUS
  <2>2. QED BY <1>1, <2>1 DEF Ordered, SortedBy
<1>4. QED BY <1>2, <1>3, SortedUnique

\* insertChild keeps the order, and puts a child that comes before all others first.
LEMMA InsertChildIs ==
    ASSUME NEW K \in SUBSET Id, NEW kids \in Seq(K), Ordered(kids), NEW id \in Id, id \notin ToSet(kids)
    PROVE  /\ InsertChild(kids, id) \in Seq(K \cup {id})
           /\ Ordered(InsertChild(kids, id))
           /\ ToSet(InsertChild(kids, id)) = ToSet(kids) \cup {id}
           /\ (\A k \in ToSet(kids) : SiblingBefore(id, k)) => InsertChild(kids, id) = <<id>> \o kids
<1> DEFINE n == Len(kids)
           before == {i \in DOMAIN kids : SiblingBefore(kids[i], id)}
           J == {j \in DOMAIN kids : 1 .. j \subseteq before}
           m == Cardinality(J)
           new == InsertAt(kids, m + 1, id)
           M == K \cup {id}
<1>1. n \in Nat /\ DOMAIN kids = 1 .. n /\ \A i \in 1 .. n : kids[i] \in K /\ kids[i] \in Id /\ kids[i] # id
  BY DEF ToSet
<1>2. InsertChild(kids, id) = new
  BY DEF InsertChild
<1>3. m \in 0 .. n /\ J = 1 .. m
  <2>1. J \in SUBSET (1 .. n) /\ \A j \in J : 1 .. j \subseteq J  BY <1>1
  <2> HIDE DEF J
  <2>2. QED BY <1>1, <2>1, Initial
<1> HIDE DEF m
<1>4. \A i \in 1 .. m : SiblingBefore(kids[i], id)
  BY <1>1, <1>3
<1>5. m + 1 \in 1 .. n => SiblingBefore(id, kids[m + 1])
  <2> SUFFICES ASSUME m + 1 \in 1 .. n PROVE SiblingBefore(id, kids[m + 1])
    OBVIOUS
  <2>1. m + 1 \notin J
    <3> HIDE DEF J
    <3>1. QED BY <1>3
  <2>2. m + 1 \notin before
    <3>1. 1 .. m \subseteq before  BY <1>1, <1>3, <1>4
    <3>2. 1 .. m + 1 = (1 .. m) \cup {m + 1}
      <4>1. m \in Nat  BY <1>3
      <4>2. QED BY <4>1
    <3>3. QED BY <1>1, <2>1, <3>1, <3>2
  <2>3. ~ SiblingBefore(kids[m + 1], id)  BY <1>1, <2>2
  <2>4. QED BY <1>1, <2>3, SiblingOrder
<1> HIDE DEF J
<1>6. \A i \in 1 .. n : i > m => SiblingBefore(id, kids[i])
  <2> SUFFICES ASSUME NEW i \in 1 .. n, i > m + 1 PROVE SiblingBefore(id, kids[i])
    BY <1>3, <1>5
  <2>1. m + 1 \in 1 .. n  BY <1>3
  <2>2. SiblingBefore(id, kids[m + 1]) /\ SiblingBefore(kids[m + 1], kids[i])
    BY <1>1, <1>5, <2>1 DEF Ordered
  <2>3. QED BY <1>1, <2>1, <2>2, SiblingOrder
<1>7. /\ new \in Seq(M) /\ Len(new) = n + 1 /\ DOMAIN new = 1 .. n + 1
      /\ \A j \in 1 .. n + 1 : new[j] = IF j < m + 1 THEN kids[j] ELSE IF j = m + 1 THEN id ELSE kids[j - 1]
  <2>1. kids \in Seq(M) /\ id \in M /\ m + 1 \in 1 .. n + 1  BY <1>1, <1>3
  <2> HIDE DEF M
  <2>2. new \in Seq(M) /\ InsertedAt(new, kids, m + 1, id)
    BY <2>1, InsertAtIs
  <2>3. QED BY <2>2 DEF InsertedAt
<1> HIDE DEF new
<1>8. Ordered(new)
  <2> SUFFICES ASSUME NEW i \in 1 .. n + 1, NEW j \in 1 .. n + 1, i < j
               PROVE  SiblingBefore(new[i], new[j])
    BY <1>7 DEF Ordered
  <2>1. CASE j < m + 1
    <3>1. i < m + 1 /\ i \in 1 .. n /\ j \in 1 .. n  BY <2>1, <1>1, <1>3
    <3>2. new[i] = kids[i] /\ new[j] = kids[j]  BY <2>1, <3>1, <1>7
    <3>3. i \in DOMAIN kids /\ j \in DOMAIN kids /\ Ordered(kids)  BY <3>1, <1>1
    <3>4. SiblingBefore(kids[i], kids[j])  BY <3>3 DEF Ordered
    <3>5. QED BY <3>2, <3>4
  <2>2. CASE j = m + 1
    <3>1. i \in 1 .. m /\ i < m + 1 /\ ~(j < m + 1)  BY <2>2, <1>3
    <3>2. new[i] = kids[i] /\ new[j] = id  BY <2>2, <3>1, <1>7
    <3>3. SiblingBefore(kids[i], id)  BY <3>1, <1>4
    <3>4. QED BY <3>2, <3>3
  <2>3. CASE j > m + 1 /\ i = m + 1
    <3>1. j - 1 \in 1 .. n /\ j - 1 > m  BY <2>3, <1>3, <1>1
    <3>2. new[i] = id /\ new[j] = kids[j - 1]  BY <2>3, <1>3, <1>7
    <3>3. QED BY <3>1, <3>2, <1>6
  <2>4. CASE j > m + 1 /\ i < m + 1
    <3>1. j - 1 \in 1 .. n /\ i \in 1 .. n /\ i < j - 1  BY <2>4, <1>3, <1>1
    <3>2. new[i] = kids[i] /\ new[j] = kids[j - 1]  BY <2>4, <1>3, <1>7
    <3>3. QED BY <3>1, <3>2, <1>1 DEF Ordered
  <2>5. CASE i > m + 1
    <3>1. j - 1 \in 1 .. n /\ i - 1 \in 1 .. n /\ i - 1 < j - 1  BY <2>5, <1>3, <1>1
    <3>2. new[i] = kids[i - 1] /\ new[j] = kids[j - 1]  BY <2>5, <1>3, <1>7
    <3>3. QED BY <3>1, <3>2, <1>1 DEF Ordered
  <2>6. QED BY <2>1, <2>2, <2>3, <2>4, <2>5, <1>3
<1>9. ToSet(new) = ToSet(kids) \cup {id}
  <2>1. ASSUME NEW j \in 1 .. n + 1 PROVE new[j] \in ToSet(kids) \cup {id}
    <3>1. CASE j < m + 1
      <4>1. j \in 1 .. n  BY <3>1, <1>3, <1>1
      <4>2. QED BY <4>1, <3>1, <1>1, <1>7 DEF ToSet
    <3>2. CASE j = m + 1  BY <3>2, <1>3, <1>7
    <3>3. CASE j > m + 1
      <4>1. j - 1 \in 1 .. n  BY <3>3, <1>3, <1>1
      <4>2. QED BY <4>1, <3>3, <1>1, <1>3, <1>7 DEF ToSet
    <3>4. QED BY <3>1, <3>2, <3>3, <1>3
  <2>2. id \in ToSet(new)
    <3>1. m + 1 \in 1 .. n + 1 /\ new[m + 1] = id  BY <1>1, <1>3, <1>7
    <3>2. QED BY <3>1, <1>7 DEF ToSet
  <2>3. ASSUME NEW j \in 1 .. n PROVE kids[j] \in ToSet(new)
    <3>1. CASE j < m + 1
      <4>1. j \in 1 .. n + 1 /\ new[j] = kids[j]  BY <3>1, <1>1, <1>3, <1>7
      <4>2. QED BY <4>1, <1>7 DEF ToSet
    <3>2. CASE j >= m + 1
      <4>1. j + 1 \in 1 .. n + 1 /\ new[j + 1] = kids[(j + 1) - 1] /\ (j + 1) - 1 = j
        BY <3>2, <1>1, <1>3, <1>7
      <4>2. QED BY <4>1, <1>7 DEF ToSet
    <3>3. QED BY <3>1, <3>2, <1>3
  <2>4. QED BY <2>1, <2>2, <2>3, <1>1, <1>7 DEF ToSet
<1>10. ASSUME \A k \in ToSet(kids) : SiblingBefore(id, k) PROVE new = <<id>> \o kids
  <2>1. m = 0
    <3> SUFFICES ASSUME m # 0 PROVE FALSE
      OBVIOUS
    <3>1. 1 \in 1 .. m /\ 1 \in 1 .. n  BY <1>1, <1>3
    <3>2. SiblingBefore(kids[1], id) /\ SiblingBefore(id, kids[1])
      BY <1>1, <1>4, <1>10, <3>1 DEF ToSet
    <3>3. QED BY <1>1, <3>1, <3>2, SiblingOrder
  <2>2. <<id>> \in Seq(M) /\ kids \in Seq(M) /\ Len(<<id>>) = 1 /\ <<id>>[1] = id  OBVIOUS
  <2> HIDE DEF M
  <2>3. /\ <<id>> \o kids \in Seq(M) /\ Len(<<id>> \o kids) = Len(<<id>>) + Len(kids)
        /\ \A i \in 1 .. Len(<<id>>) + Len(kids) :
              (<<id>> \o kids)[i] = IF i <= Len(<<id>>) THEN <<id>>[i] ELSE kids[i - Len(<<id>>)]
    BY <2>2, ConcatIs
  <2>4. ASSUME NEW i \in 1 .. n + 1 PROVE new[i] = (<<id>> \o kids)[i]
    BY <1>1, <1>7, <2>1, <2>2, <2>3
  <2>5. Len(new) = Len(<<id>> \o kids)  BY <1>1, <1>7, <2>2, <2>3
  <2>6. QED BY <1>7, <2>3, <2>4, <2>5, SameSequence
<1>11. QED BY <1>2, <1>7, <1>8, <1>9, <1>10

LEMMA InsertedKeeps ==
    ASSUME NEW s, Len(s) \in Nat, DOMAIN s = 1 .. Len(s), NEW i \in 1 .. Len(s) + 1,
           NEW e, NEW new, InsertedAt(new, s, i, e)
    PROVE  /\ ToSet(new) = ToSet(s) \cup {e}
           /\ Distinct(s) /\ e \notin ToSet(s) => Distinct(new)
<1> DEFINE n == Len(s)
<1>1. /\ n \in Nat /\ DOMAIN s = 1 .. n /\ Len(new) = n + 1 /\ DOMAIN new = 1 .. n + 1
      /\ \A j \in 1 .. n + 1 : new[j] = IF j < i THEN s[j] ELSE IF j = i THEN e ELSE s[j - 1]
  BY DEF InsertedAt
<1> HIDE DEF n
<1>2. ASSUME NEW j \in 1 .. n + 1, j # i
      PROVE  \E k \in 1 .. n : new[j] = s[k] /\ k = IF j < i THEN j ELSE j - 1
  <2>1. CASE j < i
    <3>1. j \in 1 .. n /\ new[j] = s[j]  BY <2>1, <1>1 DEF n
    <3>2. QED BY <3>1, <2>1
  <2>2. CASE j > i
    <3>1. j - 1 \in 1 .. n /\ new[j] = s[j - 1]  BY <2>2, <1>1 DEF n
    <3>2. QED BY <3>1, <2>2
  <2>3. QED BY <2>1, <2>2, <1>2
<1>3. i \in 1 .. n + 1 /\ new[i] = e  BY <1>1 DEF n
<1>4. ASSUME NEW k \in 1 .. n PROVE \E j \in 1 .. n + 1 : new[j] = s[k]
  <2>1. CASE k < i
    <3>1. k \in 1 .. n + 1 /\ new[k] = s[k]  BY <2>1, <1>1
    <3>2. QED BY <3>1
  <2>2. CASE k >= i
    <3>1. k + 1 \in 1 .. n + 1 /\ ~(k + 1 < i) /\ k + 1 # i /\ (k + 1) - 1 = k  BY <2>2, <1>1
    <3>2. new[k + 1] = s[k]  BY <3>1, <1>1
    <3>3. QED BY <3>1, <3>2
  <2>3. QED BY <2>1, <2>2
<1>5. ToSet(new) = ToSet(s) \cup {e}
  <2>1. \A j \in 1 .. n + 1 : new[j] = e \/ \E k \in 1 .. n : new[j] = s[k]
    BY <1>2, <1>3
  <2>2. ToSet(new) = {new[j] : j \in 1 .. n + 1} /\ ToSet(s) = {s[k] : k \in 1 .. n}
    BY <1>1 DEF ToSet
  <2>3. QED BY <1>3, <1>4, <2>1, <2>2
<1>6. ASSUME Distinct(s), e \notin ToSet(s) PROVE Distinct(new)
  <2> SUFFICES ASSUME NEW a \in 1 .. n + 1, NEW b \in 1 .. n + 1, a < b PROVE new[a] # new[b]
    BY <1>1 DEF Distinct
  <2>1. \A k \in 1 .. n : s[k] # e  BY <1>1, <1>6 DEF ToSet
  <2>2. CASE a = i
    <3>1. b # i  BY <2>2
    <3>2. QED BY <2>1, <2>2, <3>1, <1>2, <1>3
  <2>3. CASE b = i
    <3>1. a # i  BY <2>3
    <3>2. QED BY <2>1, <2>3, <3>1, <1>2, <1>3
  <2>4. CASE a # i /\ b # i
    <3>1. PICK k \in 1 .. n : new[a] = s[k] /\ k = IF a < i THEN a ELSE a - 1  BY <2>4, <1>2
    <3>2. PICK l \in 1 .. n : new[b] = s[l] /\ l = IF b < i THEN b ELSE b - 1  BY <2>4, <1>2
    <3>3. k # l  BY <3>1, <3>2, <2>4
    <3>4. s[k] # s[l]  BY <3>3, <1>6 DEF Distinct, n
    <3>5. QED BY <3>1, <3>2, <3>4
  <2>5. QED BY <2>2, <2>3, <2>4
<1>7. QED BY <1>5, <1>6

\* insertChild among any children: no child comes twice, and one with a higher clock
\* than all others comes first.
LEMMA InsertChildAny ==
    ASSUME NEW K \in SUBSET Id, NEW kids \in Seq(K), Distinct(kids), NEW id \in Id, id \notin ToSet(kids)
    PROVE  /\ InsertChild(kids, id) \in Seq(K \cup {id})
           /\ Distinct(InsertChild(kids, id))
           /\ ToSet(InsertChild(kids, id)) = ToSet(kids) \cup {id}
           /\ (\A k \in ToSet(kids) : k.clock < id.clock) => InsertChild(kids, id) = <<id>> \o kids
<1> DEFINE n == Len(kids)
           before == {i \in DOMAIN kids : SiblingBefore(kids[i], id)}
           J == {j \in DOMAIN kids : 1 .. j \subseteq before}
           m == Cardinality(J)
           new == InsertAt(kids, m + 1, id)
           M == K \cup {id}
<1>1. n \in Nat /\ DOMAIN kids = 1 .. n /\ \A i \in 1 .. n : kids[i] \in K /\ kids[i] \in Id /\ kids[i] # id
  BY DEF ToSet
<1>2. InsertChild(kids, id) = new
  BY DEF InsertChild
<1>3. m \in 0 .. n /\ J = 1 .. m
  <2>1. J \in SUBSET (1 .. n) /\ \A j \in J : 1 .. j \subseteq J  BY <1>1
  <2> HIDE DEF J
  <2>2. QED BY <1>1, <2>1, Initial
<1> HIDE DEF m
<1>4. \A i \in 1 .. m : SiblingBefore(kids[i], id)
  BY <1>1, <1>3
<1> HIDE DEF J
<1>5. new \in Seq(M) /\ InsertedAt(new, kids, m + 1, id)
  <2>1. kids \in Seq(M) /\ id \in M /\ m + 1 \in 1 .. n + 1  BY <1>1, <1>3
  <2> HIDE DEF M
  <2>2. QED BY <2>1, InsertAtIs
<1> HIDE DEF new
<1>6. Distinct(new) /\ ToSet(new) = ToSet(kids) \cup {id}
  <2>1. m + 1 \in 1 .. n + 1  BY <1>1, <1>3
  <2>2. QED BY <1>1, <1>5, <2>1, InsertedKeeps
<1>7. ASSUME \A k \in ToSet(kids) : k.clock < id.clock PROVE new = <<id>> \o kids
  <2>1. m = 0
    <3> SUFFICES ASSUME m # 0 PROVE FALSE
      OBVIOUS
    <3>1. 1 \in 1 .. m /\ 1 \in 1 .. n  BY <1>1, <1>3
    <3>2. SiblingBefore(kids[1], id) /\ kids[1].clock < id.clock
      BY <1>1, <1>4, <1>7, <3>1 DEF ToSet
    <3>3. kids[1].clock \in Nat /\ id.clock \in Nat  BY <1>1, <3>1 DEF Id
    <3>4. QED BY <3>2, <3>3 DEF SiblingBefore
  <2>2. <<id>> \in Seq(M) /\ kids \in Seq(M) /\ Len(<<id>>) = 1 /\ <<id>>[1] = id  OBVIOUS
  <2> HIDE DEF M
  <2>3. /\ <<id>> \o kids \in Seq(M) /\ Len(<<id>> \o kids) = Len(<<id>>) + Len(kids)
        /\ \A i \in 1 .. Len(<<id>>) + Len(kids) :
              (<<id>> \o kids)[i] = IF i <= Len(<<id>>) THEN <<id>>[i] ELSE kids[i - Len(<<id>>)]
    BY <2>2, ConcatIs
  <2>4. ASSUME NEW i \in 1 .. n + 1 PROVE new[i] = (<<id>> \o kids)[i]
    BY <1>1, <1>5, <2>1, <2>2, <2>3 DEF InsertedAt
  <2>5. Len(new) = n + 1 /\ Len(<<id>> \o kids) = n + 1  BY <1>1, <1>5, <2>2, <2>3 DEF InsertedAt
  <2>6. QED BY <1>1, <1>5, <2>3, <2>4, <2>5, SameSequence
<1>8. QED BY <1>2, <1>5, <1>6, <1>7

-----------------------------------------------------------------------------
(* Documents with characters of C                                          *)

ItemType(K, C) == [after : K \cup {Root}, ch : C, del : BOOLEAN]
Parent(d, id) == d.items[id].after

TreeOf(K, C) == [items : [K -> ItemType(K, C)], children : [K \cup {Root} -> Seq(K)]]

\* What every document is, whatever the clocks of its characters: the children of each
\* are those that name it.
WellBuilt(d) ==
    /\ IsFiniteSet(Known(d))
    /\ \A p \in Known(d) \cup {Root} : Distinct(d.children[p])
    /\ \A p \in Known(d) \cup {Root} :
          ToSet(d.children[p]) = {id \in Known(d) : Parent(d, id) = p}

\* Characters hang on older ones, and the newer siblings come first.
WellFormed(d) ==
    /\ IsFiniteSet(Known(d))
    /\ \A id \in Known(d) : Parent(d, id).clock < id.clock
    /\ \A p \in Known(d) \cup {Root} : Ordered(d.children[p])
    /\ \A p \in Known(d) \cup {Root} :
          ToSet(d.children[p]) = {id \in Known(d) : Parent(d, id) = p}

Tree(C) == {d \in UNION {TreeOf(K, C) : K \in SUBSET Id} : WellBuilt(d)}
Doc(C) == {d \in UNION {TreeOf(K, C) : K \in SUBSET Id} : WellFormed(d)}

LEMMA TreeIs ==
    ASSUME NEW C, NEW d \in Tree(C)
    PROVE  /\ Known(d) \in SUBSET Id /\ IsFiniteSet(Known(d)) /\ Root \notin Known(d)
           /\ d \in TreeOf(Known(d), C) /\ WellBuilt(d)
<1>1. PICK K \in SUBSET Id : d \in TreeOf(K, C)  BY DEF Tree
<1>2. Known(d) = K  BY <1>1 DEF TreeOf, Known
<1>3. Root \notin Id  BY DEF Root, Id
<1>4. QED BY <1>1, <1>2, <1>3 DEF Tree, WellBuilt

LEMMA TreeMade ==
    ASSUME NEW C, NEW K \in SUBSET Id, NEW d \in TreeOf(K, C), WellBuilt(d)
    PROVE  d \in Tree(C) /\ Known(d) = K
BY DEF Tree, TreeOf, Known

LEMMA DocIs ==
    ASSUME NEW C, NEW d \in Doc(C)
    PROVE  /\ Known(d) \in SUBSET Id /\ IsFiniteSet(Known(d)) /\ Root \notin Known(d)
           /\ d \in TreeOf(Known(d), C) /\ WellFormed(d)
<1>1. PICK K \in SUBSET Id : d \in TreeOf(K, C)  BY DEF Doc
<1>2. Known(d) = K  BY <1>1 DEF TreeOf, Known
<1>3. Root \notin Id  BY DEF Root, Id
<1>4. QED BY <1>1, <1>2, <1>3 DEF Doc, WellFormed

LEMMA DocIsTree ==
    ASSUME NEW C, NEW d \in Doc(C)
    PROVE  d \in Tree(C)
<1> DEFINE K == Known(d)
<1>1. K \in SUBSET Id /\ d \in TreeOf(K, C) /\ WellFormed(d)  BY DocIs
<1>2. ASSUME NEW p \in K \cup {Root} PROVE Distinct(d.children[p])
  <2> DEFINE s == d.children[p]
  <2>1. s \in Seq(Id) /\ Ordered(s)
    <3>1. s \in Seq(K)  BY <1>1 DEF TreeOf
    <3>2. QED BY <3>1, <1>1 DEF WellFormed
  <2> HIDE DEF s
  <2>2. SUFFICES ASSUME NEW i \in 1 .. Len(s), NEW j \in 1 .. Len(s), i # j PROVE s[i] # s[j]
    BY DEF Distinct, s
  <2>3. /\ DOMAIN s = 1 .. Len(s) /\ s[i] \in Id /\ s[j] \in Id
        /\ (i < j \/ j < i)
    BY <2>1, <2>2
  <2>4. SiblingBefore(s[i], s[j]) \/ SiblingBefore(s[j], s[i])  BY <2>1, <2>3 DEF Ordered
  <2>5. ~SiblingBefore(s[i], s[i])  BY <2>3, SiblingOrder
  <2>6. QED BY <2>4, <2>5
<1>3. WellBuilt(d)  BY <1>1, <1>2 DEF WellFormed, WellBuilt
<1>4. QED BY <1>1, <1>3, TreeMade

LEMMA DocMade ==
    ASSUME NEW C, NEW K \in SUBSET Id, NEW d \in TreeOf(K, C), WellFormed(d)
    PROVE  d \in Doc(C) /\ Known(d) = K
BY DEF Doc, TreeOf, Known

LEMMA NewDocIsDoc ==
    ASSUME NEW C
    PROVE  NewDoc \in Doc(C) /\ Known(NewDoc) = {}
<1>1. NewDoc.items = << >> /\ NewDoc.children = [p \in {Root} |-> << >>]
  BY DEF NewDoc
<1>2. DOMAIN << >> = {} /\ << >> \in [{} -> ItemType({}, C)]
  OBVIOUS
<1>3. Known(NewDoc) = {}
  BY <1>1, <1>2 DEF Known
<1>4. NewDoc \in TreeOf({}, C)
  <2>1. << >> \in Seq({})  OBVIOUS
  <2>2. [p \in {Root} |-> << >>] \in [{} \cup {Root} -> Seq({})]  BY <2>1
  <2>3. QED BY <1>2, <2>2 DEF NewDoc, TreeOf
<1>5. WellFormed(NewDoc)
  <2>1. \A p \in {Root} : NewDoc.children[p] = << >>  BY <1>1
  <2>2. ToSet(<< >>) = {} /\ Ordered(<< >>)  BY DEF ToSet, Ordered
  <2>3. IsFiniteSet({})  BY FS_EmptySet
  <2>4. QED BY <1>3, <2>1, <2>2, <2>3 DEF WellFormed
<1>6. QED BY <1>3, <1>4, <1>5, DocMade

\* A document is given by its items.
LEMMA DocUnique ==
    ASSUME NEW C, NEW d \in Doc(C), NEW e \in Doc(C), d.items = e.items
    PROVE  d = e
<1> DEFINE K == Known(d)
<1>1. /\ K \in SUBSET Id /\ d \in TreeOf(K, C) /\ WellFormed(d)
      /\ K = Known(e) /\ e \in TreeOf(K, C) /\ WellFormed(e)
  BY DocIs DEF Known
<1> HIDE DEF K
<1>2. /\ d.children \in [K \cup {Root} -> Seq(K)] /\ e.children \in [K \cup {Root} -> Seq(K)]
      /\ d = [items |-> d.items, children |-> d.children]
      /\ e = [items |-> e.items, children |-> e.children]
  BY <1>1 DEF TreeOf
<1>3. ASSUME NEW p \in K \cup {Root} PROVE d.children[p] = e.children[p]
  <2> DEFINE s == d.children[p]
             t == e.children[p]
  <2>1. s \in Seq(Id) /\ t \in Seq(Id)
    <3>1. s \in Seq(K) /\ t \in Seq(K)  BY <1>2
    <3>2. QED BY <3>1, <1>1
  <2>2. Ordered(s) /\ Ordered(t) /\ ToSet(s) = ToSet(t)
    BY <1>1 DEF WellFormed, Parent, K
  <2> HIDE DEF s, t
  <2>3. s = t  BY <2>1, <2>2, OrderedUnique
  <2>4. QED BY <2>3 DEF s, t
<1>4. d.children = e.children
  BY <1>2, <1>3
<1>5. QED BY <1>2, <1>4

\* Insert adds a character that is not known yet, below one that is.
Added(d, id, after, ch) ==
    [items |-> With(d.items, id, [after |-> after, ch |-> ch, del |-> FALSE]),
     children |-> With([d.children EXCEPT ![after] = InsertChild(@, id)], id, << >>)]

GrownBy(e, d, id, after, ch) ==
    /\ Known(e) = Known(d) \cup {id}
    /\ e.items[id] = [after |-> after, ch |-> ch, del |-> FALSE]
    /\ \A k \in Known(d) : e.items[k] = d.items[k]
    /\ \A p \in Known(d) \cup {Root} :
          e.children[p] = IF p = after THEN InsertChild(d.children[p], id) ELSE d.children[p]
    /\ e.children[id] = << >>

BuriedAt(e, d, id) ==
    /\ Known(e) = Known(d)
    /\ e.children = d.children
    /\ \A k \in Known(d) : e.items[k] =
          IF k = id THEN [after |-> d.items[k].after, ch |-> d.items[k].ch, del |-> TRUE]
          ELSE d.items[k]

LEMMA GrownIs ==
    ASSUME NEW C, NEW d \in Tree(C), NEW id \in Id, id \notin Known(d),
           NEW after \in Known(d) \cup {Root}, NEW ch \in C
    PROVE  Added(d, id, after, ch) \in Tree(C) /\ GrownBy(Added(d, id, after, ch), d, id, after, ch)
<1> DEFINE K == Known(d)
           L == K \cup {id}
           item == [after |-> after, ch |-> ch, del |-> FALSE]
           e == Added(d, id, after, ch)
<1>1. /\ K \in SUBSET Id /\ IsFiniteSet(K) /\ d \in TreeOf(K, C) /\ WellBuilt(d)
      /\ Root \notin Id
  BY TreeIs DEF Root, Id
<1>2. d.items \in [K -> ItemType(K, C)] /\ d.children \in [K \cup {Root} -> Seq(K)]
  BY <1>1 DEF TreeOf
<1>3. e.items = With(d.items, id, item)
      /\ e.children = With([d.children EXCEPT ![after] = InsertChild(@, id)], id, << >>)
      /\ e = [items |-> e.items, children |-> e.children]
  BY DEF Added
<1>5. DOMAIN e.items = L /\ e.items[id] = item /\ \A k \in K : e.items[k] = d.items[k]
  BY <1>2, <1>3 DEF With
<1> HIDE DEF K
<1>6. DOMAIN e.children = L \cup {Root} /\ e.children[id] = << >>
      /\ \A p \in K \cup {Root} : e.children[p] =
             IF p = after THEN InsertChild(d.children[p], id) ELSE d.children[p]
  BY <1>1, <1>2, <1>3 DEF With, K
<1>7. Known(e) = L  BY <1>5 DEF Known
<1> HIDE DEF e
<1>8. /\ InsertChild(d.children[after], id) \in Seq(L)
      /\ Distinct(InsertChild(d.children[after], id))
      /\ ToSet(InsertChild(d.children[after], id)) = ToSet(d.children[after]) \cup {id}
  <2> DEFINE kids == d.children[after]
  <2>1. kids \in Seq(K) /\ Distinct(kids) /\ id \notin ToSet(kids)
    BY <1>1, <1>2 DEF WellBuilt, K
  <2> HIDE DEF kids
  <2>2. /\ InsertChild(kids, id) \in Seq(K \cup {id}) /\ Distinct(InsertChild(kids, id))
        /\ ToSet(InsertChild(kids, id)) = ToSet(kids) \cup {id}
    BY <1>1, <2>1, InsertChildAny
  <2>3. QED BY <2>2 DEF kids
<1>9. e \in TreeOf(L, C)
  <2>1. e.items \in [L -> ItemType(L, C)]
    <3>1. item \in ItemType(L, C)  BY DEF ItemType, K
    <3>2. ItemType(K, C) \subseteq ItemType(L, C)  BY DEF ItemType
    <3>3. ASSUME NEW k \in L PROVE e.items[k] \in ItemType(L, C)
      BY <1>2, <1>5, <3>1, <3>2
    <3>4. e.items = [k \in L |-> e.items[k]]
      BY <1>2, <1>3, <1>5 DEF With, K
    <3>5. QED BY <3>3, <3>4
  <2>2. e.children \in [L \cup {Root} -> Seq(L)]
    <3>1. ASSUME NEW p \in L \cup {Root} PROVE e.children[p] \in Seq(L)
      <4>1. CASE p = id  BY <4>1, <1>6
      <4>2. CASE p \in K \cup {Root}
        <5>1. d.children[p] \in Seq(K)  BY <1>2, <4>2
        <5>2. d.children[p] \in Seq(L)  BY <5>1
        <5>3. QED BY <5>2, <4>2, <1>6, <1>8
      <4>3. QED BY <4>1, <4>2
    <3>2. e.children = [p \in L \cup {Root} |-> e.children[p]]
      BY <1>3, <1>6 DEF With
    <3>3. QED BY <3>1, <3>2
  <2>3. QED BY <1>3, <2>1, <2>2 DEF TreeOf
<1>10. WellBuilt(e)
  <2>1. IsFiniteSet(L)  BY <1>1, FS_AddElement
  <2>2. ASSUME NEW p \in L \cup {Root}
        PROVE  Distinct(e.children[p]) /\ ToSet(e.children[p]) = {k \in L : Parent(e, k) = p}
    <3>1. CASE p = id
      <4>1. e.children[p] = << >> /\ Distinct(<< >>) /\ ToSet(<< >>) = {}
        BY <3>1, <1>6 DEF Distinct, ToSet
      <4>2. ASSUME NEW k \in K PROVE Parent(e, k) # id
        <5>1. Parent(e, k) = Parent(d, k) /\ Parent(d, k) \in K \cup {Root}
          BY <1>2, <1>5 DEF Parent, ItemType
        <5>2. QED BY <5>1, <1>1 DEF K
      <4>3. Parent(e, id) # id
        BY <1>5, <1>1 DEF Parent, K
      <4>4. QED BY <3>1, <4>1, <4>2, <4>3
    <3>2. CASE p \in K \cup {Root}
      <4>1. Distinct(d.children[p]) /\ ToSet(d.children[p]) = {k \in K : Parent(d, k) = p}
        BY <3>2, <1>1 DEF WellBuilt, K
      <4>2. \A k \in K : Parent(e, k) = Parent(d, k)  BY <1>5 DEF Parent
      <4>3. Parent(e, id) = after  BY <1>5 DEF Parent
      <4>4. CASE p = after
        BY <3>2, <4>1, <4>2, <4>3, <4>4, <1>6, <1>8
      <4>5. CASE p # after
        BY <3>2, <4>1, <4>2, <4>3, <4>5, <1>6
      <4>6. QED BY <4>4, <4>5
    <3>3. QED BY <3>1, <3>2
  <2>3. QED BY <1>7, <2>1, <2>2 DEF WellBuilt
<1>11. e \in Tree(C)
  <2>1. L \in SUBSET Id  BY <1>1
  <2> HIDE DEF L
  <2>2. QED BY <2>1, <1>9, <1>10, TreeMade
<1>12. GrownBy(e, d, id, after, ch)  BY <1>5, <1>6, <1>7 DEF K, GrownBy
<1>13. QED BY <1>11, <1>12 DEF e

\* Delete buries a character and leaves the tree as it is.
LEMMA Buried ==
    ASSUME NEW A, NEW C, NEW r \in [after : A, ch : C, del : BOOLEAN], NEW b \in BOOLEAN
    PROVE  [r EXCEPT !.del = b] = [after |-> r.after, ch |-> r.ch, del |-> b]
OBVIOUS

LEMMA BuriedIs ==
    ASSUME NEW C, NEW d \in Tree(C), NEW id
    PROVE  Delete(d, id) \in Tree(C) /\ BuriedAt(Delete(d, id), d, id)
<1> DEFINE K == Known(d)
           e == Delete(d, id)
           item == [after |-> d.items[id].after, ch |-> d.items[id].ch, del |-> TRUE]
<1>1. K \in SUBSET Id /\ d \in TreeOf(K, C) /\ WellBuilt(d)
  BY TreeIs
<1>2. /\ d.items \in [K -> ItemType(K, C)] /\ d.children \in [K \cup {Root} -> Seq(K)]
      /\ d = [items |-> d.items, children |-> d.children]
  BY <1>1 DEF TreeOf
<1>3. \A k \in K : /\ d.items[k] = [after |-> d.items[k].after, ch |-> d.items[k].ch,
                                     del |-> d.items[k].del]
                   /\ d.items[k].del \in BOOLEAN /\ d.items[k].after \in K \cup {Root}
                   /\ d.items[k].ch \in C
  BY <1>2 DEF ItemType
<1>4. CASE id \notin K
  <2>1. e = d  BY <1>4 DEF Delete
  <2>2. QED BY <2>1, <1>3, <1>4 DEF BuriedAt
<1>5. CASE id \in K
  <2>1. e = [items |-> [d.items EXCEPT ![id] = item], children |-> d.children]
    <3>1. e = [items |-> [d.items EXCEPT ![id].del = TRUE], children |-> d.children]
      <4>1. e = [d EXCEPT !.items[id].del = TRUE]  BY <1>5 DEF Delete
      <4>2. QED BY <4>1, <1>2
    <3>2. [d.items[id] EXCEPT !.del = TRUE] = item
      <4>1. d.items[id] \in ItemType(K, C)  BY <1>2, <1>5
      <4>2. QED BY <4>1, Buried DEF ItemType
    <3>3. [d.items EXCEPT ![id].del = TRUE] = [d.items EXCEPT ![id] = item]
      <4> DEFINE items == d.items
      <4>1. [items EXCEPT ![id].del = TRUE] = [items EXCEPT ![id] = [items[id] EXCEPT !.del = TRUE]]
        OBVIOUS
      <4>2. QED BY <3>2, <4>1
    <3>4. QED BY <3>1, <3>3
  <2>2. item \in ItemType(K, C)  BY <1>3, <1>5 DEF ItemType
  <2>3. e \in TreeOf(K, C) /\ e.children = d.children /\ Known(e) = K
    <3> HIDE DEF e, K, item
    <3>1. e.items = [d.items EXCEPT ![id] = item] /\ e.children = d.children
      BY <2>1
    <3>2. e.items \in [K -> ItemType(K, C)]  BY <1>2, <2>2, <3>1
    <3>3. DOMAIN e.items = K  BY <3>2
    <3>4. QED BY <1>2, <2>1, <3>1, <3>2, <3>3 DEF TreeOf, Known
  <2>4. \A k \in K : e.items[k] = IF k = id THEN item ELSE d.items[k]
    BY <1>2, <2>1
  <2>5. \A k \in K : Parent(e, k) = Parent(d, k)
    BY <2>4 DEF Parent
  <2>6. WellBuilt(e)
    <3> HIDE DEF e
    <3>1. QED BY <1>1, <2>3, <2>5 DEF WellBuilt
  <2>7. e \in Tree(C)
    <3> HIDE DEF e, K
    <3>1. QED BY <1>1, <2>3, <2>6, TreeMade
  <2>8. BuriedAt(e, d, id)  BY <2>3, <2>4 DEF BuriedAt
  <2>9. QED BY <2>7, <2>8
<1>6. QED BY <1>4, <1>5

\* So it is with documents.
LEMMA AddedIs ==
    ASSUME NEW C, NEW d \in Doc(C), NEW id \in Id, id \notin Known(d),
           NEW after \in Known(d) \cup {Root}, after.clock < id.clock, NEW ch \in C
    PROVE  Added(d, id, after, ch) \in Doc(C) /\ GrownBy(Added(d, id, after, ch), d, id, after, ch)
<1> DEFINE K == Known(d)
           L == K \cup {id}
           e == Added(d, id, after, ch)
<1>1. /\ K \in SUBSET Id /\ d \in TreeOf(K, C) /\ WellFormed(d) /\ d \in Tree(C)
  BY DocIs, DocIsTree
<1>2. e \in Tree(C) /\ GrownBy(e, d, id, after, ch)  BY <1>1, GrownIs
<1> HIDE DEF e
<1>3. /\ Known(e) = L /\ e.items[id] = [after |-> after, ch |-> ch, del |-> FALSE]
      /\ \A k \in K : e.items[k] = d.items[k]
      /\ \A p \in K \cup {Root} :
            e.children[p] = IF p = after THEN InsertChild(d.children[p], id) ELSE d.children[p]
      /\ e.children[id] = << >>
  BY <1>2 DEF GrownBy
<1> HIDE DEF K
<1>4. L \in SUBSET Id /\ e \in TreeOf(L, C) /\ WellBuilt(e)  BY <1>2, <1>3, TreeIs
<1>5. ASSUME NEW k \in L PROVE Parent(e, k).clock < k.clock
  <2>1. CASE k = id  BY <2>1, <1>3 DEF Parent
  <2>2. CASE k \in K
    <3>1. Parent(d, k).clock < k.clock  BY <2>2, <1>1 DEF WellFormed, K
    <3>2. QED BY <3>1, <2>2, <1>3 DEF Parent
  <2>3. QED BY <2>1, <2>2
<1>6. ASSUME NEW p \in L \cup {Root} PROVE Ordered(e.children[p])
  <2>1. CASE p = id
    <3>1. Ordered(<< >>)  BY DEF Ordered
    <3>2. QED BY <2>1, <3>1, <1>3
  <2>2. CASE p \in K \cup {Root}
    <3> DEFINE kids == d.children[p]
    <3>1. kids \in Seq(K) /\ Ordered(kids) /\ id \notin ToSet(kids)
      BY <2>2, <1>1 DEF TreeOf, WellFormed, K
    <3> HIDE DEF kids
    <3>2. Ordered(InsertChild(kids, id))  BY <1>1, <3>1, InsertChildIs
    <3>3. e.children[p] = IF p = after THEN InsertChild(kids, id) ELSE kids  BY <2>2, <1>3 DEF kids
    <3>4. QED BY <3>1, <3>2, <3>3
  <2>3. QED BY <2>1, <2>2
<1>7. WellFormed(e)  BY <1>3, <1>4, <1>5, <1>6 DEF WellFormed, WellBuilt
<1>8. e \in Doc(C)
  <2> HIDE DEF L
  <2>1. QED BY <1>4, <1>7, DocMade
<1>9. QED BY <1>2, <1>8 DEF e

LEMMA DeleteIs ==
    ASSUME NEW C, NEW d \in Doc(C), NEW id
    PROVE  Delete(d, id) \in Doc(C) /\ BuriedAt(Delete(d, id), d, id)
<1> DEFINE K == Known(d)
           e == Delete(d, id)
<1>1. K \in SUBSET Id /\ WellFormed(d) /\ d \in Tree(C)  BY DocIs, DocIsTree
<1>2. e \in Tree(C) /\ BuriedAt(e, d, id)  BY <1>1, BuriedIs
<1> HIDE DEF e
<1>3. Known(e) = K /\ e.children = d.children  BY <1>2 DEF BuriedAt
<1>4. \A k \in K : Parent(e, k) = Parent(d, k)
  <2> SUFFICES ASSUME NEW k \in K PROVE Parent(e, k) = Parent(d, k)
    OBVIOUS
  <2>1. CASE k = id
    <3>1. e.items[k] = [after |-> d.items[k].after, ch |-> d.items[k].ch, del |-> TRUE]
      BY <2>1, <1>2 DEF BuriedAt
    <3>2. QED BY <3>1 DEF Parent
  <2>2. CASE k # id
    <3>1. e.items[k] = d.items[k]  BY <2>2, <1>2 DEF BuriedAt
    <3>2. QED BY <3>1 DEF Parent
  <2>3. QED BY <2>1, <2>2
<1>5. e \in TreeOf(K, C)  BY <1>2, <1>3, TreeIs
<1>6. WellFormed(e)  BY <1>1, <1>3, <1>4 DEF WellFormed
<1>7. e \in Doc(C)
  <2> HIDE DEF K
  <2>1. QED BY <1>1, <1>5, <1>6, DocMade
<1>8. QED BY <1>2, <1>7 DEF e

-----------------------------------------------------------------------------
(* Operations and batches                                                  *)

Op(C) == {op \in [op : {"ins"}, id : Id, after : Id \cup {Root}, ch : C] :
             op.after.clock < op.id.clock}
         \cup [op : {"del"}, id : Id]

\* What can be applied to d: a character below one that is known, or a deletion.
Applicable(d, op) == op.op = "ins" => op.id \in Known(d) \/ op.after \in Known(d) \cup {Root}

\* e is d after op.
Applied(d, op, e) ==
    /\ Known(e) = Known(d) \cup (IF op.op = "ins" THEN {op.id} ELSE {})
    /\ \A k \in Known(d) : /\ e.items[k].after = d.items[k].after /\ e.items[k].ch = d.items[k].ch
                           /\ e.items[k].del <=> (d.items[k].del \/ (op.op = "del" /\ k = op.id))
    /\ op.op = "ins" /\ op.id \notin Known(d) =>
          e.items[op.id] = [after |-> op.after, ch |-> op.ch, del |-> FALSE]

LEMMA ApplyIs ==
    ASSUME NEW C, NEW d \in Doc(C), NEW op \in Op(C)
    PROVE  /\ Apply(d, op).doc \in Doc(C) /\ Apply(d, op).ok \in BOOLEAN
           /\ Apply(d, op) = [doc |-> Apply(d, op).doc, ok |-> Apply(d, op).ok]
           /\ Apply(d, op).ok <=> Applicable(d, op)
           /\ Applicable(d, op) => Applied(d, op, Apply(d, op).doc)
           /\ ~Applicable(d, op) => Apply(d, op).doc = d
<1>1. d.items \in [Known(d) -> ItemType(Known(d), C)]
  BY DocIs DEF TreeOf
<1>2. \A k \in Known(d) : d.items[k].del \in BOOLEAN
  BY <1>1 DEF ItemType
<1>3. CASE op.op = "del"
  <2>1. Apply(d, op) = [doc |-> Delete(d, op.id), ok |-> TRUE]
    <3>1. op.id \in Id  BY <1>3 DEF Op
    <3>2. op.id # Root  BY <3>1 DEF Id, Root
    <3>3. QED BY <1>3, <3>2 DEF Apply
  <2>2. /\ Delete(d, op.id) \in Doc(C) /\ Known(Delete(d, op.id)) = Known(d)
        /\ \A k \in Known(d) : Delete(d, op.id).items[k] =
              IF k = op.id THEN [after |-> d.items[k].after, ch |-> d.items[k].ch, del |-> TRUE]
              ELSE d.items[k]
    BY DeleteIs DEF BuriedAt
  <2>3. Applicable(d, op)  BY <1>3 DEF Applicable
  <2>4. Applied(d, op, Delete(d, op.id))
    <3> DEFINE e == Delete(d, op.id)
    <3>1. ASSUME NEW k \in Known(d)
          PROVE  /\ e.items[k].after = d.items[k].after /\ e.items[k].ch = d.items[k].ch
                 /\ e.items[k].del <=> (d.items[k].del \/ k = op.id)
      <4>1. CASE k = op.id
        <5>1. e.items[k] = [after |-> d.items[k].after, ch |-> d.items[k].ch, del |-> TRUE]
          BY <4>1, <2>2
        <5> HIDE DEF e
        <5>2. QED BY <4>1, <5>1
      <4>2. CASE k # op.id
        <5>1. e.items[k] = d.items[k]  BY <4>2, <2>2
        <5> HIDE DEF e
        <5>2. QED BY <4>2, <5>1
      <4>3. QED BY <4>1, <4>2
    <3>2. Known(e) = Known(d)  BY <2>2
    <3> HIDE DEF e
    <3>3. QED BY <1>3, <3>1, <3>2 DEF Applied, e
  <2>5. QED BY <2>1, <2>2, <2>3, <2>4
<1>4. CASE op.op = "ins" /\ op.id \in Known(d)
  <2>1. Apply(d, op) = [doc |-> d, ok |-> TRUE]
    BY <1>4 DEF Apply, Insert
  <2>2. Applicable(d, op)  BY <1>4 DEF Applicable
  <2>3. Applied(d, op, d)
    BY <1>2, <1>4 DEF Applied
  <2>4. QED BY <2>1, <2>2, <2>3
<1>5. CASE op.op = "ins" /\ op.id \notin Known(d) /\ op.after \notin Known(d) \cup {Root}
  <2>1. Apply(d, op) = [doc |-> d, ok |-> FALSE]
    BY <1>5 DEF Apply, Insert
  <2>2. ~Applicable(d, op)  BY <1>5 DEF Applicable
  <2>3. QED BY <2>1, <2>2
<1>6. CASE op.op = "ins" /\ op.id \notin Known(d) /\ op.after \in Known(d) \cup {Root}
  <2> DEFINE e == Added(d, op.id, op.after, op.ch)
  <2>1. Apply(d, op) = [doc |-> e, ok |-> TRUE]
    BY <1>6 DEF Apply, Insert, Added
  <2>2. op.id \in Id /\ op.ch \in C /\ op.after.clock < op.id.clock
    BY <1>6 DEF Op
  <2>3. /\ e \in Doc(C) /\ Known(e) = Known(d) \cup {op.id}
        /\ e.items[op.id] = [after |-> op.after, ch |-> op.ch, del |-> FALSE]
        /\ \A k \in Known(d) : e.items[k] = d.items[k]
    BY <1>6, <2>2, AddedIs DEF GrownBy
  <2>4. Applicable(d, op)  BY <1>6 DEF Applicable
  <2> HIDE DEF e
  <2>5. Applied(d, op, e)
    BY <1>2, <1>6, <2>3 DEF Applied
  <2>6. QED BY <2>1, <2>3, <2>4, <2>5
<1>7. op.op \in {"ins", "del"}
  BY DEF Op
<1>8. QED BY <1>3, <1>4, <1>5, <1>6, <1>7

\* A batch is applied operation after operation: there is a run of it.
Outcome(D) == [doc : D, ok : BOOLEAN]
BatchRun(run, d, ops) ==
    /\ run[0] = [doc |-> d, ok |-> TRUE]
    /\ \A n \in 1 .. Len(ops) : run[n] = ApplyNext(run[n - 1], ops[n])

LEMMA BatchRunsIn ==
    ASSUME NEW D, NEW O, \A r \in Outcome(D), op \in O : ApplyNext(r, op) \in Outcome(D),
           NEW d \in D, NEW ops \in Seq(O)
    PROVE  \E run \in [0 .. Len(ops) -> Outcome(D)] :
              BatchRun(run, d, ops) /\ ApplyBatch(d, ops) = run[Len(ops)]
<1> DEFINE N == Len(ops)
           R == Outcome(D)
           base == [doc |-> d, ok |-> TRUE]
           Loop(k) == k = [n \in 0 .. N |-> IF n = 0 THEN base ELSE ApplyNext(k[n - 1], ops[n])]
           step == [p \in Nat \X R |->
                       IF p[1] \in 1 .. N THEN ApplyNext(p[2], ops[p[1]]) ELSE p[2]]
           res == CHOOSE k : Loop(k)
<1>1. N \in Nat /\ \A n \in 1 .. N : ops[n] \in O
  OBVIOUS
<1>2. base \in R  BY DEF Outcome
<1> HIDE DEF base, N
<1>3. PICK k \in [0 .. N -> R] : Loop(k)
  <2>1. step \in [Nat \X R -> R]
    <3> HIDE DEF R
    <3>1. \A n \in 1 .. N, r \in R : ApplyNext(r, ops[n]) \in R
      BY <1>1 DEF R
    <3>2. QED BY <3>1
  <2>2. \A n \in Nat, r \in R :
            step[<<n, r>>] = IF n \in 1 .. N THEN ApplyNext(r, ops[n]) ELSE r
    OBVIOUS
  <2> HIDE DEF step, R
  <2>3. PICK k \in [0 .. N -> R] : Loops(k, N, base, step)
    BY <1>1, <1>2, <2>1, LoopExists
  <2>4. ASSUME NEW n \in 0 .. N, n # 0 PROVE step[<<n, k[n - 1]>>] = ApplyNext(k[n - 1], ops[n])
    <3>1. n \in Nat /\ n \in 1 .. N /\ n - 1 \in 0 .. N  BY <1>1, <2>4
    <3>2. QED BY <3>1, <2>2
  <2>5. Loop(k)  BY <2>3, <2>4 DEF Loops
  <2>6. QED BY <2>5
<1>4. ApplyBatch(d, ops) = res[N]
  BY DEF ApplyBatch, base, N
<1>5. Loop(res)
  <2> HIDE DEF Loop
  <2>1. QED BY <1>3
<1> HIDE DEF res, R
<1>6. res[0] = base /\ \A n \in 1 .. N : res[n] = ApplyNext(res[n - 1], ops[n])
  BY <1>1, <1>5
<1>7. res \in [0 .. N -> R]
  <2> DEFINE T == {n \in Nat : n <= N => res[n] \in R}
  <2>1. 0 \in T  BY <1>2, <1>6
  <2>2. ASSUME NEW n \in T PROVE n + 1 \in T
    <3> SUFFICES ASSUME n + 1 <= N PROVE res[n + 1] \in R
      OBVIOUS
    <3>1. n + 1 \in 1 .. N /\ (n + 1) - 1 = n /\ res[n] \in R  BY <1>1
    <3>2. res[n + 1] = ApplyNext(res[n], ops[n + 1])  BY <3>1, <1>6
    <3>3. QED BY <3>1, <3>2, <1>1 DEF R
  <2>3. T = Nat
    <3>1. T \in SUBSET Nat  OBVIOUS
    <3> HIDE DEF T
    <3>2. QED BY <2>1, <2>2, <3>1, SetInduction
  <2>4. \A n \in 0 .. N : res[n] \in R  BY <2>3, <1>1
  <2>5. QED BY <2>4, <1>5
<1>8. BatchRun(res, d, ops)
  BY <1>6 DEF BatchRun, base, N
<1>9. QED BY <1>4, <1>7, <1>8 DEF N, R

LEMMA BatchRuns ==
    ASSUME NEW C, NEW d \in Doc(C), NEW ops \in Seq(Op(C))
    PROVE  \E run \in [0 .. Len(ops) -> Outcome(Doc(C))] :
              BatchRun(run, d, ops) /\ ApplyBatch(d, ops) = run[Len(ops)]
<1>1. \A r \in Outcome(Doc(C)), op \in Op(C) : ApplyNext(r, op) \in Outcome(Doc(C))
  BY ApplyIs DEF ApplyNext, Outcome
<1>2. QED BY <1>1, BatchRunsIn

\* Operations as browsers may send them: the clocks need not agree with the tree.
AnyOp(C) == [op : {"ins"}, id : Id, after : Id \cup {Root}, ch : C]
            \cup [op : {"del"}, id : Id \cup {Root}]

LEMMA ApplyTree ==
    ASSUME NEW C, NEW d \in Tree(C), NEW op \in AnyOp(C)
    PROVE  Apply(d, op) \in Outcome(Tree(C))
<1>1. CASE op.op = "del"
  <2>1. Delete(d, op.id) \in Tree(C)  BY BuriedIs
  <2>2. QED BY <1>1, <2>1 DEF Apply, Outcome
<1>2. CASE op.op = "ins" /\ op.id \notin Known(d) /\ op.after \in Known(d) \cup {Root}
  <2>1. op.id \in Id /\ op.ch \in C  BY <1>2 DEF AnyOp
  <2>2. Added(d, op.id, op.after, op.ch) \in Tree(C)  BY <1>2, <2>1, GrownIs
  <2>3. Apply(d, op) = [doc |-> Added(d, op.id, op.after, op.ch), ok |-> TRUE]
    BY <1>2 DEF Apply, Insert, Added
  <2>4. QED BY <2>2, <2>3 DEF Outcome
<1>3. CASE op.op = "ins" /\ ~(op.id \notin Known(d) /\ op.after \in Known(d) \cup {Root})
  <2>1. Apply(d, op).doc = d /\ Apply(d, op) \in Outcome({d})
    BY <1>3 DEF Apply, Insert, Outcome
  <2>2. QED BY <2>1 DEF Outcome
<1>4. op.op \in {"ins", "del"}  BY DEF AnyOp
<1>5. QED BY <1>1, <1>2, <1>3, <1>4

LEMMA BatchTree ==
    ASSUME NEW C, NEW d \in Tree(C), NEW ops \in Seq(AnyOp(C))
    PROVE  /\ ApplyBatch(d, ops) \in Outcome(Tree(C))
           /\ \E run \in [0 .. Len(ops) -> Outcome(Tree(C))] :
                 BatchRun(run, d, ops) /\ ApplyBatch(d, ops) = run[Len(ops)]
<1>1. \A r \in Outcome(Tree(C)), op \in AnyOp(C) : ApplyNext(r, op) \in Outcome(Tree(C))
  BY ApplyTree DEF ApplyNext, Outcome
<1>2. PICK run \in [0 .. Len(ops) -> Outcome(Tree(C))] :
         BatchRun(run, d, ops) /\ ApplyBatch(d, ops) = run[Len(ops)]
  BY <1>1, BatchRunsIn
<1>3. Len(ops) \in 0 .. Len(ops)  OBVIOUS
<1>4. QED BY <1>2, <1>3

-----------------------------------------------------------------------------
(* A set of operations describes a document                                *)

\* All that is known was inserted, with what the insertion says, and buried if
\* there is a deletion.
Describes(ops, d) ==
    /\ \A op \in ops : op.id \in Known(d)
    /\ \A k \in Known(d) :
          /\ \E op \in ops : /\ op.op = "ins" /\ op.id = k
                             /\ op.after = d.items[k].after /\ op.ch = d.items[k].ch
          /\ d.items[k].del <=> \E op \in ops : op.op = "del" /\ op.id = k

\* An operation that comes after what it names.
Follows(d, op) == IF op.op = "ins" THEN op.after \in Known(d) \cup {Root} ELSE op.id \in Known(d)

LEMMA ApplyDescribes ==
    ASSUME NEW C, NEW d \in Doc(C), NEW op \in Op(C), Follows(d, op), NEW ops, Describes(ops, d)
    PROVE  /\ Apply(d, op).ok /\ Apply(d, op).doc \in Doc(C)
           /\ Describes(ops \cup {op}, Apply(d, op).doc)
           /\ Known(d) \subseteq Known(Apply(d, op).doc) /\ op.id \in Known(Apply(d, op).doc)
<1> DEFINE e == Apply(d, op).doc
<1>1. op.op \in {"ins", "del"}  BY DEF Op
<1>2. Applicable(d, op)  BY <1>1 DEF Follows, Applicable
<1>3. Apply(d, op).ok /\ e \in Doc(C) /\ Applied(d, op, e)
  BY <1>2, ApplyIs
<1> HIDE DEF e
<1>4. Known(d) \subseteq Known(e) /\ op.id \in Known(e)
  BY <1>1, <1>3 DEF Applied, Follows
<1>5. \A o \in ops \cup {op} : o.id \in Known(e)
  BY <1>4 DEF Describes
<1>6. ASSUME NEW k \in Known(d)
      PROVE  /\ \E o \in ops \cup {op} : /\ o.op = "ins" /\ o.id = k
                                         /\ o.after = e.items[k].after /\ o.ch = e.items[k].ch
             /\ e.items[k].del <=> \E o \in ops \cup {op} : o.op = "del" /\ o.id = k
  <2>1. PICK o \in ops : /\ o.op = "ins" /\ o.id = k
                         /\ o.after = d.items[k].after /\ o.ch = d.items[k].ch
    BY DEF Describes
  <2>2. d.items[k].del <=> \E x \in ops : x.op = "del" /\ x.id = k
    BY DEF Describes
  <2>3. /\ e.items[k].after = d.items[k].after /\ e.items[k].ch = d.items[k].ch
        /\ e.items[k].del <=> (d.items[k].del \/ (op.op = "del" /\ k = op.id))
    BY <1>3 DEF Applied
  <2>4. QED BY <2>1, <2>2, <2>3
<1>7. ASSUME NEW k \in Known(e) \ Known(d)
      PROVE  /\ \E o \in ops \cup {op} : /\ o.op = "ins" /\ o.id = k
                                         /\ o.after = e.items[k].after /\ o.ch = e.items[k].ch
             /\ e.items[k].del <=> \E o \in ops \cup {op} : o.op = "del" /\ o.id = k
  <2>1. op.op = "ins" /\ op.id = k  BY <1>3 DEF Applied
  <2>2. e.items[k] = [after |-> op.after, ch |-> op.ch, del |-> FALSE]
    BY <1>3, <2>1 DEF Applied
  <2>3. \A o \in ops \cup {op} : ~(o.op = "del" /\ o.id = k)
    BY <2>1 DEF Describes
  <2>4. QED BY <2>1, <2>2, <2>3
<1>8. Describes(ops \cup {op}, e)
  BY <1>5, <1>6, <1>7 DEF Describes
<1>9. QED BY <1>3, <1>4, <1>8 DEF e

\* A batch whose operations follow what they name, within it or before it.
FollowsIn(d, ops, i) ==
    LET known == Known(d) \cup {Root} \cup {ops[j].id : j \in 1 .. (i - 1)}
    IN  IF ops[i].op = "ins" THEN ops[i].after \in known ELSE ops[i].id \in known

LEMMA BatchDescribes ==
    ASSUME NEW C, NEW d \in Doc(C), NEW ops \in Seq(Op(C)), \A i \in DOMAIN ops : FollowsIn(d, ops, i),
           NEW old, Describes(old, d)
    PROVE  /\ ApplyBatch(d, ops).ok /\ ApplyBatch(d, ops).doc \in Doc(C)
           /\ Describes(old \cup ToSet(ops), ApplyBatch(d, ops).doc)
           /\ Known(d) \subseteq Known(ApplyBatch(d, ops).doc)
<1> DEFINE N == Len(ops)
           First(n) == {ops[i] : i \in 1 .. n}
<1>1. PICK run \in [0 .. N -> Outcome(Doc(C))] : BatchRun(run, d, ops) /\ ApplyBatch(d, ops) = run[N]
  BY BatchRuns
<1>2. N \in Nat /\ DOMAIN ops = 1 .. N /\ \A i \in 1 .. N : ops[i] \in Op(C)
  OBVIOUS
<1>3. run[0] = [doc |-> d, ok |-> TRUE] /\ \A n \in 1 .. N : run[n] = ApplyNext(run[n - 1], ops[n])
  BY <1>1 DEF BatchRun
<1> HIDE DEF N
<1> DEFINE Good(n) == /\ run[n].ok /\ run[n].doc \in Doc(C)
                      /\ Describes(old \cup First(n), run[n].doc)
                      /\ Known(d) \subseteq Known(run[n].doc)
           T == {n \in Nat : n <= N => Good(n)}
<1>4. 0 \in T
  <2>1. First(0) = {}  OBVIOUS
  <2>2. old \cup First(0) = old  BY <2>1
  <2>3. run[0].ok /\ run[0].doc = d  BY <1>3
  <2> HIDE DEF First
  <2>4. Good(0)  BY <2>2, <2>3
  <2> HIDE DEF Good
  <2>5. QED BY <2>4
<1>5. ASSUME NEW n \in T PROVE n + 1 \in T
  <2> SUFFICES ASSUME n + 1 <= N PROVE Good(n + 1)
    OBVIOUS
  <2> DEFINE e == run[n].doc
             op == ops[n + 1]
  <2>1. n \in Nat /\ n + 1 \in 1 .. N /\ (n + 1) - 1 = n /\ Good(n)  BY <1>2
  <2>2. run[n + 1] = Apply(e, op)  BY <1>3, <2>1 DEF ApplyNext
  <2>3. First(n + 1) = First(n) \cup {op}
    <3>1. 1 .. n + 1 = (1 .. n) \cup {n + 1}  BY <2>1
    <3>2. QED BY <3>1
  <2>4. e \in Doc(C) /\ op \in Op(C) /\ Describes(old \cup First(n), e)  BY <1>2, <2>1
  <2>5. Follows(e, op)
    <3>1. FollowsIn(d, ops, n + 1)  BY <1>2, <2>1
    <3>2. \A j \in 1 .. n : ops[j].id \in Known(e)
      <4>1. \A j \in 1 .. n : ops[j] \in First(n)  OBVIOUS
      <4> HIDE DEF First
      <4>2. QED BY <4>1, <2>4 DEF Describes
    <3>3. Root \notin Id  BY DEF Root, Id
    <3>4. op.op \in {"ins", "del"} /\ op.id \in Id  BY <2>4 DEF Op
    <3> HIDE DEF First
    <3>5. Known(d) \subseteq Known(e)  BY <2>1
    <3> HIDE DEF Good
    <3>6. QED BY <2>1, <3>1, <3>2, <3>3, <3>4, <3>5 DEF FollowsIn, Follows
  <2> HIDE DEF First, e, op
  <2>6. /\ Apply(e, op).ok /\ Apply(e, op).doc \in Doc(C)
        /\ Describes((old \cup First(n)) \cup {op}, Apply(e, op).doc)
        /\ Known(e) \subseteq Known(Apply(e, op).doc)
    BY <2>4, <2>5, ApplyDescribes
  <2>7. (old \cup First(n)) \cup {op} = old \cup First(n + 1)  BY <2>3
  <2>8. Known(d) \subseteq Known(e)  BY <2>1 DEF e
  <2>9. QED BY <2>2, <2>6, <2>7, <2>8
<1>6. T = Nat
  <2>1. T \in SUBSET Nat  OBVIOUS
  <2> HIDE DEF T
  <2>2. QED BY <1>4, <1>5, <2>1, SetInduction
<1>7. Good(N)
  <2> HIDE DEF Good
  <2>1. N \in T /\ N <= N  BY <1>2, <1>6
  <2>2. QED BY <2>1
<1>8. First(N) = ToSet(ops)  BY <1>2 DEF ToSet
<1> HIDE DEF First
<1>9. QED BY <1>1, <1>7, <1>8

\* Two documents that the same insertions describe, none of them in two versions,
\* are one.
LEMMA DescribedOnce ==
    ASSUME NEW C, NEW d \in Doc(C), NEW e \in Doc(C), NEW ops, Describes(ops, d), Describes(ops, e),
           \A o, p \in ops : o.op = "ins" /\ p.op = "ins" /\ o.id = p.id => o = p
    PROVE  d = e
<1>1. Known(d) = Known(e)
  <2>1. ASSUME NEW k \in Known(d) PROVE k \in Known(e)
    <3>1. \E o \in ops : o.id = k  BY DEF Describes
    <3>2. QED BY <3>1 DEF Describes
  <2>2. ASSUME NEW k \in Known(e) PROVE k \in Known(d)
    <3>1. \E o \in ops : o.id = k  BY DEF Describes
    <3>2. QED BY <3>1 DEF Describes
  <2>3. QED BY <2>1, <2>2
<1> DEFINE K == Known(d)
<1>2. d.items \in [K -> ItemType(K, C)] /\ e.items \in [K -> ItemType(K, C)]
  BY <1>1, DocIs DEF TreeOf
<1>3. ASSUME NEW k \in K PROVE d.items[k] = e.items[k]
  <2>1. PICK o \in ops : /\ o.op = "ins" /\ o.id = k
                         /\ o.after = d.items[k].after /\ o.ch = d.items[k].ch
    BY DEF Describes
  <2>2. PICK p \in ops : /\ p.op = "ins" /\ p.id = k
                         /\ p.after = e.items[k].after /\ p.ch = e.items[k].ch
    BY <1>1 DEF Describes
  <2>3. o = p  BY <2>1, <2>2
  <2>4. d.items[k].del <=> e.items[k].del  BY <1>1 DEF Describes
  <2>5. d.items[k] \in ItemType(K, C) /\ e.items[k] \in ItemType(K, C)  BY <1>2
  <2>6. d.items[k].del = e.items[k].del  BY <2>4, <2>5 DEF ItemType
  <2>7. QED BY <2>1, <2>2, <2>3, <2>5, <2>6 DEF ItemType
<1> HIDE DEF K
<1>4. d.items = e.items  BY <1>2, <1>3
<1>5. QED BY <1>4, DocUnique

-----------------------------------------------------------------------------
(* The traversal                                                           *)

Turn(K) == [stack : Seq(K), out : Seq(K)]
WalkRun(turn, d) ==
    /\ turn[0] = [stack |-> d.children[Root], out |-> << >>]
    /\ \A n \in 1 .. Cardinality(Known(d)) : turn[n] = WalkStep(d, turn[n - 1])

LEMMA WalkStepType ==
    ASSUME NEW C, NEW d \in Tree(C), NEW st \in Turn(Known(d))
    PROVE  /\ WalkStep(d, st) \in Turn(Known(d))
           /\ st.stack # << >> =>
                 /\ Head(st.stack) \in Known(d)
                 /\ WalkStep(d, st).stack = d.children[Head(st.stack)] \o Tail(st.stack)
                 /\ WalkStep(d, st).out = Append(st.out, Head(st.stack))
           /\ st.stack = << >> => WalkStep(d, st) = st
<1>1. d.children \in [Known(d) \cup {Root} -> Seq(Known(d))]
  BY TreeIs DEF TreeOf
<1>2. st.stack \in Seq(Known(d)) /\ st.out \in Seq(Known(d))
  BY DEF Turn
<1>3. CASE st.stack = << >>
  BY <1>3 DEF WalkStep
<1>4. CASE st.stack # << >>
  <2> DEFINE h == Head(st.stack)
             t == Tail(st.stack)
             c == d.children[h]
  <2>1. h \in Known(d) /\ t \in Seq(Known(d))  BY <1>2, <1>4
  <2>2. c \in Seq(Known(d))  BY <1>1, <2>1
  <2> HIDE DEF h, t, c
  <2>3. c \o t \in Seq(Known(d)) /\ Append(st.out, h) \in Seq(Known(d))
    BY <1>2, <2>1, <2>2
  <2>4. WalkStep(d, st) = [stack |-> c \o t, out |-> Append(st.out, h)]
    BY <1>4 DEF WalkStep, h, t, c
  <2> DEFINE stack == c \o t
             out == Append(st.out, h)
             new == WalkStep(d, st)
  <2> HIDE DEF stack, out, new
  <2>5. new = [stack |-> stack, out |-> out]  BY <2>4 DEF stack, out, new
  <2>6. new \in Turn(Known(d)) /\ new.stack = stack /\ new.out = out
    BY <2>3, <2>5 DEF Turn, stack, out
  <2>7. QED BY <1>4, <2>1, <2>6 DEF h, t, c, stack, out, new
<1>5. QED BY <1>3, <1>4

LEMMA WalkRuns ==
    ASSUME NEW C, NEW d \in Tree(C)
    PROVE  \E turn \in [0 .. Cardinality(Known(d)) -> Turn(Known(d))] :
              WalkRun(turn, d) /\ Walk(d) = turn[Cardinality(Known(d))].out
<1> DEFINE N == Cardinality(Known(d))
           R == Turn(Known(d))
           base == [stack |-> d.children[Root], out |-> << >>]
           Loop(k) == k = [n \in 0 .. N |-> IF n = 0 THEN base ELSE WalkStep(d, k[n - 1])]
           step == [p \in Nat \X R |-> WalkStep(d, p[2])]
           turn == CHOOSE k : Loop(k)
<1>1. N \in Nat  BY TreeIs, FS_CardinalityType
<1>2. base \in R
  <2>1. d.children \in [Known(d) \cup {Root} -> Seq(Known(d))]
    BY TreeIs DEF TreeOf
  <2>2. d.children[Root] \in Seq(Known(d)) /\ << >> \in Seq(Known(d))  BY <2>1
  <2>3. QED BY <2>2 DEF Turn
<1>3. Walk(d) = turn[N].out
  BY DEF Walk
<1> HIDE DEF base, N
<1>4. PICK k \in [0 .. N -> R] : Loop(k)
  <2>1. step \in [Nat \X R -> R]
    <3>1. \A r \in R : WalkStep(d, r) \in R  BY WalkStepType
    <3> HIDE DEF R
    <3>2. QED BY <3>1
  <2>2. \A n \in Nat, r \in R : step[<<n, r>>] = WalkStep(d, r)
    OBVIOUS
  <2> HIDE DEF step, R
  <2>3. PICK k \in [0 .. N -> R] : Loops(k, N, base, step)
    BY <1>1, <1>2, <2>1, LoopExists
  <2>4. ASSUME NEW n \in 0 .. N, n # 0 PROVE step[<<n, k[n - 1]>>] = WalkStep(d, k[n - 1])
    <3>1. n \in Nat /\ n - 1 \in 0 .. N  BY <1>1, <2>4
    <3>2. QED BY <3>1, <2>2
  <2>5. Loop(k)  BY <2>3, <2>4 DEF Loops
  <2>6. QED BY <2>5
<1>5. Loop(turn)
  <2> HIDE DEF Loop
  <2>1. QED BY <1>4
<1> HIDE DEF turn, R
<1>6. turn[0] = base /\ \A n \in 1 .. N : turn[n] = WalkStep(d, turn[n - 1])
  BY <1>1, <1>5
<1>7. turn \in [0 .. N -> R]
  <2> DEFINE T == {n \in Nat : n <= N => turn[n] \in R}
  <2>1. 0 \in T  BY <1>2, <1>6
  <2>2. ASSUME NEW n \in T PROVE n + 1 \in T
    <3> SUFFICES ASSUME n + 1 <= N PROVE turn[n + 1] \in R
      OBVIOUS
    <3>1. n + 1 \in 1 .. N /\ (n + 1) - 1 = n /\ turn[n] \in R  BY <1>1
    <3>2. turn[n + 1] = WalkStep(d, turn[n])  BY <3>1, <1>6
    <3>3. QED BY <3>1, <3>2, WalkStepType DEF R
  <2>3. T = Nat
    <3>1. T \in SUBSET Nat  OBVIOUS
    <3> HIDE DEF T
    <3>2. QED BY <2>1, <2>2, <3>1, SetInduction
  <2>4. \A n \in 0 .. N : turn[n] \in R  BY <2>3, <1>1
  <2>5. QED BY <2>4, <1>5
<1>8. WalkRun(turn, d)
  BY <1>6 DEF WalkRun, base, N
<1>9. QED BY <1>3, <1>7, <1>8 DEF N, R

LEMMA WalkType ==
    ASSUME NEW C, NEW d \in Tree(C)
    PROVE  Walk(d) \in Seq(Known(d))
<1>1. Cardinality(Known(d)) \in Nat  BY TreeIs, FS_CardinalityType
<1>2. QED BY <1>1, WalkRuns DEF Turn

\* The characters shown are those of the traversal that are not buried.
ShownRun(shown, d, w) ==
    /\ shown[0] = << >>
    /\ \A n \in 1 .. Len(w) : shown[n] = Visit(d, shown[n - 1], w[n])

LEMMA VisibleRuns ==
    ASSUME NEW C, NEW d \in Tree(C)
    PROVE  \E shown \in [0 .. Len(Walk(d)) -> Seq(Known(d))] :
              ShownRun(shown, d, Walk(d)) /\ VisibleIDs(d) = shown[Len(Walk(d))]
<1> DEFINE w == Walk(d)
           N == Len(w)
           R == Seq(Known(d))
           Loop(k) == k = [n \in 0 .. N |-> IF n = 0 THEN << >> ELSE Visit(d, k[n - 1], w[n])]
           step == [p \in Nat \X R |->
                       IF p[1] \in 1 .. N THEN Visit(d, p[2], w[p[1]]) ELSE p[2]]
           shown == CHOOSE k : Loop(k)
<1>1. N \in Nat /\ \A n \in 1 .. N : w[n] \in Known(d)
  BY WalkType
<1>2. << >> \in R  OBVIOUS
<1>3. VisibleIDs(d) = shown[N]
  BY DEF VisibleIDs
<1>4. \A r \in R, n \in 1 .. N : Visit(d, r, w[n]) \in R
  BY <1>1 DEF Visit
<1> HIDE DEF N, w
<1>5. PICK k \in [0 .. N -> R] : Loop(k)
  <2> HIDE DEF R
  <2>1. step \in [Nat \X R -> R]
    BY <1>4
  <2>2. \A n \in Nat, r \in R : step[<<n, r>>] = IF n \in 1 .. N THEN Visit(d, r, w[n]) ELSE r
    OBVIOUS
  <2> HIDE DEF step, R
  <2>3. PICK k \in [0 .. N -> R] : Loops(k, N, << >>, step)
    BY <1>1, <1>2, <2>1, LoopExists
  <2>4. ASSUME NEW n \in 0 .. N, n # 0 PROVE step[<<n, k[n - 1]>>] = Visit(d, k[n - 1], w[n])
    <3>1. n \in Nat /\ n \in 1 .. N /\ n - 1 \in 0 .. N  BY <1>1, <2>4
    <3>2. QED BY <3>1, <2>2
  <2>5. Loop(k)  BY <2>3, <2>4 DEF Loops
  <2>6. QED BY <2>5
<1>6. Loop(shown)
  <2> HIDE DEF Loop
  <2>1. QED BY <1>5
<1> HIDE DEF shown, R
<1>7. shown[0] = << >> /\ \A n \in 1 .. N : shown[n] = Visit(d, shown[n - 1], w[n])
  BY <1>1, <1>6
<1>8. shown \in [0 .. N -> R]
  <2> DEFINE T == {n \in Nat : n <= N => shown[n] \in R}
  <2>1. 0 \in T  BY <1>2, <1>7
  <2>2. ASSUME NEW n \in T PROVE n + 1 \in T
    <3> SUFFICES ASSUME n + 1 <= N PROVE shown[n + 1] \in R
      OBVIOUS
    <3>1. n + 1 \in 1 .. N /\ (n + 1) - 1 = n /\ shown[n] \in R  BY <1>1
    <3>2. shown[n + 1] = Visit(d, shown[n], w[n + 1])  BY <3>1, <1>7
    <3>3. QED BY <3>1, <3>2, <1>4
  <2>3. T = Nat
    <3>1. T \in SUBSET Nat  OBVIOUS
    <3> HIDE DEF T
    <3>2. QED BY <2>1, <2>2, <3>1, SetInduction
  <2>4. \A n \in 0 .. N : shown[n] \in R  BY <2>3, <1>1
  <2>5. QED BY <2>4, <1>6
<1>9. ShownRun(shown, d, w)
  BY <1>7 DEF ShownRun, N
<1>10. QED BY <1>3, <1>8, <1>9 DEF N, R, w

LEMMA VisibleType ==
    ASSUME NEW C, NEW d \in Tree(C)
    PROVE  VisibleIDs(d) \in Seq(Known(d))
<1>1. Len(Walk(d)) \in Nat  BY WalkType
<1>2. QED BY <1>1, VisibleRuns

-----------------------------------------------------------------------------
(* FreshId clocks, and the difference of two texts                           *)

LEMMA MaxClockIs ==
    ASSUME NEW C, NEW d \in Tree(C)
    PROVE  MaxClock(d) \in Nat /\ \A id \in Known(d) : id.clock <= MaxClock(d)
<1> DEFINE S == {id.clock : id \in Known(d)} \cup {0}
<1>1. Known(d) \in SUBSET Id /\ IsFiniteSet(Known(d))  BY TreeIs
<1>2. S \in SUBSET Nat  BY <1>1 DEF Id
<1>3. IsFiniteSet(S)
  <2> DEFINE f == [id \in Known(d) |-> id.clock]
  <2>1. f \in [Known(d) -> Nat]  BY <1>1 DEF Id
  <2>2. IsFiniteSet({f[x] : x \in Known(d)})
    <3> HIDE DEF f
    <3>1. QED BY <1>1, <2>1, ValuesAreFinite
  <2>3. {f[x] : x \in Known(d)} = {id.clock : id \in Known(d)}  OBVIOUS
  <2>4. IsFiniteSet({id.clock : id \in Known(d)})  BY <2>2, <2>3
  <2>5. QED BY <2>4, FS_AddElement
<1>4. MaxClock(d) = CHOOSE x \in S : \A y \in S : y <= x
  BY DEF MaxClock, MaxOf
<1>5. 0 \in S /\ \A id \in Known(d) : id.clock \in S
  OBVIOUS
<1> HIDE DEF S
<1>6. \E x \in S : \A y \in S : y <= x
  BY <1>2, <1>3, <1>5, GreatestNumber
<1>7. MaxClock(d) \in S /\ \A y \in S : y <= MaxClock(d)
  BY <1>4, <1>6
<1>8. QED BY <1>2, <1>5, <1>7

LEMMA CommonPrefixIs ==
    ASSUME NEW C, NEW s \in Seq(C), NEW t \in Seq(C)
    PROVE  /\ CommonPrefix(s, t) \in Nat
           /\ CommonPrefix(s, t) <= Len(s) /\ CommonPrefix(s, t) <= Len(t)
           /\ \A i \in 1 .. CommonPrefix(s, t) : s[i] = t[i]
<1> DEFINE n == IF Len(s) < Len(t) THEN Len(s) ELSE Len(t)
           J == {m \in 1 .. n : SubSeq(s, 1, m) = SubSeq(t, 1, m)}
           c == Cardinality(J)
<1>1. n \in Nat /\ n <= Len(s) /\ n <= Len(t)
  OBVIOUS
<1>2. CommonPrefix(s, t) = c
  BY DEF CommonPrefix
<1> HIDE DEF n
<1>3. \A m \in J : \A i \in 1 .. m : s[i] = t[i]
  <2> SUFFICES ASSUME NEW m \in J, NEW i \in 1 .. m PROVE s[i] = t[i]
    OBVIOUS
  <2>1. m \in 1 .. n /\ SubSeq(s, 1, m) = SubSeq(t, 1, m)  OBVIOUS
  <2>2. SubSeq(s, 1, m)[i] = s[1 + i - 1] /\ SubSeq(t, 1, m)[i] = t[1 + i - 1]
    <3>1. /\ 1 \in 1 .. Len(s) + 1 /\ m \in 0 .. Len(s) /\ 1 <= m + 1 /\ i \in 1 .. m - 1 + 1
          /\ 1 \in 1 .. Len(t) + 1 /\ m \in 0 .. Len(t)
      BY <1>1, <2>1
    <3>2. SubSeq(s, 1, m)[i] = s[1 + i - 1]  BY <3>1, SubSeqIs
    <3>3. SubSeq(t, 1, m)[i] = t[1 + i - 1]  BY <3>1, SubSeqIs
    <3>4. QED BY <3>2, <3>3
  <2>3. 1 + i - 1 = i  OBVIOUS
  <2>4. QED BY <2>1, <2>2, <2>3
<1>4. \A m \in 1 .. n : (\A i \in 1 .. m : s[i] = t[i]) => m \in J
  <2> SUFFICES ASSUME NEW m \in 1 .. n, \A i \in 1 .. m : s[i] = t[i]
               PROVE  SubSeq(s, 1, m) = SubSeq(t, 1, m)
    OBVIOUS
  <2> DEFINE a == SubSeq(s, 1, m)
             b == SubSeq(t, 1, m)
  <2>1. /\ 1 \in 1 .. Len(s) + 1 /\ m \in 0 .. Len(s) /\ 1 <= m + 1
        /\ 1 \in 1 .. Len(t) + 1 /\ m \in 0 .. Len(t)
    BY <1>1
  <2>2. a \in Seq(C) /\ Len(a) = m - 1 + 1 /\ \A i \in 1 .. m - 1 + 1 : a[i] = s[1 + i - 1]
    BY <2>1, SubSeqIs
  <2>3. b \in Seq(C) /\ Len(b) = m - 1 + 1 /\ \A i \in 1 .. m - 1 + 1 : b[i] = t[1 + i - 1]
    BY <2>1, SubSeqIs
  <2> HIDE DEF a, b
  <2>4. m - 1 + 1 = m /\ \A i \in 1 .. m : 1 + i - 1 = i  OBVIOUS
  <2>5. Len(a) = Len(b) /\ \A i \in 1 .. Len(a) : a[i] = b[i]  BY <2>2, <2>3, <2>4
  <2>6. a = b  BY <2>2, <2>3, <2>5, SameSequence
  <2>7. QED BY <2>6 DEF a, b
<1>5. J \in SUBSET (1 .. n) /\ \A m \in J : 1 .. m \subseteq J
  <2> SUFFICES ASSUME NEW m \in J, NEW i \in 1 .. m PROVE i \in J
    OBVIOUS
  <2>1. m \in 1 .. n /\ \A x \in 1 .. m : s[x] = t[x]  BY <1>3
  <2>2. i \in 1 .. n /\ \A x \in 1 .. i : s[x] = t[x]  BY <2>1, <1>1
  <2> HIDE DEF J
  <2>3. QED BY <2>2, <1>4
<1> HIDE DEF J
<1>6. c \in 0 .. n /\ J = 1 .. c
  BY <1>1, <1>5, Initial
<1>7. \A i \in 1 .. c : s[i] = t[i]
  <2> HIDE DEF c
  <2> SUFFICES ASSUME NEW i \in 1 .. c PROVE s[i] = t[i]
    OBVIOUS
  <2>1. i \in J /\ i \in 1 .. i  BY <1>6
  <2>2. QED BY <2>1, <1>3
<1>8. QED BY <1>1, <1>2, <1>6, <1>7

LEMMA ReverseIs ==
    ASSUME NEW C, NEW s \in Seq(C)
    PROVE  /\ Reverse(s) \in Seq(C) /\ Len(Reverse(s)) = Len(s)
           /\ \A i \in 1 .. Len(s) : Reverse(s)[i] = s[Len(s) - i + 1]
<1>1. Reverse(s) = [i \in 1 .. Len(s) |-> s[(Len(s) - i) + 1]]
  BY DEF Reverse
<1>2. \A i \in 1 .. Len(s) : (Len(s) - i) + 1 \in 1 .. Len(s)
  OBVIOUS
<1>3. QED BY <1>1, <1>2

\* Both texts begin with the same lo characters and end with the same hi.
Difference(old, new, lo, hi) ==
    /\ lo + hi <= Len(old) /\ lo + hi <= Len(new)
    /\ \A i \in 1 .. lo : old[i] = new[i]
    /\ \A i \in 1 .. hi : old[Len(old) - i + 1] = new[Len(new) - i + 1]

\* The characters between are buried, and a chain of new ones takes their place.
BuryOps(ids, lo, n) == [i \in 1 .. n |-> DelOp(ids[lo + i])]
FreshId(site, clock, i) == [clock |-> clock + i, site |-> site]
Anchor(ids, lo) == IF lo = 0 THEN Root ELSE ids[lo]
ChainOps(anchor, site, clock, new, lo, n) ==
    [i \in 1 .. n |-> InsOp(FreshId(site, clock, i),
                            IF i = 1 THEN anchor ELSE FreshId(site, clock, i - 1), new[lo + i])]

Replaces(ops, ids, old, new, site, clock, lo, hi) ==
    ops = BuryOps(ids, lo, Len(old) - hi - lo)
          \o ChainOps(Anchor(ids, lo), site, clock, new, lo, Len(new) - hi - lo)

LEMMA DiffIs ==
    ASSUME NEW C, NEW ids, NEW old \in Seq(C), NEW new \in Seq(C), NEW site, NEW clock
    PROVE  \E lo, hi \in Nat :
              Difference(old, new, lo, hi)
              /\ Replaces(DiffToOps(ids, old, new, site, clock), ids, old, new, site, clock, lo, hi)
<1> DEFINE lo == CommonPrefix(old, new)
           s == SubSeq(old, lo + 1, Len(old))
           t == SubSeq(new, lo + 1, Len(new))
           hi == CommonPrefix(Reverse(s), Reverse(t))
<1>1. lo \in Nat /\ lo <= Len(old) /\ lo <= Len(new) /\ \A i \in 1 .. lo : old[i] = new[i]
  BY CommonPrefixIs
<1>2. Replaces(DiffToOps(ids, old, new, site, clock), ids, old, new, site, clock, lo, hi)
  BY DEF Replaces, DiffToOps, BuryOps, ChainOps, Anchor, FreshId
<1>3. Len(old) \in Nat /\ Len(new) \in Nat  OBVIOUS
<1> HIDE DEF lo
<1>4. /\ s \in Seq(C) /\ Len(s) = Len(old) - lo
      /\ \A i \in 1 .. Len(old) - lo : s[i] = old[lo + i]
  <2>1. lo + 1 \in 1 .. Len(old) + 1 /\ Len(old) \in 0 .. Len(old) /\ lo + 1 <= Len(old) + 1
    BY <1>1, <1>3
  <2>2. /\ s \in Seq(C) /\ Len(s) = Len(old) - (lo + 1) + 1
        /\ \A k \in 1 .. Len(old) - (lo + 1) + 1 : s[k] = old[(lo + 1) + k - 1]
    BY <2>1, SubSeqIs
  <2> HIDE DEF s
  <2>3. Len(old) - (lo + 1) + 1 = Len(old) - lo /\ \A i \in Nat : (lo + 1) + i - 1 = lo + i
    BY <1>1, <1>3
  <2>4. QED BY <2>2, <2>3
<1>5. /\ t \in Seq(C) /\ Len(t) = Len(new) - lo
      /\ \A i \in 1 .. Len(new) - lo : t[i] = new[lo + i]
  <2>1. lo + 1 \in 1 .. Len(new) + 1 /\ Len(new) \in 0 .. Len(new) /\ lo + 1 <= Len(new) + 1
    BY <1>1, <1>3
  <2>2. /\ t \in Seq(C) /\ Len(t) = Len(new) - (lo + 1) + 1
        /\ \A k \in 1 .. Len(new) - (lo + 1) + 1 : t[k] = new[(lo + 1) + k - 1]
    BY <2>1, SubSeqIs
  <2> HIDE DEF t
  <2>3. Len(new) - (lo + 1) + 1 = Len(new) - lo /\ \A i \in Nat : (lo + 1) + i - 1 = lo + i
    BY <1>1, <1>3
  <2>4. QED BY <2>2, <2>3
<1> HIDE DEF s, t
<1>6. /\ Reverse(s) \in Seq(C) /\ Len(Reverse(s)) = Len(s)
      /\ \A i \in 1 .. Len(s) : Reverse(s)[i] = s[Len(s) - i + 1]
      /\ Reverse(t) \in Seq(C) /\ Len(Reverse(t)) = Len(t)
      /\ \A i \in 1 .. Len(t) : Reverse(t)[i] = t[Len(t) - i + 1]
  BY <1>4, <1>5, ReverseIs
<1>7. hi \in Nat /\ hi <= Len(s) /\ hi <= Len(t) /\ \A i \in 1 .. hi : Reverse(s)[i] = Reverse(t)[i]
  BY <1>6, CommonPrefixIs
<1> HIDE DEF hi
<1>8. ASSUME NEW i \in 1 .. hi PROVE old[Len(old) - i + 1] = new[Len(new) - i + 1]
  <2>1. i \in 1 .. Len(s) /\ i \in 1 .. Len(t)  BY <1>4, <1>5, <1>7, <1>3, <1>1
  <2>2. s[Len(s) - i + 1] = t[Len(t) - i + 1]  BY <1>6, <1>7, <2>1
  <2>3. /\ Len(s) - i + 1 \in 1 .. Len(old) - lo /\ lo + (Len(s) - i + 1) = Len(old) - i + 1
        /\ Len(t) - i + 1 \in 1 .. Len(new) - lo /\ lo + (Len(t) - i + 1) = Len(new) - i + 1
    BY <2>1, <1>1, <1>3, <1>4, <1>5
  <2>4. s[Len(s) - i + 1] = old[Len(old) - i + 1]  BY <2>3, <1>4
  <2>5. t[Len(t) - i + 1] = new[Len(new) - i + 1]  BY <2>3, <1>5
  <2>6. QED BY <2>2, <2>4, <2>5
<1>9. Difference(old, new, lo, hi)
  BY <1>1, <1>3, <1>4, <1>5, <1>7, <1>8 DEF Difference
<1>10. QED BY <1>1, <1>2, <1>7, <1>9

\* The operations of a difference: what they are, and that they fit.
Buries(ops, ids, lo, n, K) ==
    Len(ops) = n /\ \A i \in 1 .. n : ops[i] = DelOp(ids[lo + i]) /\ ids[lo + i] \in K

LEMMA BuryIs ==
    ASSUME NEW C, NEW K \in SUBSET Id, NEW ids \in Seq(K), NEW lo \in Nat, NEW n \in Nat, lo + n <= Len(ids)
    PROVE  BuryOps(ids, lo, n) \in Seq(Op(C)) /\ Buries(BuryOps(ids, lo, n), ids, lo, n, K)
<1>1. \A i \in 1 .. n : lo + i \in 1 .. Len(ids)  OBVIOUS
<1>2. \A i \in 1 .. n : ids[lo + i] \in K /\ ids[lo + i] \in Id  BY <1>1
<1>3. \A i \in 1 .. n : DelOp(ids[lo + i]) \in Op(C)
  BY <1>2 DEF DelOp, Op
<1>4. QED BY <1>2, <1>3 DEF BuryOps, Buries

Chains(ops, anchor, site, clock, new, lo, n) ==
    /\ Len(ops) = n
    /\ \A i \in 1 .. n :
          ops[i] = InsOp(FreshId(site, clock, i),
                         IF i = 1 THEN anchor ELSE FreshId(site, clock, i - 1), new[lo + i])

LEMMA ChainIs ==
    ASSUME NEW C, NEW anchor \in Id \cup {Root}, NEW site \in Nat \ {0}, NEW clock \in Nat,
           anchor.clock <= clock, NEW new \in Seq(C), NEW lo \in Nat, NEW n \in Nat, lo + n <= Len(new)
    PROVE  /\ ChainOps(anchor, site, clock, new, lo, n) \in Seq(Op(C))
           /\ Chains(ChainOps(anchor, site, clock, new, lo, n), anchor, site, clock, new, lo, n)
<1>1. \A i \in 1 .. n : lo + i \in 1 .. Len(new) /\ new[lo + i] \in C  OBVIOUS
<1>2. \A i \in 1 .. n : FreshId(site, clock, i) \in Id  BY DEF FreshId, Id
<1>3. ASSUME NEW i \in 1 .. n
      PROVE  InsOp(FreshId(site, clock, i),
                   IF i = 1 THEN anchor ELSE FreshId(site, clock, i - 1), new[lo + i]) \in Op(C)
  <2> DEFINE after == IF i = 1 THEN anchor ELSE FreshId(site, clock, i - 1)
  <2>1. after \in Id \cup {Root} /\ after.clock < FreshId(site, clock, i).clock
    <3>1. CASE i = 1
      <4>1. anchor.clock \in Nat  BY DEF Id, Root
      <4>2. QED BY <3>1, <4>1 DEF FreshId
    <3>2. CASE i # 1
      <4>1. i - 1 \in 1 .. n  BY <3>2
      <4>2. after = FreshId(site, clock, i - 1)  BY <3>2
      <4>3. after \in Id  BY <1>2, <4>1, <4>2
      <4> HIDE DEF after
      <4>4. QED BY <4>2, <4>3 DEF FreshId
    <3>3. QED BY <3>1, <3>2
  <2> HIDE DEF after
  <2>2. InsOp(FreshId(site, clock, i), after, new[lo + i]) \in Op(C)
    BY <1>1, <1>2, <2>1 DEF InsOp, Op
  <2>3. QED BY <2>2 DEF after
<1>4. QED BY <1>3 DEF ChainOps, Chains

LEMMA MaterializeIs ==
    ASSUME NEW C, NEW d \in Tree(C)
    PROVE  /\ Materialize(d) \in Seq(C) /\ Len(Materialize(d)) = Len(VisibleIDs(d))
           /\ \A i \in 1 .. Len(VisibleIDs(d)) : Materialize(d)[i] = d.items[VisibleIDs(d)[i]].ch
<1> DEFINE v == VisibleIDs(d)
<1>1. v \in Seq(Known(d)) /\ Len(v) \in Nat /\ DOMAIN v = 1 .. Len(v)
      /\ \A i \in 1 .. Len(v) : v[i] \in Known(d)
  BY VisibleType
<1>2. \A k \in Known(d) : d.items[k].ch \in C
  <2>1. d.items \in [Known(d) -> ItemType(Known(d), C)]  BY TreeIs DEF TreeOf
  <2>2. QED BY <2>1 DEF ItemType
<1>3. Materialize(d) = [i \in DOMAIN v |-> d.items[v[i]].ch]
  BY DEF Materialize
<1> HIDE DEF v
<1>4. QED BY <1>1, <1>2, <1>3 DEF v

\* The batch of an edit: each operation follows what it names, and what it inserts is
\* newer than all that its author knows.
EditOps(d, new, site) == DiffToOps(VisibleIDs(d), Materialize(d), new, site, MaxClock(d))

Fitting(d, ops, site) ==
    /\ \A i \in DOMAIN ops : FollowsIn(d, ops, i)
    /\ \A i \in DOMAIN ops : ops[i].op = "ins" =>
          ops[i].id.site = site /\ ops[i].id.clock > MaxClock(d)
    /\ \A i, j \in DOMAIN ops :
          ops[i].op = "ins" /\ ops[j].op = "ins" /\ ops[i].id = ops[j].id => ops[i] = ops[j]

\* What the operations of an edit are: n characters buried, m new ones chained.
Edits(ops, d, new, site, clock, lo, n, m) ==
    /\ lo + n <= Len(VisibleIDs(d)) /\ lo + m <= Len(new)
    /\ Anchor(VisibleIDs(d), lo) \in Known(d) \cup {Root}
    /\ DOMAIN ops = 1 .. n + m
    /\ \A i \in 1 .. n : ops[i] = DelOp(VisibleIDs(d)[lo + i]) /\ VisibleIDs(d)[lo + i] \in Known(d)
    /\ \A i \in 1 .. m :
          ops[n + i] = InsOp(FreshId(site, clock, i),
                             IF i = 1 THEN Anchor(VisibleIDs(d), lo) ELSE FreshId(site, clock, i - 1),
                             new[lo + i])

LEMMA EditOpsAre ==
    ASSUME NEW C, NEW d \in Tree(C), NEW new \in Seq(C), NEW site \in Nat \ {0},
           NEW clock \in Nat, MaxClock(d) <= clock, NEW ops,
           ops = DiffToOps(VisibleIDs(d), Materialize(d), new, site, clock)
    PROVE  /\ ops \in Seq(Op(C))
           /\ \E lo, hi \in Nat :
                 /\ Difference(Materialize(d), new, lo, hi)
                 /\ Len(Materialize(d)) - hi - lo \in Nat /\ Len(new) - hi - lo \in Nat
                 /\ Edits(ops, d, new, site, clock, lo,
                          Len(Materialize(d)) - hi - lo, Len(new) - hi - lo)
<1> DEFINE ids == VisibleIDs(d)
           old == Materialize(d)
           K == Known(d)
<1>1. /\ ids \in Seq(K) /\ K \in SUBSET Id /\ old \in Seq(C) /\ Len(old) = Len(ids)
      /\ \A id \in K : id.clock <= clock
  <2>1. K \in SUBSET Id  BY TreeIs
  <2>2. \A id \in K : id.clock <= MaxClock(d) /\ MaxClock(d) \in Nat /\ id.clock \in Nat
    BY <2>1, MaxClockIs DEF Id
  <2>3. \A id \in K : id.clock <= clock  BY <2>2
  <2>4. QED BY <2>1, <2>3, VisibleType, MaterializeIs
<1>2. PICK lo \in Nat, hi \in Nat :
         Difference(old, new, lo, hi) /\ Replaces(ops, ids, old, new, site, clock, lo, hi)
  <2>1. ops = DiffToOps(ids, old, new, site, clock)  OBVIOUS
  <2> HIDE DEF ids, old
  <2>2. QED BY <1>1, <2>1, DiffIs
<1> HIDE DEF ids, old
<1> DEFINE n == Len(old) - hi - lo
           m == Len(new) - hi - lo
           anchor == Anchor(ids, lo)
           bury == BuryOps(ids, lo, n)
           chain == ChainOps(anchor, site, clock, new, lo, m)
<1>3. n \in Nat /\ m \in Nat /\ lo + n <= Len(ids) /\ lo + m <= Len(new) /\ lo <= Len(ids)
  <2>1. Len(old) \in Nat /\ Len(new) \in Nat  BY <1>1
  <2>2. QED BY <1>1, <1>2, <2>1 DEF Difference
<1>4. anchor \in K \cup {Root} /\ anchor.clock <= clock
  <2>1. CASE lo = 0
    <3>1. anchor = Root /\ Root.clock = 0  BY <2>1 DEF Anchor, Root
    <3> HIDE DEF anchor
    <3>2. QED BY <1>1, <3>1
  <2>2. CASE lo # 0
    <3>1. lo \in 1 .. Len(ids)  BY <1>3, <2>2
    <3>2. anchor = ids[lo] /\ ids[lo] \in K  BY <1>1, <2>2, <3>1 DEF Anchor
    <3> HIDE DEF anchor
    <3>3. QED BY <1>1, <3>2
  <2>3. QED BY <2>1, <2>2
<1> HIDE DEF anchor, n, m, K
<1>5. bury \in Seq(Op(C)) /\ Buries(bury, ids, lo, n, K)
  BY <1>1, <1>3, BuryIs
<1>6. chain \in Seq(Op(C)) /\ Chains(chain, anchor, site, clock, new, lo, m)
  <2>1. anchor \in Id \cup {Root}  BY <1>1, <1>4
  <2>2. QED BY <1>1, <1>3, <1>4, <2>1, ChainIs
<1>7. ops = bury \o chain  BY <1>2 DEF Replaces, n, m, anchor
<1> HIDE DEF bury, chain
<1>8. /\ ops \in Seq(Op(C)) /\ Len(ops) = n + m /\ DOMAIN ops = 1 .. n + m
      /\ \A i \in 1 .. n + m : ops[i] = IF i <= n THEN bury[i] ELSE chain[i - n]
  <2>1. /\ bury \o chain \in Seq(Op(C)) /\ Len(bury \o chain) = Len(bury) + Len(chain)
        /\ DOMAIN (bury \o chain) = 1 .. Len(bury) + Len(chain)
        /\ \A i \in 1 .. Len(bury) + Len(chain) :
              (bury \o chain)[i] = IF i <= Len(bury) THEN bury[i] ELSE chain[i - Len(bury)]
    BY <1>5, <1>6, ConcatIs
  <2>2. Len(bury) = n /\ Len(chain) = m  BY <1>5, <1>6 DEF Buries, Chains
  <2>3. QED BY <2>1, <2>2, <1>7
<1>9. \A i \in 1 .. n : ops[i] = DelOp(ids[lo + i]) /\ ids[lo + i] \in K
  <2> SUFFICES ASSUME NEW i \in 1 .. n PROVE ops[i] = DelOp(ids[lo + i]) /\ ids[lo + i] \in K
    OBVIOUS
  <2>1. bury[i] = DelOp(ids[lo + i]) /\ ids[lo + i] \in K  BY <1>5 DEF Buries
  <2>2. i \in 1 .. n + m /\ i <= n  BY <1>3
  <2>3. ops[i] = bury[i]  BY <1>8, <2>2
  <2>4. QED BY <2>1, <2>3
<1>10. \A i \in 1 .. m : ops[n + i] = InsOp(FreshId(site, clock, i),
                                 IF i = 1 THEN anchor ELSE FreshId(site, clock, i - 1), new[lo + i])
  <2> SUFFICES ASSUME NEW i \in 1 .. m
               PROVE  ops[n + i] = InsOp(FreshId(site, clock, i),
                                 IF i = 1 THEN anchor ELSE FreshId(site, clock, i - 1), new[lo + i])
    OBVIOUS
  <2>1. n + i \in 1 .. n + m /\ ~(n + i <= n) /\ (n + i) - n = i  BY <1>3
  <2>2. ops[n + i] = chain[i]  BY <2>1, <1>8
  <2>3. chain[i] = InsOp(FreshId(site, clock, i),
                         IF i = 1 THEN anchor ELSE FreshId(site, clock, i - 1), new[lo + i])
    BY <1>6 DEF Chains
  <2>4. QED BY <2>2, <2>3
<1>11. Edits(ops, d, new, site, clock, lo, n, m)
  <2>1. Anchor(ids, lo) \in K \cup {Root}  BY <1>4 DEF anchor
  <2>2. QED BY <2>1, <1>3, <1>8, <1>9, <1>10 DEF Edits, ids, anchor, K
<1>12. QED BY <1>2, <1>3, <1>8, <1>11 DEF n, m, old

LEMMA EditFits ==
    ASSUME NEW C, NEW d \in Doc(C), NEW new \in Seq(C), NEW site \in Nat \ {0}
    PROVE  EditOps(d, new, site) \in Seq(Op(C)) /\ Fitting(d, EditOps(d, new, site), site)
<1> DEFINE ids == VisibleIDs(d)
           old == Materialize(d)
           clock == MaxClock(d)
           ops == EditOps(d, new, site)
           K == Known(d)
<1>0. /\ d \in Tree(C) /\ clock \in Nat /\ clock <= clock /\ \A id \in K : id.clock <= clock
      /\ ops = DiffToOps(ids, old, new, site, clock)
  BY DocIsTree, MaxClockIs DEF EditOps
<1>1. ops \in Seq(Op(C)) /\ clock \in Nat /\ \A id \in K : id.clock <= clock
  BY <1>0, EditOpsAre
<1>2. PICK lo \in Nat, hi \in Nat :
         /\ Len(old) - hi - lo \in Nat /\ Len(new) - hi - lo \in Nat
         /\ Edits(ops, d, new, site, clock, lo, Len(old) - hi - lo, Len(new) - hi - lo)
  BY <1>0, EditOpsAre
<1> DEFINE n == Len(old) - hi - lo
           m == Len(new) - hi - lo
           anchor == Anchor(ids, lo)
<1>3. n \in Nat /\ m \in Nat /\ Edits(ops, d, new, site, clock, lo, n, m)  BY <1>2
<1> HIDE DEF old, ops, n, m
<1>4. anchor \in K \cup {Root}  BY <1>3 DEF Edits
<1>5. DOMAIN ops = 1 .. n + m  BY <1>3 DEF Edits
<1>6. \A i \in 1 .. n : ops[i].op = "del" /\ ops[i].id \in K
  <2> SUFFICES ASSUME NEW i \in 1 .. n PROVE ops[i].op = "del" /\ ops[i].id \in K
    OBVIOUS
  <2>1. ops[i] = DelOp(ids[lo + i]) /\ ids[lo + i] \in K  BY <1>3 DEF Edits
  <2> HIDE DEF ids, K
  <2>2. QED BY <2>1 DEF DelOp
<1> HIDE DEF ids, clock, K
<1>7. \A i \in 1 .. m :
          /\ n + i \in 1 .. n + m /\ ops[n + i].op = "ins" /\ ops[n + i].id = FreshId(site, clock, i)
          /\ ops[n + i].after = IF i = 1 THEN anchor ELSE FreshId(site, clock, i - 1)
  <2> SUFFICES ASSUME NEW i \in 1 .. m
               PROVE  /\ n + i \in 1 .. n + m
                      /\ ops[n + i].op = "ins" /\ ops[n + i].id = FreshId(site, clock, i)
                      /\ ops[n + i].after = IF i = 1 THEN anchor ELSE FreshId(site, clock, i - 1)
    OBVIOUS
  <2>1. n + i \in 1 .. n + m  BY <1>3
  <2> DEFINE after == IF i = 1 THEN anchor ELSE FreshId(site, clock, i - 1)
  <2>2. ops[n + i] = InsOp(FreshId(site, clock, i), after, new[lo + i])
    BY <1>3 DEF Edits, ids, clock
  <2> HIDE DEF after
  <2>3. ops[n + i].op = "ins" /\ ops[n + i].id = FreshId(site, clock, i) /\ ops[n + i].after = after
    BY <2>2 DEF InsOp
  <2>4. QED BY <2>1, <2>3 DEF after
<1> HIDE DEF anchor
<1>8. \A i \in 1 .. n + m : i \in 1 .. n \/ \E j \in 1 .. m : i = n + j
  <2> SUFFICES ASSUME NEW i \in 1 .. n + m, i > n PROVE \E j \in 1 .. m : i = n + j
    BY <1>3
  <2>1. i - n \in 1 .. m /\ i = n + (i - n)  BY <1>3
  <2>2. QED BY <2>1
<1>9. ASSUME NEW i \in DOMAIN ops PROVE FollowsIn(d, ops, i)
  <2>1. CASE i \in 1 .. n
    <3>1. ops[i].op = "del" /\ ops[i].id \in Known(d)  BY <2>1, <1>6 DEF K
    <3>2. QED BY <3>1 DEF FollowsIn
  <2>2. ASSUME NEW j \in 1 .. m, i = n + j PROVE FollowsIn(d, ops, i)
    <3>1. /\ ops[i].op = "ins"
          /\ ops[i].after = IF j = 1 THEN anchor ELSE FreshId(site, clock, j - 1)
      BY <2>2, <1>7
    <3>2. CASE j = 1  BY <3>1, <3>2, <1>4 DEF FollowsIn, K
    <3>3. CASE j # 1
      <4>1. j - 1 \in 1 .. m /\ n + (j - 1) \in 1 .. i - 1  BY <3>3, <2>2, <1>3
      <4>2. ops[n + (j - 1)].id = FreshId(site, clock, j - 1)  BY <4>1, <1>7
      <4>3. ops[i].after = FreshId(site, clock, j - 1)  BY <3>1, <3>3
      <4>4. ops[i].after \in {ops[k].id : k \in 1 .. (i - 1)}  BY <4>1, <4>2, <4>3
      <4>5. QED BY <3>1, <4>4 DEF FollowsIn
    <3>4. QED BY <3>2, <3>3
  <2>3. QED BY <1>5, <1>8, <2>1, <2>2
<1>10. ASSUME NEW i \in DOMAIN ops, ops[i].op = "ins"
       PROVE  \E j \in 1 .. m : i = n + j /\ ops[i].id = FreshId(site, clock, j)
  <2>1. i \notin 1 .. n  BY <1>6, <1>10
  <2>2. PICK j \in 1 .. m : i = n + j  BY <2>1, <1>5, <1>8
  <2>3. QED BY <2>2, <1>7
<1>11. ASSUME NEW i \in DOMAIN ops, ops[i].op = "ins"
       PROVE  ops[i].id.site = site /\ ops[i].id.clock > MaxClock(d)
  <2>1. PICK j \in 1 .. m : ops[i].id = FreshId(site, clock, j)  BY <1>10, <1>11
  <2>2. clock + j > clock  BY <1>1, <1>3
  <2>3. QED BY <2>1, <2>2 DEF FreshId, clock
<1>12. ASSUME NEW i \in DOMAIN ops, NEW j \in DOMAIN ops,
              ops[i].op = "ins", ops[j].op = "ins", ops[i].id = ops[j].id
       PROVE  ops[i] = ops[j]
  <2>1. PICK a \in 1 .. m : i = n + a /\ ops[i].id = FreshId(site, clock, a)  BY <1>10, <1>12
  <2>2. PICK b \in 1 .. m : j = n + b /\ ops[j].id = FreshId(site, clock, b)  BY <1>10, <1>12
  <2>3. clock + a = clock + b  BY <2>1, <2>2, <1>12 DEF FreshId
  <2>4. a = b  BY <2>3, <1>1, <1>3
  <2>5. QED BY <2>1, <2>2, <2>4
<1>13. Fitting(d, ops, site)
  BY <1>9, <1>11, <1>12 DEF Fitting
<1>14. QED BY <1>1, <1>13 DEF ops

-----------------------------------------------------------------------------
(* The traversal: every character after its parent, and only characters    *)
(* that come before it as siblings would in between                        *)

At(s, p) == IF p = 0 THEN Root ELSE s[p]

Hangs(s, n, parent, x) ==
    \E p \in 0 .. n : At(s, p) = parent /\ \A i \in p + 1 .. n : SiblingBefore(s[i], x)

Placed(s, d) == \A j \in 1 .. Len(s) : Hangs(s, j - 1, Parent(d, s[j]), s[j])

\* What holds whenever the loop of walk turns.
Walking(d, st) ==
    /\ Ordered(st.stack) /\ Distinct(st.out) /\ Placed(st.out, d)
    /\ \A i \in 1 .. Len(st.stack) : /\ st.stack[i] \notin ToSet(st.out)
                                     /\ Hangs(st.out, Len(st.out), Parent(d, st.stack[i]), st.stack[i])
    /\ \A c \in Known(d) : Parent(d, c) \in {Root} \cup ToSet(st.out) =>
                              c \in ToSet(st.out) \cup ToSet(st.stack)

LEMMA HangsSame ==
    ASSUME NEW s, NEW t, NEW n \in Nat, \A i \in 1 .. n : s[i] = t[i], NEW parent, NEW x,
           Hangs(s, n, parent, x)
    PROVE  Hangs(t, n, parent, x)
<1>1. PICK p \in 0 .. n : At(s, p) = parent /\ \A i \in p + 1 .. n : SiblingBefore(s[i], x)
  BY DEF Hangs
<1>2. At(t, p) = parent
  <2>1. CASE p = 0  BY <1>1, <2>1 DEF At
  <2>2. CASE p # 0
    <3>1. p \in 1 .. n  BY <2>2
    <3>2. QED BY <1>1, <2>2, <3>1 DEF At
  <2>3. QED BY <2>1, <2>2
<1>3. \A i \in p + 1 .. n : i \in 1 .. n  OBVIOUS
<1>4. QED BY <1>1, <1>2, <1>3 DEF Hangs

LEMMA HangsFurther ==
    ASSUME NEW s, NEW t, NEW n \in Nat, \A i \in 1 .. n : s[i] = t[i], NEW parent, NEW x,
           Hangs(s, n, parent, x), SiblingBefore(t[n + 1], x)
    PROVE  Hangs(t, n + 1, parent, x)
<1>1. Hangs(t, n, parent, x)  BY HangsSame
<1>2. PICK p \in 0 .. n : At(t, p) = parent /\ \A i \in p + 1 .. n : SiblingBefore(t[i], x)
  BY <1>1 DEF Hangs
<1>3. p \in 0 .. n + 1 /\ \A i \in p + 1 .. n + 1 : i \in p + 1 .. n \/ i = n + 1  OBVIOUS
<1>4. QED BY <1>2, <1>3 DEF Hangs

LEMMA WalkStepKeeps ==
    ASSUME NEW C, NEW d \in Doc(C), NEW st \in Turn(Known(d)), Walking(d, st), st.stack # << >>
    PROVE  Walking(d, WalkStep(d, st)) /\ Len(WalkStep(d, st).out) = Len(st.out) + 1
<1> DEFINE K == Known(d)
           stack == st.stack
           out == st.out
           x == Head(stack)
           rest == Tail(stack)
           kids == d.children[x]
           new == WalkStep(d, st)
           n == Len(out)
<1>1. /\ K \in SUBSET Id /\ Root \notin K /\ d.children \in [K \cup {Root} -> Seq(K)]
      /\ \A p \in K \cup {Root} : Ordered(d.children[p])
      /\ \A p \in K \cup {Root} : ToSet(d.children[p]) = {id \in K : Parent(d, id) = p}
      /\ \A id \in K : Parent(d, id).clock < id.clock /\ Parent(d, id) \in K \cup {Root}
  <2>1. d \in TreeOf(K, C) /\ WellFormed(d) /\ K \in SUBSET Id /\ Root \notin K  BY DocIs
  <2>2. \A id \in K : Parent(d, id) \in K \cup {Root}
    <3>1. d.items \in [K -> ItemType(K, C)]  BY <2>1 DEF TreeOf
    <3>2. QED BY <3>1 DEF ItemType, Parent
  <2>3. QED BY <2>1, <2>2 DEF WellFormed, TreeOf
<1>2. stack \in Seq(K) /\ out \in Seq(K) /\ n \in Nat /\ Len(stack) \in Nat /\ stack # << >>
  BY DEF Turn
<1>3. x \in K /\ new.stack = kids \o rest /\ new.out = Append(out, x)
  BY DocIsTree, WalkStepType
<1>4. /\ Ordered(stack) /\ Distinct(out) /\ Placed(out, d)
      /\ \A i \in 1 .. Len(stack) : stack[i] \notin ToSet(out)
      /\ \A i \in 1 .. Len(stack) : Hangs(out, n, Parent(d, stack[i]), stack[i])
      /\ \A c \in K : Parent(d, c) \in {Root} \cup ToSet(out) => c \in ToSet(out) \cup ToSet(stack)
  BY DEF Walking
<1>5. kids \in Seq(K) /\ Ordered(kids) /\ ToSet(kids) = {id \in K : Parent(d, id) = x}
  BY <1>1, <1>3
<1> HIDE DEF K, stack, out, new, kids
<1>6. /\ rest \in Seq(K) /\ Len(rest) = Len(stack) - 1 /\ stack[1] = x /\ 1 \in 1 .. Len(stack)
      /\ \A i \in 1 .. Len(rest) : rest[i] = stack[i + 1] /\ i + 1 \in 1 .. Len(stack)
  BY <1>2
<1> HIDE DEF rest, x
<1>7. /\ new.out \in Seq(K) /\ Len(new.out) = n + 1 /\ new.out[n + 1] = x
      /\ \A i \in 1 .. n : new.out[i] = out[i]
  BY <1>2, <1>3
<1> DEFINE k == Len(kids)
           m == Len(rest)
<1>8. /\ new.stack \in Seq(K) /\ Len(new.stack) = k + m /\ k \in Nat /\ m \in Nat
      /\ DOMAIN new.stack = 1 .. k + m
      /\ \A i \in 1 .. k + m : new.stack[i] = IF i <= k THEN kids[i] ELSE rest[i - k]
  <2>1. /\ kids \o rest \in Seq(K) /\ Len(kids \o rest) = Len(kids) + Len(rest)
        /\ DOMAIN (kids \o rest) = 1 .. Len(kids) + Len(rest)
        /\ \A i \in 1 .. Len(kids) + Len(rest) :
              (kids \o rest)[i] = IF i <= Len(kids) THEN kids[i] ELSE rest[i - Len(kids)]
    BY <1>5, <1>6, ConcatIs
  <2>2. k \in Nat /\ m \in Nat  BY <1>5, <1>6
  <2>3. QED BY <1>3, <2>1, <2>2
<1>9. \A i \in 1 .. k : kids[i] \in K /\ Parent(d, kids[i]) = x /\ kids[i] \in ToSet(kids)
  <2>1. \A i \in 1 .. k : kids[i] \in ToSet(kids)  BY <1>5 DEF ToSet
  <2>2. QED BY <1>5, <2>1
<1>10. \A i \in 1 .. m : /\ rest[i] \in K /\ rest[i] \notin ToSet(out) /\ SiblingBefore(x, rest[i])
                         /\ Hangs(out, n, Parent(d, rest[i]), rest[i])
  <2> SUFFICES ASSUME NEW i \in 1 .. m
               PROVE  /\ rest[i] \in K /\ rest[i] \notin ToSet(out) /\ SiblingBefore(x, rest[i])
                      /\ Hangs(out, n, Parent(d, rest[i]), rest[i])
    OBVIOUS
  <2>1. rest[i] = stack[i + 1] /\ i + 1 \in 1 .. Len(stack) /\ 1 < i + 1  BY <1>6
  <2>2. DOMAIN stack = 1 .. Len(stack)  BY <1>2
  <2>3. QED BY <2>1, <2>2, <1>2, <1>4, <1>6 DEF Ordered
<1>11. \A i \in 1 .. k + m : \/ i \in 1 .. k /\ new.stack[i] = kids[i]
                             \/ i - k \in 1 .. m /\ i > k /\ new.stack[i] = rest[i - k]
  BY <1>8
<1>12. x \notin ToSet(out)  BY <1>4, <1>6
<1>13. Ordered(new.stack)
  <2> SUFFICES ASSUME NEW i \in 1 .. k + m, NEW j \in 1 .. k + m, i < j
               PROVE  SiblingBefore(new.stack[i], new.stack[j])
    BY <1>8 DEF Ordered
  <2>1. CASE i \in 1 .. k /\ j \in 1 .. k
    <3>1. DOMAIN kids = 1 .. k  BY <1>5
    <3>2. new.stack[i] = kids[i] /\ new.stack[j] = kids[j]  BY <2>1, <1>8
    <3>3. SiblingBefore(kids[i], kids[j])  BY <2>1, <3>1, <1>5 DEF Ordered
    <3>4. QED BY <3>2, <3>3
  <2>2. CASE i \in 1 .. k /\ j > k
    <3>1. j - k \in 1 .. m /\ new.stack[i] = kids[i] /\ new.stack[j] = rest[j - k]  BY <2>2, <1>8
    <3>2. SiblingBefore(x, rest[j - k]) /\ rest[j - k] \in Id /\ x \in Id  BY <3>1, <1>1, <1>3, <1>10
    <3>3. x.clock < kids[i].clock /\ kids[i] \in Id  BY <2>2, <1>1, <1>9
    <3>4. QED BY <3>1, <3>2, <3>3 DEF SiblingBefore, Id
  <2>3. CASE i > k /\ j > k
    <3>1. /\ i - k \in 1 .. m /\ j - k \in 1 .. m
          /\ new.stack[i] = rest[i - k] /\ new.stack[j] = rest[j - k]
      BY <2>3, <1>8
    <3>2. /\ new.stack[i] = stack[(i - k) + 1] /\ new.stack[j] = stack[(j - k) + 1]
          /\ (i - k) + 1 \in 1 .. Len(stack) /\ (j - k) + 1 \in 1 .. Len(stack)
      BY <3>1, <1>6
    <3>3. (i - k) + 1 < (j - k) + 1  BY <1>8
    <3>4. DOMAIN stack = 1 .. Len(stack)  BY <1>2
    <3>5. QED BY <3>2, <3>3, <3>4, <1>4 DEF Ordered
  <2>4. QED BY <2>1, <2>2, <2>3, <1>8
<1>14. Distinct(new.out)
  <2> SUFFICES ASSUME NEW i \in 1 .. n + 1, NEW j \in 1 .. n + 1, i < j
               PROVE  new.out[i] # new.out[j]
    BY <1>2, <1>7 DEF Distinct
  <2>1. i \in 1 .. n /\ new.out[i] = out[i] /\ out[i] \in ToSet(out)
    <3>1. i \in 1 .. n /\ DOMAIN out = 1 .. n  BY <1>2
    <3>2. QED BY <3>1, <1>7 DEF ToSet
  <2>2. CASE j = n + 1  BY <2>1, <2>2, <1>7, <1>12
  <2>3. CASE j \in 1 .. n  BY <2>1, <2>3, <1>4, <1>7 DEF Distinct
  <2>4. QED BY <2>2, <2>3, <1>2
<1>15. Placed(new.out, d)
  <2> SUFFICES ASSUME NEW j \in 1 .. n + 1
               PROVE  Hangs(new.out, j - 1, Parent(d, new.out[j]), new.out[j])
    BY <1>7 DEF Placed
  <2>1. j - 1 \in Nat /\ \A i \in 1 .. j - 1 : i \in 1 .. n  BY <1>2
  <2>2. \A i \in 1 .. j - 1 : out[i] = new.out[i]  BY <2>1, <1>7
  <2>3. Hangs(out, j - 1, Parent(d, new.out[j]), new.out[j])
    <3>1. CASE j = n + 1
      <4>1. j - 1 = n /\ new.out[j] = stack[1]  BY <3>1, <1>2, <1>6, <1>7
      <4>2. QED BY <4>1, <1>4, <1>6
    <3>2. CASE j \in 1 .. n
      <4>1. new.out[j] = out[j]  BY <3>2, <1>7
      <4>2. Hangs(out, j - 1, Parent(d, out[j]), out[j])  BY <3>2, <1>4 DEF Placed
      <4>3. QED BY <4>1, <4>2
    <3>3. QED BY <3>1, <3>2, <1>2
  <2>4. QED BY <2>1, <2>2, <2>3, HangsSame
<1>16. ToSet(new.out) = ToSet(out) \cup {x}
  <2>1. 1 .. n + 1 = (1 .. n) \cup {n + 1}  BY <1>2
  <2>2. DOMAIN new.out = 1 .. n + 1 /\ DOMAIN out = 1 .. n  BY <1>2, <1>7
  <2>3. QED BY <2>1, <2>2, <1>7 DEF ToSet
<1>17. \A i \in 1 .. k : kids[i] \notin ToSet(out)
  <2> SUFFICES ASSUME NEW i \in 1 .. k, kids[i] \in ToSet(out) PROVE FALSE
    OBVIOUS
  <2>1. PICK j \in 1 .. n : out[j] = kids[i]
    <3>1. DOMAIN out = 1 .. n  BY <1>2
    <3>2. QED BY <3>1 DEF ToSet
  <2>2. Hangs(out, j - 1, x, out[j])  BY <2>1, <1>4, <1>9 DEF Placed
  <2>3. PICK p \in 0 .. j - 1 : At(out, p) = x  BY <2>2 DEF Hangs
  <2>4. p # 0  BY <2>3, <1>1, <1>3 DEF At
  <2>5. p \in 1 .. n /\ out[p] = x  BY <2>3, <2>4, <1>2 DEF At
  <2>6. DOMAIN out = 1 .. n  BY <1>2
  <2>7. QED BY <2>5, <2>6, <1>12 DEF ToSet
<1>18. ASSUME NEW i \in 1 .. Len(new.stack)
       PROVE  /\ new.stack[i] \notin ToSet(new.out)
              /\ Hangs(new.out, Len(new.out), Parent(d, new.stack[i]), new.stack[i])
  <2>1. i \in 1 .. k + m  BY <1>8
  <2>2. CASE i \in 1 .. k /\ new.stack[i] = kids[i]
    <3>1. kids[i] # x
      <4>1. x.clock < kids[i].clock /\ x.clock \in Nat  BY <2>2, <1>1, <1>3, <1>9 DEF Id
      <4>2. QED BY <4>1
    <3>2. kids[i] \notin ToSet(new.out)  BY <2>2, <3>1, <1>16, <1>17
    <3>3. Hangs(new.out, n + 1, x, kids[i])
      <4>1. n + 1 \in 0 .. n + 1 /\ n + 1 # 0 /\ (n + 1) + 1 .. n + 1 = {}  BY <1>2
      <4>2. At(new.out, n + 1) = x  BY <4>1, <1>7 DEF At
      <4>3. QED BY <4>1, <4>2 DEF Hangs
    <3>4. QED BY <2>2, <3>2, <3>3, <1>7, <1>9
  <2>3. CASE i - k \in 1 .. m /\ new.stack[i] = rest[i - k]
    <3> DEFINE y == rest[i - k]
    <3>1. /\ y \in K /\ y \notin ToSet(out) /\ SiblingBefore(x, y)
          /\ Hangs(out, n, Parent(d, y), y)
      BY <2>3, <1>10
    <3> HIDE DEF y
    <3>2. y # x
      <4>1. x \in Id  BY <1>1, <1>3
      <4>2. ~SiblingBefore(x, x)  BY <4>1, SiblingOrder
      <4>3. QED BY <3>1, <4>2
    <3>3. Hangs(new.out, n + 1, Parent(d, y), y)
      BY <3>1, <1>2, <1>7, HangsFurther
    <3>4. y \notin ToSet(new.out)  BY <3>1, <3>2, <1>16
    <3>5. new.stack[i] = y  BY <2>3 DEF y
    <3>6. QED BY <3>3, <3>4, <3>5, <1>7
  <2>4. QED BY <2>1, <2>2, <2>3, <1>11
<1>19. ToSet(stack) \subseteq {x} \cup ToSet(new.stack)
  <2> SUFFICES ASSUME NEW i \in 1 .. Len(stack) PROVE stack[i] = x \/ stack[i] \in ToSet(new.stack)
    <3>1. DOMAIN stack = 1 .. Len(stack)  BY <1>2
    <3>2. QED BY <3>1 DEF ToSet
  <2>1. CASE i = 1  BY <2>1, <1>6
  <2>2. CASE i # 1
    <3>1. i - 1 \in 1 .. m /\ k + (i - 1) \in 1 .. k + m /\ ~(k + (i - 1) <= k)
          /\ (k + (i - 1)) - k = i - 1 /\ (i - 1) + 1 = i
      BY <2>2, <1>2, <1>6, <1>8
    <3>2. new.stack[k + (i - 1)] = stack[i]  BY <3>1, <1>6, <1>8
    <3>3. QED BY <3>1, <3>2, <1>8 DEF ToSet
  <2>3. QED BY <2>1, <2>2
<1>20. ToSet(kids) \subseteq ToSet(new.stack)
  <2> SUFFICES ASSUME NEW i \in 1 .. k PROVE kids[i] \in ToSet(new.stack)
    <3>1. DOMAIN kids = 1 .. k  BY <1>5
    <3>2. QED BY <3>1 DEF ToSet
  <2>1. i \in 1 .. k + m /\ new.stack[i] = kids[i]  BY <1>8
  <2>2. QED BY <2>1, <1>8 DEF ToSet
<1>21. ASSUME NEW c \in K, Parent(d, c) \in {Root} \cup ToSet(new.out)
       PROVE  c \in ToSet(new.out) \cup ToSet(new.stack)
  <2>1. CASE Parent(d, c) = x  BY <2>1, <1>5, <1>20
  <2>2. CASE Parent(d, c) \in {Root} \cup ToSet(out)  BY <2>2, <1>4, <1>16, <1>19
  <2>3. QED BY <2>1, <2>2, <1>16, <1>21
<1>22. Walking(d, new)
  BY <1>13, <1>14, <1>15, <1>18, <1>21 DEF Walking, K
<1>23. QED BY <1>7, <1>22 DEF new, out

LEMMA WalkStart ==
    ASSUME NEW C, NEW d \in Doc(C)
    PROVE  Walking(d, [stack |-> d.children[Root], out |-> << >>])
<1> DEFINE K == Known(d)
           stack == d.children[Root]
<1>1. /\ d.children \in [K \cup {Root} -> Seq(K)] /\ Ordered(stack)
      /\ ToSet(stack) = {id \in K : Parent(d, id) = Root}
  <2>1. d \in TreeOf(K, C) /\ WellFormed(d)  BY DocIs
  <2>2. d.children \in [K \cup {Root} -> Seq(K)]  BY <2>1 DEF TreeOf
  <2>3. QED BY <2>1, <2>2 DEF WellFormed
<1>2. stack \in Seq(K) /\ DOMAIN stack = 1 .. Len(stack) /\ Len(stack) \in Nat
  BY <1>1
<1>3. ToSet(<< >>) = {} /\ Len(<< >>) = 0  BY DEF ToSet
<1>4. Distinct(<< >>) /\ Placed(<< >>, d)  BY <1>3 DEF Distinct, Placed
<1>5. ASSUME NEW i \in 1 .. Len(stack)
      PROVE  Hangs(<< >>, 0, Parent(d, stack[i]), stack[i])
  <2>1. stack[i] \in ToSet(stack)  BY <1>2 DEF ToSet
  <2>2. Parent(d, stack[i]) = Root  BY <1>1, <2>1
  <2>3. 0 \in 0 .. 0 /\ 0 + 1 .. 0 = {}  OBVIOUS
  <2>4. QED BY <2>2, <2>3 DEF Hangs, At
<1>6. \A c \in K : Parent(d, c) \in {Root} \cup {} => c \in ToSet(stack)
  BY <1>1
<1> HIDE DEF stack, K
<1>7. QED BY <1>1, <1>3, <1>4, <1>5, <1>6 DEF Walking, stack, K

\* The elements of a sequence without repetition are as many as its positions.
LEMMA DistinctCount ==
    ASSUME NEW S, NEW s \in Seq(S), Distinct(s)
    PROVE  Cardinality(ToSet(s)) = Len(s)
<1> DEFINE f == [i \in 1 .. Len(s) |-> s[i]]
<1>1. Len(s) \in Nat /\ DOMAIN s = 1 .. Len(s)  OBVIOUS
<1>2. f \in Bijection(1 .. Len(s), ToSet(s))
  <2>1. f \in [1 .. Len(s) -> ToSet(s)]  BY <1>1 DEF ToSet
  <2>2. \A i, j \in 1 .. Len(s) : f[i] = f[j] => i = j  BY DEF Distinct
  <2>3. \A e \in ToSet(s) : \E i \in 1 .. Len(s) : f[i] = e  BY <1>1 DEF ToSet
  <2> HIDE DEF f
  <2>4. f \in Injection(1 .. Len(s), ToSet(s))  BY <2>1, <2>2 DEF Injection, IsInjective
  <2>5. f \in Surjection(1 .. Len(s), ToSet(s))  BY <2>1, <2>3 DEF Surjection
  <2>6. QED BY <2>4, <2>5 DEF Bijection
<1>3. ExistsBijection(1 .. Len(s), ToSet(s))  BY <1>2 DEF ExistsBijection
<1>4. QED BY <1>1, <1>3, FS_CountingElements

\* All that is known hangs, at the end of a chain, on the root.
LEMMA AllReached ==
    ASSUME NEW C, NEW d \in Doc(C), NEW S,
           \A c \in Known(d) : Parent(d, c) \in {Root} \cup S => c \in S
    PROVE  Known(d) \subseteq S
<1> SUFFICES ASSUME NEW x \in Known(d) \ S PROVE FALSE
  OBVIOUS
<1>1. /\ Known(d) \in SUBSET Id
      /\ \A id \in Known(d) : Parent(d, id).clock < id.clock /\ Parent(d, id) \in Known(d) \cup {Root}
  <2>1. d \in TreeOf(Known(d), C) /\ WellFormed(d) /\ Known(d) \in SUBSET Id  BY DocIs
  <2>2. d.items \in [Known(d) -> ItemType(Known(d), C)]  BY <2>1 DEF TreeOf
  <2>3. QED BY <2>1, <2>2 DEF ItemType, Parent, WellFormed
<1> DEFINE T == {n \in Nat : \E y \in Known(d) \ S : y.clock = n}
<1>2. T \in SUBSET Nat /\ T # {}
  <2>1. x.clock \in Nat  BY <1>1 DEF Id
  <2>2. QED BY <2>1
<1>3. PICK n \in T : \A k \in T : n <= k
  <2> HIDE DEF T
  <2>1. QED BY <1>2, LeastNumber
<1>4. PICK y \in Known(d) \ S : y.clock = n  BY <1>3
<1>5. Parent(d, y) \in Known(d) \ S /\ Parent(d, y).clock < n  BY <1>1, <1>4
<1>6. Parent(d, y).clock \in T  BY <1>1, <1>5 DEF Id
<1>7. QED BY <1>2, <1>3, <1>5, <1>6

\* The traversal visits every character once, each in its place.
Traverses(w, d) ==
    w \in Seq(Known(d)) /\ Distinct(w) /\ Placed(w, d) /\ ToSet(w) = Known(d)

LEMMA WalkTraverses ==
    ASSUME NEW C, NEW d \in Doc(C)
    PROVE  Traverses(Walk(d), d)
<1> DEFINE K == Known(d)
           N == Cardinality(K)
<1>1. PICK turn \in [0 .. N -> Turn(K)] : WalkRun(turn, d) /\ Walk(d) = turn[N].out
  BY DocIsTree, WalkRuns
<1>2. N \in Nat /\ IsFiniteSet(K)  BY DocIs, FS_CardinalityType
<1>3. /\ turn[0] = [stack |-> d.children[Root], out |-> << >>]
      /\ \A n \in 1 .. N : turn[n] = WalkStep(d, turn[n - 1])
  BY <1>1 DEF WalkRun
<1> HIDE DEF N
<1> DEFINE Good(n) == Walking(d, turn[n]) /\ (turn[n].stack = << >> \/ Len(turn[n].out) = n)
           T == {n \in Nat : n <= N => Good(n)}
<1>4. 0 \in T
  <2>1. Walking(d, turn[0])  BY <1>3, WalkStart
  <2>2. Len(turn[0].out) = 0  BY <1>3
  <2>3. QED BY <2>1, <2>2
<1>5. ASSUME NEW n \in T PROVE n + 1 \in T
  <2> SUFFICES ASSUME n + 1 <= N PROVE Good(n + 1)
    OBVIOUS
  <2>1. n + 1 \in 1 .. N /\ (n + 1) - 1 = n /\ n \in 0 .. N /\ Good(n)  BY <1>2
  <2>2. turn[n + 1] = WalkStep(d, turn[n]) /\ turn[n] \in Turn(K)  BY <1>1, <1>3, <2>1
  <2>3. CASE turn[n].stack = << >>
    <3>1. d \in Tree(C)  BY DocIsTree
    <3>2. WalkStep(d, turn[n]) = turn[n]  BY <2>2, <2>3, <3>1, WalkStepType
    <3>3. QED BY <2>1, <2>2, <2>3, <3>2
  <2>4. CASE turn[n].stack # << >>
    <3>1. Walking(d, WalkStep(d, turn[n])) /\ Len(WalkStep(d, turn[n]).out) = Len(turn[n].out) + 1
      BY <2>1, <2>2, <2>4, WalkStepKeeps
    <3>2. QED BY <2>1, <2>2, <2>4, <3>1
  <2>5. QED BY <2>3, <2>4
<1>6. T = Nat
  <2>1. T \in SUBSET Nat  OBVIOUS
  <2> HIDE DEF T
  <2>2. QED BY <1>4, <1>5, <2>1, SetInduction
<1>7. Good(N)
  <2> HIDE DEF Good
  <2>1. N \in T /\ N <= N  BY <1>2, <1>6
  <2>2. QED BY <2>1
<1> DEFINE w == turn[N].out
<1>8. w \in Seq(K) /\ Distinct(w) /\ Placed(w, d)
  BY <1>1, <1>2, <1>7 DEF Turn, Walking
<1>9. ToSet(w) \subseteq K
  BY <1>8 DEF ToSet
<1>10. K \subseteq ToSet(w)
  <2>1. CASE turn[N].stack = << >>
    <3>1. ToSet(turn[N].stack) = {}  BY <2>1 DEF ToSet
    <3>2. \A c \in K : Parent(d, c) \in {Root} \cup ToSet(w) => c \in ToSet(w)
      BY <1>7, <3>1 DEF Walking
    <3> HIDE DEF w
    <3>3. QED BY <3>2, AllReached
  <2>2. CASE Len(w) = N
    <3> HIDE DEF w
    <3>1. Cardinality(ToSet(w)) = Len(w)  BY <1>8, DistinctCount
    <3>2. QED BY <1>2, <1>9, <2>2, <3>1, FS_Subset DEF N
  <2>3. QED BY <1>7, <2>1, <2>2
<1>11. QED BY <1>1, <1>8, <1>9, <1>10 DEF Traverses

-----------------------------------------------------------------------------
(* Two traversals never have two characters in opposite orders             *)

Crossing(v, w, a, b) ==
    \E i, j \in 1 .. Len(v), k, l \in 1 .. Len(w) :
        i < j /\ k < l /\ v[i] = a /\ v[j] = b /\ w[k] = b /\ w[l] = a

LEMMA ParentIs ==
    ASSUME NEW C, NEW d \in Doc(C), NEW id \in Known(d)
    PROVE  Parent(d, id) \in Known(d) \cup {Root} /\ Parent(d, id).clock < id.clock
<1>1. d \in TreeOf(Known(d), C) /\ WellFormed(d)  BY DocIs
<1>2. d.items \in [Known(d) -> ItemType(Known(d), C)]  BY <1>1 DEF TreeOf
<1>3. QED BY <1>1, <1>2 DEF ItemType, Parent, WellFormed

\* If the younger one is exchanged for its parent, the crossing remains.
LEMMA CrossingAbove ==
    ASSUME NEW C, NEW d \in Doc(C), NEW e \in Doc(C), NEW v, NEW w, Traverses(v, d), Traverses(w, e),
           \A k \in Known(d) \cap Known(e) : Parent(d, k) = Parent(e, k),
           NEW a, NEW b, Crossing(v, w, a, b)
    PROVE  /\ a \in Known(d) \cap Known(e) /\ b \in Known(d) \cap Known(e)
           /\ \/ Parent(d, b) # Root /\ Crossing(v, w, a, Parent(d, b))
              \/ Parent(d, a) # Root /\ Crossing(v, w, Parent(d, a), b)
<1>1. PICK i \in 1 .. Len(v), j \in 1 .. Len(v), k \in 1 .. Len(w), l \in 1 .. Len(w) :
         i < j /\ k < l /\ v[i] = a /\ v[j] = b /\ w[k] = b /\ w[l] = a
  BY DEF Crossing
<1>2. /\ v \in Seq(Known(d)) /\ w \in Seq(Known(e)) /\ Distinct(v) /\ Distinct(w)
      /\ Placed(v, d) /\ Placed(w, e)
  BY DEF Traverses
<1>3. Len(v) \in Nat /\ Len(w) \in Nat  BY <1>2
<1>4. a \in Known(d) \cap Known(e) /\ b \in Known(d) \cap Known(e)
  BY <1>1, <1>2
<1>5. a \in Id /\ b \in Id /\ Parent(d, a) = Parent(e, a) /\ Parent(d, b) = Parent(e, b)
  <2>1. Known(d) \in SUBSET Id  BY DocIs
  <2>2. QED BY <1>4, <2>1
<1>6. PICK p \in 0 .. j - 1 : At(v, p) = Parent(d, b) /\ \A x \in p + 1 .. j - 1 : SiblingBefore(v[x], b)
  BY <1>1, <1>2 DEF Placed, Hangs
<1>7. PICK q \in 0 .. l - 1 : At(w, q) = Parent(d, a) /\ \A x \in q + 1 .. l - 1 : SiblingBefore(w[x], a)
  BY <1>1, <1>2, <1>5 DEF Placed, Hangs
\* where the parents are in the other traversal
<1>8. PICK r \in 0 .. k - 1 : At(w, r) = Parent(d, b)
  BY <1>1, <1>2, <1>5 DEF Placed, Hangs
<1>9. PICK s \in 0 .. i - 1 : At(v, s) = Parent(d, a)
  BY <1>1, <1>2 DEF Placed, Hangs
<1>10. \A x \in Known(d) \cup Known(e) : x # Root
  BY DocIs
<1>11. CASE p < i /\ q < k
  <2>1. i \in p + 1 .. j - 1 /\ k \in q + 1 .. l - 1  BY <1>11, <1>1, <1>3
  <2>2. SiblingBefore(a, b) /\ SiblingBefore(b, a)  BY <2>1, <1>1, <1>6, <1>7
  <2>3. QED BY <2>2, <1>5, SiblingOrder
<1>12. CASE p = i
  <2>1. p # 0 /\ Parent(d, b) = a  BY <1>12, <1>1, <1>6 DEF At
  <2>2. r # 0  BY <2>1, <1>4, <1>8, <1>10 DEF At
  <2>3. w[r] = w[l] /\ r \in 1 .. Len(w) /\ r # l  BY <2>1, <2>2, <1>1, <1>3, <1>8 DEF At
  <2>4. QED BY <2>3, <1>2 DEF Distinct
<1>13. CASE q = k
  <2>1. q # 0 /\ Parent(d, a) = b  BY <1>13, <1>1, <1>7 DEF At
  <2>2. s # 0  BY <2>1, <1>4, <1>9, <1>10 DEF At
  <2>3. v[s] = v[j] /\ s \in 1 .. Len(v) /\ s # j  BY <2>1, <2>2, <1>1, <1>3, <1>9 DEF At
  <2>4. QED BY <2>3, <1>2 DEF Distinct
<1>14. CASE p > i
  <2>1. p \in 1 .. Len(v) /\ v[p] = Parent(d, b)  BY <1>14, <1>1, <1>3, <1>6 DEF At
  <2>2. Parent(d, b) # Root  BY <2>1, <1>2, <1>10
  <2>3. r \in 1 .. Len(w) /\ w[r] = Parent(d, b) /\ r < l  BY <2>2, <1>1, <1>3, <1>8 DEF At
  <2>4. Crossing(v, w, a, Parent(d, b))  BY <2>1, <2>3, <1>1, <1>14 DEF Crossing
  <2>5. QED BY <2>2, <2>4, <1>4
<1>15. CASE q > k
  <2>1. q \in 1 .. Len(w) /\ w[q] = Parent(d, a)  BY <1>15, <1>1, <1>3, <1>7 DEF At
  <2>2. Parent(d, a) # Root  BY <2>1, <1>2, <1>10
  <2>3. s \in 1 .. Len(v) /\ v[s] = Parent(d, a) /\ s < j  BY <2>2, <1>1, <1>3, <1>9 DEF At
  <2>4. Crossing(v, w, Parent(d, a), b)  BY <2>1, <2>3, <1>1, <1>15 DEF Crossing
  <2>5. QED BY <2>2, <2>4, <1>4
<1>16. QED BY <1>11, <1>12, <1>13, <1>14, <1>15, <1>1, <1>3, <1>6, <1>7

LEMMA NoCrossing ==
    ASSUME NEW C, NEW d \in Doc(C), NEW e \in Doc(C), NEW v, NEW w, Traverses(v, d), Traverses(w, e),
           \A k \in Known(d) \cap Known(e) : Parent(d, k) = Parent(e, k),
           NEW a, NEW b
    PROVE  ~Crossing(v, w, a, b)
<1> SUFFICES ASSUME Crossing(v, w, a, b) PROVE FALSE
  OBVIOUS
<1> DEFINE T == {n \in Nat : \E x, y \in Known(d) : Crossing(v, w, x, y) /\ n = x.clock + y.clock}
<1>1. \A x \in Known(d) : x.clock \in Nat
  <2>1. Known(d) \in SUBSET Id  BY DocIs
  <2>2. QED BY <2>1 DEF Id
<1>2. T # {} /\ T \in SUBSET Nat
  <2>1. a \in Known(d) /\ b \in Known(d)  BY CrossingAbove
  <2>2. a.clock + b.clock \in T  BY <1>1, <2>1
  <2>3. QED BY <2>2
<1>3. PICK n \in T : \A k \in T : n <= k
  <2> HIDE DEF T
  <2>1. QED BY <1>2, LeastNumber
<1>4. PICK x \in Known(d), y \in Known(d) : Crossing(v, w, x, y) /\ n = x.clock + y.clock
  BY <1>3
<1>5. \/ Parent(d, y) # Root /\ Crossing(v, w, x, Parent(d, y))
      \/ Parent(d, x) # Root /\ Crossing(v, w, Parent(d, x), y)
  BY <1>4, CrossingAbove
<1>6. /\ Parent(d, x) \in Known(d) \cup {Root} /\ Parent(d, x).clock < x.clock
      /\ Parent(d, y) \in Known(d) \cup {Root} /\ Parent(d, y).clock < y.clock
  BY ParentIs
<1>7. CASE Parent(d, y) # Root /\ Crossing(v, w, x, Parent(d, y))
  <2>1. x.clock + Parent(d, y).clock \in T  BY <1>1, <1>6, <1>7
  <2>2. x.clock + Parent(d, y).clock < n  BY <1>1, <1>4, <1>6, <1>7
  <2>3. QED BY <1>3, <2>1, <2>2, <1>1, <1>6, <1>7
<1>8. CASE Parent(d, x) # Root /\ Crossing(v, w, Parent(d, x), y)
  <2>1. Parent(d, x).clock + y.clock \in T  BY <1>1, <1>6, <1>8
  <2>2. Parent(d, x).clock + y.clock < n  BY <1>1, <1>4, <1>6, <1>8
  <2>3. QED BY <1>3, <2>1, <2>2, <1>1, <1>6, <1>8
<1>9. QED BY <1>5, <1>7, <1>8

\* Which of two characters comes first.
Precedes(w, a, b) == \E i, j \in 1 .. Len(w) : i < j /\ w[i] = a /\ w[j] = b

LEMMA SameOrder ==
    ASSUME NEW C, NEW d \in Doc(C), NEW e \in Doc(C), NEW v, NEW w, Traverses(v, d), Traverses(w, e),
           \A k \in Known(d) \cap Known(e) : Parent(d, k) = Parent(e, k),
           NEW a \in Known(e), NEW b \in Known(e), Precedes(v, a, b)
    PROVE  Precedes(w, a, b)
<1>1. PICK i \in 1 .. Len(v), j \in 1 .. Len(v) : i < j /\ v[i] = a /\ v[j] = b
  BY DEF Precedes
<1>2. v \in Seq(Known(d)) /\ w \in Seq(Known(e)) /\ Distinct(v) /\ ToSet(w) = Known(e)
  BY DEF Traverses
<1>3. DOMAIN w = 1 .. Len(w) /\ Len(w) \in Nat /\ Len(v) \in Nat  BY <1>2
<1>4. PICK k \in 1 .. Len(w), l \in 1 .. Len(w) : w[k] = a /\ w[l] = b
  BY <1>2, <1>3 DEF ToSet
<1>5. a # b  BY <1>1, <1>2, <1>3 DEF Distinct
<1>6. ~(l < k)
  <2> SUFFICES ASSUME l < k PROVE FALSE
    OBVIOUS
  <2>1. Crossing(v, w, a, b)  BY <1>1, <1>4 DEF Crossing
  <2>2. QED BY <2>1, NoCrossing
<1>7. k < l  BY <1>3, <1>4, <1>5, <1>6
<1>8. QED BY <1>4, <1>7 DEF Precedes

LEMMA PrecedesAsymmetric ==
    ASSUME NEW w, Len(w) \in Nat, Distinct(w)
    PROVE  \A a, b : ~(Precedes(w, a, b) /\ Precedes(w, b, a))
<1> SUFFICES ASSUME NEW a, NEW b, Precedes(w, a, b), Precedes(w, b, a) PROVE FALSE
  OBVIOUS
<1>1. PICK i \in 1 .. Len(w), j \in 1 .. Len(w) : i < j /\ w[i] = a /\ w[j] = b
  BY DEF Precedes
<1>2. PICK k \in 1 .. Len(w), l \in 1 .. Len(w) : k < l /\ w[k] = b /\ w[l] = a
  BY DEF Precedes
<1>3. i = l /\ j = k  BY <1>1, <1>2 DEF Distinct
<1>4. QED BY <1>1, <1>2, <1>3

\* A sequence whose elements come as they do in w.
InOrder(s, w) == \A i, j \in DOMAIN s : i < j => Precedes(w, s[i], s[j])

LEMMA InOrderUnique ==
    ASSUME NEW S, NEW s \in Seq(S), NEW t \in Seq(S), NEW w \in Seq(S), Distinct(w),
           InOrder(s, w), InOrder(t, w), ToSet(s) = ToSet(t)
    PROVE  s = t
<1> DEFINE R == {p \in S \X S : Precedes(w, p[1], p[2])}
<1>1. \A a \in S, b \in S : <<a, b>> \in R <=> Precedes(w, a, b)
  OBVIOUS
<1>2. Asymmetric(R)
  <2> SUFFICES ASSUME NEW a, NEW b, <<a, b>> \in R, <<b, a>> \in R PROVE FALSE
    BY DEF Asymmetric
  <2>1. Precedes(w, a, b) /\ Precedes(w, b, a) /\ Len(w) \in Nat  OBVIOUS
  <2>2. QED BY <2>1, PrecedesAsymmetric
<1> HIDE DEF R
<1>3. SortedBy(s, R) /\ SortedBy(t, R)
  <2>1. (\A i \in DOMAIN s : s[i] \in S) /\ \A i \in DOMAIN t : t[i] \in S  OBVIOUS
  <2>2. QED BY <1>1, <2>1 DEF InOrder, SortedBy
<1>4. QED BY <1>2, <1>3, SortedUnique

\* What is shown: the characters that are not buried, as the traversal visits them.
Shows(s, d) ==
    /\ s \in Seq(Known(d)) /\ Distinct(s) /\ InOrder(s, Walk(d))
    /\ ToSet(s) = {k \in Known(d) : ~d.items[k].del}

LEMMA OrderDistinct ==
    ASSUME NEW s, NEW w, DOMAIN s = 1 .. Len(s), Len(s) \in Nat, Len(w) \in Nat, Distinct(w), InOrder(s, w)
    PROVE  Distinct(s)
<1> SUFFICES ASSUME NEW i \in 1 .. Len(s), NEW j \in 1 .. Len(s), i < j, s[i] = s[j] PROVE FALSE
  BY DEF Distinct
<1>1. Precedes(w, s[i], s[j])  BY DEF InOrder
<1>2. QED BY <1>1, PrecedesAsymmetric

-----------------------------------------------------------------------------
(* The traversal of any tree: what comes off the stack                     *)

\* What holds whenever the loop of walk turns: nothing is met twice, since it hangs
\* on what was visited before.
Reached(d, st) ==
    /\ Distinct(st.stack) /\ Distinct(st.out)
    /\ \A x \in ToSet(st.stack) : x \notin ToSet(st.out)
    /\ \A x \in ToSet(st.stack) \cup ToSet(st.out) : Parent(d, x) \in {Root} \cup ToSet(st.out)

LEMMA AppendKeeps ==
    ASSUME NEW S, NEW s \in Seq(S), NEW e \in S
    PROVE  /\ Append(s, e) \in Seq(S) /\ Len(Append(s, e)) = Len(s) + 1
           /\ Append(s, e)[Len(s) + 1] = e /\ \A i \in 1 .. Len(s) : Append(s, e)[i] = s[i]
           /\ ToSet(Append(s, e)) = ToSet(s) \cup {e}
           /\ Distinct(s) /\ e \notin ToSet(s) => Distinct(Append(s, e))
<1> DEFINE t == Append(s, e)
           n == Len(s)
<1>1. /\ t \in Seq(S) /\ Len(t) = n + 1 /\ n \in Nat /\ DOMAIN s = 1 .. n /\ DOMAIN t = 1 .. n + 1
      /\ t[n + 1] = e /\ \A i \in 1 .. n : t[i] = s[i]
  OBVIOUS
<1> HIDE DEF t, n
<1>2. 1 .. n + 1 = (1 .. n) \cup {n + 1}  BY <1>1
<1>3. ToSet(t) = ToSet(s) \cup {e}
  BY <1>1, <1>2 DEF ToSet
<1>4. ASSUME Distinct(s), e \notin ToSet(s) PROVE Distinct(t)
  <2> SUFFICES ASSUME NEW i \in 1 .. n + 1, NEW j \in 1 .. n + 1, i < j PROVE t[i] # t[j]
    BY <1>1 DEF Distinct
  <2>1. i \in 1 .. n /\ t[i] = s[i] /\ s[i] # e
    <3>1. i \in 1 .. n  BY <1>1
    <3>2. QED BY <3>1, <1>1, <1>4 DEF ToSet
  <2>2. CASE j = n + 1  BY <2>1, <2>2, <1>1
  <2>3. CASE j \in 1 .. n  BY <2>1, <2>3, <1>1, <1>4 DEF Distinct, n
  <2>4. QED BY <2>2, <2>3, <1>2
<1>5. QED BY <1>1, <1>3, <1>4 DEF t, n

LEMMA ConcatKeeps ==
    ASSUME NEW S, NEW s \in Seq(S), NEW t \in Seq(S)
    PROVE  /\ ToSet(s \o t) = ToSet(s) \cup ToSet(t)
           /\ Distinct(s) /\ Distinct(t) /\ ToSet(s) \cap ToSet(t) = {} => Distinct(s \o t)
<1> DEFINE u == s \o t
           n == Len(s)
           m == Len(t)
<1>1. /\ n \in Nat /\ m \in Nat /\ DOMAIN s = 1 .. n /\ DOMAIN t = 1 .. m
      /\ Len(u) = n + m /\ DOMAIN u = 1 .. n + m
      /\ \A i \in 1 .. n + m : u[i] = IF i <= n THEN s[i] ELSE t[i - n]
  BY ConcatIs
<1> HIDE DEF u, n, m
<1>2. \A i \in 1 .. n + m : \/ i \in 1 .. n /\ u[i] = s[i]
                            \/ i > n /\ i - n \in 1 .. m /\ u[i] = t[i - n]
  BY <1>1
<1>3. \A j \in 1 .. m : n + j \in 1 .. n + m /\ u[n + j] = t[j]
  <2> SUFFICES ASSUME NEW j \in 1 .. m PROVE n + j \in 1 .. n + m /\ u[n + j] = t[j]
    OBVIOUS
  <2>1. n + j \in 1 .. n + m /\ ~(n + j <= n) /\ (n + j) - n = j  BY <1>1
  <2>2. QED BY <2>1, <1>1
<1>4. \A i \in 1 .. n : i \in 1 .. n + m /\ u[i] = s[i]
  BY <1>1
<1>5. ToSet(u) = ToSet(s) \cup ToSet(t)
  <2>1. /\ ToSet(u) = {u[i] : i \in 1 .. n + m} /\ ToSet(s) = {s[i] : i \in 1 .. n}
        /\ ToSet(t) = {t[i] : i \in 1 .. m}
    BY <1>1 DEF ToSet
  <2>2. \A i \in 1 .. n + m : (\E j \in 1 .. n : u[i] = s[j]) \/ \E j \in 1 .. m : u[i] = t[j]
    BY <1>2
  <2>3. QED BY <2>1, <2>2, <1>3, <1>4
<1>6. ASSUME Distinct(s), Distinct(t), ToSet(s) \cap ToSet(t) = {} PROVE Distinct(u)
  <2> SUFFICES ASSUME NEW i \in 1 .. n + m, NEW j \in 1 .. n + m, i < j PROVE u[i] # u[j]
    BY <1>1 DEF Distinct
  <2>1. CASE i \in 1 .. n /\ j \in 1 .. n  BY <2>1, <1>4, <1>6 DEF Distinct, n
  <2>2. CASE i \in 1 .. n /\ j > n
    <3>1. j - n \in 1 .. m /\ u[j] = t[j - n] /\ u[i] = s[i]  BY <2>2, <1>2, <1>4, <1>1
    <3>2. s[i] \in ToSet(s) /\ t[j - n] \in ToSet(t)  BY <2>2, <3>1, <1>1 DEF ToSet
    <3>3. QED BY <3>1, <3>2, <1>6
  <2>3. CASE i > n /\ j > n
    <3>1. /\ i - n \in 1 .. m /\ j - n \in 1 .. m /\ i - n # j - n
          /\ u[i] = t[i - n] /\ u[j] = t[j - n]
      BY <2>3, <1>1, <1>2
    <3>2. QED BY <3>1, <1>6 DEF Distinct, m
  <2>4. QED BY <2>1, <2>2, <2>3, <1>1
<1>7. QED BY <1>5, <1>6 DEF u

LEMMA HeadTailIs ==
    ASSUME NEW S, NEW s \in Seq(S), s # << >>
    PROVE  /\ Head(s) \in S /\ Tail(s) \in Seq(S) /\ s = <<Head(s)>> \o Tail(s)
           /\ ToSet(s) = {Head(s)} \cup ToSet(Tail(s))
           /\ Distinct(s) => Distinct(Tail(s)) /\ Head(s) \notin ToSet(Tail(s))
<1> DEFINE t == Tail(s)
           n == Len(s)
<1>1. /\ Head(s) \in S /\ t \in Seq(S) /\ n \in Nat /\ n > 0 /\ DOMAIN s = 1 .. n /\ Len(t) = n - 1
      /\ DOMAIN t = 1 .. n - 1 /\ Head(s) = s[1] /\ \A i \in 1 .. n - 1 : t[i] = s[i + 1]
  OBVIOUS
<1>2. s = <<Head(s)>> \o t
  OBVIOUS
<1> HIDE DEF t, n
<1>3. \A i \in 1 .. n : i = 1 \/ (i - 1 \in 1 .. n - 1 /\ s[i] = t[i - 1])
  <2> SUFFICES ASSUME NEW i \in 1 .. n, i # 1 PROVE i - 1 \in 1 .. n - 1 /\ s[i] = t[i - 1]
    OBVIOUS
  <2>1. i - 1 \in 1 .. n - 1 /\ (i - 1) + 1 = i  BY <1>1
  <2>2. QED BY <2>1, <1>1
<1>4. 1 \in 1 .. n /\ \A i \in 1 .. n - 1 : i + 1 \in 1 .. n  BY <1>1
<1>5. ToSet(s) = {Head(s)} \cup ToSet(t)
  <2>1. ToSet(s) = {s[i] : i \in 1 .. n} /\ ToSet(t) = {t[i] : i \in 1 .. n - 1}  BY <1>1 DEF ToSet
  <2>2. \A i \in 1 .. n : s[i] = Head(s) \/ \E j \in 1 .. n - 1 : s[i] = t[j]  BY <1>1, <1>3
  <2>3. \A j \in 1 .. n - 1 : \E i \in 1 .. n : s[i] = t[j]  BY <1>1, <1>4
  <2>4. QED BY <2>1, <2>2, <2>3, <1>1, <1>4
<1>6. ASSUME Distinct(s) PROVE Distinct(t) /\ Head(s) \notin ToSet(t)
  <2>1. \A i, j \in 1 .. n - 1 : i # j => i + 1 # j + 1  BY <1>1
  <2>2. \A i \in 1 .. n - 1 : i + 1 # 1  BY <1>1
  <2>3. \A i, j \in 1 .. n - 1 : i # j => s[i + 1] # s[j + 1]  BY <1>4, <1>6, <2>1 DEF Distinct, n
  <2>4. \A i \in 1 .. n - 1 : s[i + 1] # s[1]  BY <1>4, <1>6, <2>2 DEF Distinct, n
  <2>5. Distinct(t)  BY <1>1, <2>3 DEF Distinct
  <2>6. ToSet(t) = {t[i] : i \in 1 .. n - 1}  BY <1>1 DEF ToSet
  <2>7. QED BY <1>1, <2>4, <2>5, <2>6
<1>7. QED BY <1>1, <1>2, <1>5, <1>6 DEF t

LEMMA WalkStepReaches ==
    ASSUME NEW C, NEW d \in Tree(C), NEW st \in Turn(Known(d)), Reached(d, st), st.stack # << >>
    PROVE  /\ Reached(d, WalkStep(d, st)) /\ Len(WalkStep(d, st).out) = Len(st.out) + 1
           /\ WalkStep(d, st).out[Len(st.out) + 1] = Head(st.stack)
           /\ \A i \in 1 .. Len(st.out) : WalkStep(d, st).out[i] = st.out[i]
<1> DEFINE K == Known(d)
           x == Head(st.stack)
           rest == Tail(st.stack)
           kids == d.children[x]
           new == WalkStep(d, st)
<1>1. /\ K \in SUBSET Id /\ Root \notin K /\ d.children \in [K \cup {Root} -> Seq(K)]
      /\ \A p \in K \cup {Root} : Distinct(d.children[p])
      /\ \A p \in K \cup {Root} : ToSet(d.children[p]) = {id \in K : Parent(d, id) = p}
  <2>1. K \in SUBSET Id /\ Root \notin K /\ d \in TreeOf(K, C) /\ WellBuilt(d)  BY TreeIs
  <2>2. d.children \in [K \cup {Root} -> Seq(K)]  BY <2>1 DEF TreeOf
  <2>3. QED BY <2>1, <2>2 DEF WellBuilt
<1>2. st.stack \in Seq(K) /\ st.out \in Seq(K)  BY DEF Turn
<1>3. /\ x \in K /\ rest \in Seq(K) /\ ToSet(st.stack) = {x} \cup ToSet(rest)
      /\ Distinct(rest) /\ x \notin ToSet(rest)
  BY <1>2, HeadTailIs DEF Reached
<1>4. new.stack = kids \o rest /\ new.out = Append(st.out, x)
  BY <1>3, WalkStepType
<1>5. kids \in Seq(K) /\ Distinct(kids) /\ ToSet(kids) = {id \in K : Parent(d, id) = x}
  BY <1>1, <1>3
<1> HIDE DEF K, x, rest, kids, new
<1>6. ToSet(st.out) \subseteq K  BY <1>2 DEF ToSet
<1>7. /\ Len(new.out) = Len(st.out) + 1 /\ new.out[Len(st.out) + 1] = x
      /\ \A i \in 1 .. Len(st.out) : new.out[i] = st.out[i]
      /\ ToSet(new.out) = ToSet(st.out) \cup {x} /\ Distinct(new.out)
  BY <1>2, <1>3, <1>4, AppendKeeps DEF Reached
<1>8. \A k \in ToSet(kids) : Parent(d, k) = x  BY <1>5
<1>9. x \notin {Root} \cup ToSet(st.out) /\ Parent(d, x) # x
  BY <1>1, <1>3 DEF Reached
<1>10. \A k \in ToSet(st.stack) \cup ToSet(st.out) : Parent(d, k) # x
  BY <1>9 DEF Reached
<1>11. ToSet(kids) \cap ToSet(rest) = {}  BY <1>3, <1>8, <1>10
<1>12. ToSet(new.stack) = ToSet(kids) \cup ToSet(rest) /\ Distinct(new.stack)
  BY <1>3, <1>4, <1>5, <1>11, ConcatKeeps
<1>13. \A k \in ToSet(new.stack) : k \notin ToSet(new.out)
  BY <1>3, <1>7, <1>8, <1>9, <1>10, <1>12 DEF Reached
<1>14. \A k \in ToSet(new.stack) \cup ToSet(new.out) : Parent(d, k) \in {Root} \cup ToSet(new.out)
  BY <1>3, <1>7, <1>8, <1>12 DEF Reached
<1>15. Reached(d, new)  BY <1>7, <1>12, <1>13, <1>14 DEF Reached
<1>16. QED BY <1>7, <1>15 DEF new, x

\* w is what comes off a stack that begins with the children of the root.
Unfolds(stack, w, d) ==
    /\ stack[0] = d.children[Root] /\ stack[Len(w)] = << >>
    /\ \A n \in 1 .. Len(w) : /\ stack[n - 1] # << >> /\ Head(stack[n - 1]) = w[n]
                              /\ stack[n] = d.children[w[n]] \o Tail(stack[n - 1])

LEMMA WalkUnfolds ==
    ASSUME NEW C, NEW d \in Tree(C)
    PROVE  /\ Walk(d) \in Seq(Known(d)) /\ Distinct(Walk(d))
           /\ \E stack \in [0 .. Len(Walk(d)) -> Seq(Known(d))] : Unfolds(stack, Walk(d), d)
<1> DEFINE K == Known(d)
           N == Cardinality(K)
<1>1. PICK turn \in [0 .. N -> Turn(K)] : WalkRun(turn, d) /\ Walk(d) = turn[N].out
  BY WalkRuns
<1>2. /\ N \in Nat /\ IsFiniteSet(K) /\ d.children[Root] \in Seq(K) /\ Distinct(d.children[Root])
      /\ ToSet(d.children[Root]) = {id \in K : Parent(d, id) = Root}
  <2>1. IsFiniteSet(K) /\ d \in TreeOf(K, C) /\ WellBuilt(d)  BY TreeIs
  <2>2. N \in Nat  BY <2>1, FS_CardinalityType
  <2>3. QED BY <2>1, <2>2 DEF TreeOf, WellBuilt
<1>3. /\ turn[0] = [stack |-> d.children[Root], out |-> << >>]
      /\ \A n \in 1 .. N : turn[n] = WalkStep(d, turn[n - 1])
  BY <1>1 DEF WalkRun
<1> HIDE DEF N
<1> DEFINE Stack(n) == turn[n].stack
           Out(n) == turn[n].out
           Turned(i) == /\ Stack(i - 1) # << >>
                        /\ Stack(i) = d.children[Head(Stack(i - 1))] \o Tail(Stack(i - 1))
           Good(n) == /\ Reached(d, turn[n]) /\ Len(Out(n)) \in 0 .. n
                      /\ Stack(n) # << >> => Len(Out(n)) = n
                      /\ Stack(Len(Out(n))) = Stack(n)
                      /\ \A i \in 1 .. Len(Out(n)) : Turned(i) /\ Out(n)[i] = Head(Stack(i - 1))
           T == {n \in Nat : n <= N => Good(n)}
<1>4. Good(0)
  <2>1. Reached(d, turn[0])
    <3>1. ToSet(<< >>) = {} /\ Distinct(<< >>)  BY DEF ToSet, Distinct
    <3>2. QED BY <1>2, <1>3, <3>1 DEF Reached
  <2>2. Out(0) = << >> /\ Len(<< >>) = 0  BY <1>3
  <2>3. QED BY <2>1, <2>2
<1>5. ASSUME NEW n \in Nat, n + 1 <= N, Good(n) PROVE Good(n + 1)
  <2> HIDE DEF Good
  <2>1. n \in Nat /\ n + 1 \in 1 .. N /\ (n + 1) - 1 = n /\ n \in 0 .. N /\ Good(n)  BY <1>2, <1>5
  <2> USE DEF Good
  <2>2. turn[n + 1] = WalkStep(d, turn[n]) /\ turn[n] \in Turn(K)  BY <1>1, <1>3, <2>1
  <2>3. CASE Stack(n) = << >>
    <3>1. turn[n + 1] = turn[n]  BY <2>2, <2>3, WalkStepType
    <3>2. Len(Out(n)) \in 0 .. n + 1
      <4> DEFINE l == Len(Out(n))
      <4>1. l \in 0 .. n  BY <2>1, ZenonT(40)
      <4> HIDE DEF l
      <4>2. l \in 0 .. n + 1  BY <2>1, <4>1
      <4>3. QED BY <4>2 DEF l
    <3>3. Stack(n + 1) = Stack(n) /\ Out(n + 1) = Out(n)  BY <3>1
    <3>4. /\ Reached(d, turn[n]) /\ Stack(Len(Out(n))) = Stack(n)
          /\ \A i \in 1 .. Len(Out(n)) : Turned(i) /\ Out(n)[i] = Head(Stack(i - 1))
      BY <2>1
    <3>5. Stack(n + 1) = << >>  BY <2>3, <3>3
    <3> HIDE DEF Turned, Stack, Out
    <3>6. Stack(Len(Out(n + 1))) = Stack(n + 1) /\ Reached(d, turn[n + 1])  BY <3>1, <3>3, <3>4
    <3>7. \A i \in 1 .. Len(Out(n + 1)) : Turned(i) /\ Out(n + 1)[i] = Head(Stack(i - 1))
      BY <3>3, <3>4
    <3>8. Len(Out(n + 1)) \in 0 .. n + 1  BY <3>2, <3>3
    <3>9. QED BY <3>5, <3>6, <3>7, <3>8
  <2>4. CASE Stack(n) # << >>
    <3>1. /\ Reached(d, turn[n + 1]) /\ Len(Out(n + 1)) = Len(Out(n)) + 1
          /\ Out(n + 1)[Len(Out(n)) + 1] = Head(Stack(n))
          /\ \A i \in 1 .. Len(Out(n)) : Out(n + 1)[i] = Out(n)[i]
      <4> DEFINE st == turn[n]
      <4>1. st \in Turn(Known(d)) /\ Reached(d, st) /\ st.stack # << >>  BY <2>1, <2>2, <2>4
      <4>2. turn[n + 1] = WalkStep(d, st)  BY <2>2
      <4> HIDE DEF st
      <4>3. /\ Reached(d, WalkStep(d, st)) /\ Len(WalkStep(d, st).out) = Len(st.out) + 1
            /\ WalkStep(d, st).out[Len(st.out) + 1] = Head(st.stack)
            /\ \A i \in 1 .. Len(st.out) : WalkStep(d, st).out[i] = st.out[i]
        BY <4>1, WalkStepReaches
      <4>4. QED BY <4>2, <4>3 DEF st
    <3>2. Stack(n + 1) = d.children[Head(Stack(n))] \o Tail(Stack(n))
      <4>1. WalkStep(d, turn[n]).stack = d.children[Head(turn[n].stack)] \o Tail(turn[n].stack)
        BY <2>2, <2>4, WalkStepType
      <4>2. QED BY <4>1, <2>2
    <3>3. Len(Out(n)) = n  BY <2>1, <2>4
    <3>4. /\ \A i \in 1 .. n : Turned(i) /\ Out(n)[i] = Head(Stack(i - 1))
          /\ Turned(n + 1)
      BY <2>1, <2>4, <3>2, <3>3
    <3> HIDE DEF Turned, Stack, Out
    <3>5. \A i \in 1 .. n + 1 : Turned(i) /\ Out(n + 1)[i] = Head(Stack(i - 1))
      <4>1. 1 .. n + 1 = (1 .. n) \cup {n + 1}  BY <2>1
      <4>2. QED BY <2>1, <3>1, <3>3, <3>4, <4>1
    <3>6. n + 1 \in 0 .. n + 1  BY <2>1
    <3>7. QED BY <3>1, <3>3, <3>5, <3>6
  <2>5. QED BY <2>3, <2>4
<1>6. T = Nat
  <2> HIDE DEF Good
  <2>1. T \in SUBSET Nat  OBVIOUS
  <2>2. 0 \in T  BY <1>4
  <2>3. ASSUME NEW n \in T PROVE n + 1 \in T
    <3>1. n \in Nat /\ (n + 1 <= N => n <= N)  BY <1>2
    <3>2. QED BY <3>1, <1>5
  <2> HIDE DEF T
  <2>4. QED BY <2>1, <2>2, <2>3, SetInduction
<1>7. Good(N)
  <2> HIDE DEF Good
  <2>1. N \in T /\ N <= N  BY <1>2, <1>6
  <2>2. QED BY <2>1
<1> DEFINE w == Walk(d)
           L == Len(w)
           stack == [n \in 0 .. L |-> turn[n].stack]
<1>8. w = Out(N) /\ w \in Seq(K) /\ Distinct(w) /\ L \in 0 .. N /\ turn[N] \in Turn(K)
  <2>1. turn[N] \in Turn(K)  BY <1>1, <1>2
  <2>2. QED BY <1>1, <1>2, <1>7, <2>1 DEF Turn, Reached
<1>9. Stack(N) = << >>
  <2> SUFFICES ASSUME Stack(N) # << >> PROVE FALSE
    OBVIOUS
  <2>1. L = N  BY <1>7, <1>8
  <2>2. ToSet(w) \subseteq K  BY <1>8 DEF ToSet
  <2>3. Cardinality(ToSet(w)) = L
    <3> HIDE DEF w
    <3>1. QED BY <1>8, DistinctCount
  <2>4. ToSet(w) = K  BY <1>2, <2>1, <2>2, <2>3, FS_Subset DEF N
  <2>5. Head(Stack(N)) \in K /\ Head(Stack(N)) \in ToSet(Stack(N))
    <3> DEFINE s == Stack(N)
    <3>1. s \in Seq(K) /\ s # << >>
      <4> DEFINE t == turn[N]
      <4>1. t \in Turn(K)  BY <1>8
      <4> HIDE DEF t, K
      <4>2. t.stack \in Seq(K)  BY <4>1 DEF Turn
      <4>3. QED BY <4>2 DEF t
    <3> HIDE DEF s
    <3>2. Head(s) \in K /\ Head(s) \in ToSet(s)
      <4> HIDE DEF K
      <4>1. Head(s) \in K /\ ToSet(s) = {Head(s)} \cup ToSet(Tail(s))  BY <3>1, HeadTailIs
      <4>2. QED BY <4>1
    <3>3. QED BY <3>2 DEF s
  <2>6. Head(Stack(N)) \notin ToSet(Out(N))  BY <1>7, <2>5 DEF Reached
  <2>7. QED BY <1>8, <2>4, <2>5, <2>6
<1>10. stack \in [0 .. L -> Seq(K)]
  <2>1. \A n \in 0 .. L : n \in 0 .. N  BY <1>8, <1>2
  <2>2. \A n \in 0 .. L : turn[n].stack \in Seq(K)  BY <1>1, <2>1 DEF Turn
  <2>3. QED BY <2>2
<1>11. Unfolds(stack, w, d)
  <2>1. L \in Nat /\ L \in 0 .. L /\ 0 \in 0 .. L  BY <1>2, <1>8
  <2>2. stack[0] = d.children[Root]  BY <1>3, <2>1
  <2>3. stack[L] = << >>  BY <1>7, <1>8, <1>9, <2>1
  <2>4. ASSUME NEW n \in 1 .. L
        PROVE  /\ stack[n - 1] # << >> /\ Head(stack[n - 1]) = w[n]
               /\ stack[n] = d.children[w[n]] \o Tail(stack[n - 1])
    <3>1. n \in 0 .. L /\ n - 1 \in 0 .. L  BY <2>1
    <3>2. Turned(n) /\ w[n] = Head(Stack(n - 1))  BY <1>7, <1>8
    <3>3. stack[n] = Stack(n) /\ stack[n - 1] = Stack(n - 1)  BY <3>1
    <3> HIDE DEF stack, w
    <3>4. QED BY <3>2, <3>3
  <2> HIDE DEF stack, w
  <2>5. QED BY <2>2, <2>3, <2>4 DEF Unfolds
<1> HIDE DEF stack, w
<1>12. QED BY <1>8, <1>10, <1>11 DEF w

\* Nothing else comes off the stack.
LEMMA UnfoldsOnce ==
    ASSUME NEW C, NEW d \in Tree(C), NEW w \in Seq(Known(d)),
           NEW stack \in [0 .. Len(w) -> Seq(Known(d))], Unfolds(stack, w, d)
    PROVE  Walk(d) = w
<1> DEFINE v == Walk(d)
<1>1. PICK st \in [0 .. Len(v) -> Seq(Known(d))] : Unfolds(st, v, d)
  BY WalkUnfolds
<1>2. v \in Seq(Known(d)) /\ Len(v) \in Nat /\ Len(w) \in Nat  BY WalkUnfolds
<1> HIDE DEF v
<1> DEFINE Good(n) == n <= Len(v) /\ stack[n] = st[n] /\ \A i \in 1 .. n : w[i] = v[i]
           T == {n \in Nat : n <= Len(w) => Good(n)}
<1>3. 0 \in T  BY <1>1, <1>2 DEF Unfolds
<1>4. ASSUME NEW n \in T PROVE n + 1 \in T
  <2> SUFFICES ASSUME n + 1 <= Len(w) PROVE Good(n + 1)
    OBVIOUS
  <2>1. n \in Nat /\ n + 1 \in 1 .. Len(w) /\ (n + 1) - 1 = n /\ Good(n)  BY <1>2
  <2>2. stack[n] # << >> /\ Head(stack[n]) = w[n + 1] /\ stack[n + 1] = d.children[w[n + 1]] \o Tail(stack[n])
    BY <2>1 DEF Unfolds
  <2>3. n # Len(v)  BY <1>1, <2>1, <2>2 DEF Unfolds
  <2>4. n + 1 \in 1 .. Len(v)  BY <1>2, <2>1, <2>3
  <2>5. Head(st[n]) = v[n + 1] /\ st[n + 1] = d.children[v[n + 1]] \o Tail(st[n])
    BY <1>1, <2>1, <2>4 DEF Unfolds
  <2>6. w[n + 1] = v[n + 1] /\ stack[n + 1] = st[n + 1]  BY <2>1, <2>2, <2>5
  <2>7. 1 .. n + 1 = (1 .. n) \cup {n + 1}  BY <2>1
  <2>8. QED BY <1>2, <2>1, <2>4, <2>6, <2>7
<1>5. T = Nat
  <2>1. T \in SUBSET Nat  OBVIOUS
  <2> HIDE DEF T
  <2>2. QED BY <1>3, <1>4, <2>1, SetInduction
<1>6. Good(Len(w))
  <2>1. Len(w) \in T /\ Len(w) <= Len(w)  BY <1>2, <1>5
  <2> HIDE DEF Good
  <2>2. QED BY <2>1
<1>7. Len(w) = Len(v)
  <2> SUFFICES ASSUME Len(w) < Len(v) PROVE FALSE
    BY <1>2, <1>6
  <2>1. Len(w) + 1 \in 1 .. Len(v) /\ (Len(w) + 1) - 1 = Len(w)  BY <1>2
  <2>2. st[Len(w)] # << >>  BY <1>1, <2>1 DEF Unfolds
  <2>3. QED BY <1>6, <2>2 DEF Unfolds
<1>8. QED BY <1>2, <1>6, <1>7, SameSequence DEF v

\* What is shown of any tree: what is not buried, in the order of the traversal.
Displays(s, d) ==
    /\ s \in Seq(Known(d)) /\ Distinct(s) /\ InOrder(s, Walk(d))
    /\ ToSet(s) = {k \in ToSet(Walk(d)) : ~d.items[k].del}

LEMMA VisibleOfTree ==
    ASSUME NEW C, NEW d \in Tree(C)
    PROVE  Displays(VisibleIDs(d), d)
<1> DEFINE w == Walk(d)
           N == Len(w)
           K == Known(d)
<1>1. PICK shown \in [0 .. N -> Seq(K)] : ShownRun(shown, d, w) /\ VisibleIDs(d) = shown[N]
  BY VisibleRuns
<1>2. w \in Seq(K) /\ Distinct(w)  BY WalkUnfolds
<1> HIDE DEF w
<1>3. w \in Seq(K) /\ Distinct(w) /\ N \in Nat /\ DOMAIN w = 1 .. N
      /\ \A i \in 1 .. N : w[i] \in K
  BY <1>2
<1>4. shown[0] = << >> /\ \A n \in 1 .. N : shown[n] = Visit(d, shown[n - 1], w[n])
  BY <1>1 DEF ShownRun
<1> HIDE DEF N
<1> DEFINE Good(n) == /\ InOrder(shown[n], w)
                      /\ ToSet(shown[n]) = {w[i] : i \in {j \in 1 .. n : ~d.items[w[j]].del}}
           T == {n \in Nat : n <= N => Good(n)}
<1>5. 0 \in T
  <2>1. ToSet(shown[0]) = {} /\ DOMAIN shown[0] = {}  BY <1>4 DEF ToSet
  <2>2. 1 .. 0 = {}  OBVIOUS
  <2>3. QED BY <2>1, <2>2 DEF InOrder
<1>6. ASSUME NEW n \in T PROVE n + 1 \in T
  <2> SUFFICES ASSUME n + 1 <= N PROVE Good(n + 1)
    OBVIOUS
  <2> DEFINE s == shown[n]
             id == w[n + 1]
  <2>1. n \in Nat /\ n + 1 \in 1 .. N /\ n \in 0 .. N /\ (n + 1) - 1 = n /\ Good(n)  BY <1>3
  <2>2. shown[n + 1] = Visit(d, s, id) /\ s \in Seq(K) /\ id \in K  BY <1>1, <1>3, <1>4, <2>1
  <2>3. 1 .. n + 1 = (1 .. n) \cup {n + 1}  BY <2>1
  <2>4. InOrder(s, w) /\ ToSet(s) = {w[i] : i \in {j \in 1 .. n : ~d.items[w[j]].del}}  BY <2>1
  <2>5. CASE d.items[id].del
    <3>1. shown[n + 1] = s  BY <2>2, <2>5 DEF Visit
    <3>2. {j \in 1 .. n + 1 : ~d.items[w[j]].del} = {j \in 1 .. n : ~d.items[w[j]].del}  BY <2>3, <2>5
    <3> HIDE DEF s
    <3>3. QED BY <2>4, <3>1, <3>2
  <2>6. CASE ~d.items[id].del
    <3>1. shown[n + 1] = Append(s, id)  BY <2>2, <2>6 DEF Visit
    <3>2. {j \in 1 .. n + 1 : ~d.items[w[j]].del} = {j \in 1 .. n : ~d.items[w[j]].del} \cup {n + 1}
      BY <2>3, <2>6
    <3> DEFINE m == Len(s)
    <3> HIDE DEF s, id
    <3>3. /\ Append(s, id) \in Seq(K) /\ m \in Nat /\ DOMAIN s = 1 .. m
          /\ DOMAIN Append(s, id) = 1 .. m + 1
          /\ Append(s, id)[m + 1] = id /\ \A i \in 1 .. m : Append(s, id)[i] = s[i]
      BY <2>2
    <3> HIDE DEF m
    <3>4. 1 .. m + 1 = (1 .. m) \cup {m + 1}  BY <3>3
    <3>5. ToSet(Append(s, id)) = ToSet(s) \cup {id}
      BY <3>3, <3>4 DEF ToSet
    <3>6. ToSet(shown[n + 1]) = {w[i] : i \in {j \in 1 .. n + 1 : ~d.items[w[j]].del}}
      BY <2>4, <3>1, <3>2, <3>5 DEF id
    <3>7. \A i \in 1 .. m : Precedes(w, s[i], id)
      <4> SUFFICES ASSUME NEW i \in 1 .. m PROVE Precedes(w, s[i], id)
        OBVIOUS
      <4>1. s[i] \in ToSet(s)  BY <3>3 DEF ToSet
      <4>2. PICK p \in 1 .. n : s[i] = w[p]  BY <2>4, <4>1
      <4>3. p \in 1 .. N /\ p < n + 1  BY <2>1, <1>3
      <4>4. QED BY <4>2, <4>3, <2>1 DEF Precedes, N, id
    <3>8. InOrder(Append(s, id), w)
      <4> SUFFICES ASSUME NEW i \in 1 .. m + 1, NEW j \in 1 .. m + 1, i < j
                   PROVE  Precedes(w, Append(s, id)[i], Append(s, id)[j])
        BY <3>3 DEF InOrder
      <4>1. i \in 1 .. m  BY <3>3
      <4>2. CASE j = m + 1  BY <4>1, <4>2, <3>3, <3>7
      <4>3. CASE j \in 1 .. m  BY <4>1, <4>3, <2>4, <3>3 DEF InOrder
      <4>4. QED BY <4>2, <4>3, <3>4
    <3>9. QED BY <3>1, <3>6, <3>8
  <2>7. QED BY <2>5, <2>6
<1>7. T = Nat
  <2>1. T \in SUBSET Nat  OBVIOUS
  <2> HIDE DEF T
  <2>2. QED BY <1>5, <1>6, <2>1, SetInduction
<1>8. Good(N)
  <2> HIDE DEF Good
  <2>1. N \in Nat /\ \A n \in T : n <= N => Good(n)  BY <1>3
  <2> HIDE DEF T
  <2>2. QED BY <2>1, <1>7
<1> DEFINE s == shown[N]
<1>9. s \in Seq(K) /\ DOMAIN s = 1 .. Len(s) /\ Len(s) \in Nat  BY <1>1, <1>3
<1>10. ToSet(s) = {k \in ToSet(w) : ~d.items[k].del}
  <2>1. ToSet(s) = {w[i] : i \in {j \in 1 .. N : ~d.items[w[j]].del}}  BY <1>8
  <2>2. ToSet(w) = {w[i] : i \in 1 .. N}  BY <1>3 DEF ToSet
  <2>3. QED BY <2>1, <2>2
<1>11. Distinct(s)
  <2>1. InOrder(s, w)  BY <1>8
  <2> HIDE DEF s
  <2>2. Len(w) \in Nat  BY <1>3 DEF N
  <2>3. QED BY <1>3, <1>9, <2>1, <2>2, OrderDistinct
<1>12. QED BY <1>1, <1>8, <1>9, <1>10, <1>11 DEF Displays, w

\* Of a document, the traversal leaves nothing out.
LEMMA VisibleIs ==
    ASSUME NEW C, NEW d \in Doc(C)
    PROVE  Shows(VisibleIDs(d), d)
<1>1. Displays(VisibleIDs(d), d)  BY DocIsTree, VisibleOfTree
<1>2. ToSet(Walk(d)) = Known(d)  BY WalkTraverses DEF Traverses
<1>3. QED BY <1>1, <1>2 DEF Displays, Shows

-----------------------------------------------------------------------------
(* One operation on a tree, and what is shown then                          *)

\* The children alone say how a tree is traversed.
LEMMA SameWalk ==
    ASSUME NEW C, NEW d \in Tree(C), NEW e \in Tree(C), Known(e) = Known(d), e.children = d.children
    PROVE  Walk(e) = Walk(d)
<1> DEFINE w == Walk(d)
<1>1. w \in Seq(Known(e))  BY WalkUnfolds
<1>2. PICK stack \in [0 .. Len(w) -> Seq(Known(e))] : Unfolds(stack, w, d)  BY WalkUnfolds
<1> HIDE DEF w
<1>3. Unfolds(stack, w, e)  BY <1>2 DEF Unfolds
<1>4. QED BY <1>1, <1>2, <1>3, UnfoldsOnce DEF w

\* A child with a higher clock than its siblings is visited right after its parent.
LEMMA WalkGrown ==
    ASSUME NEW C, NEW d \in Tree(C), NEW id \in Id, id \notin Known(d),
           NEW a \in Known(d) \cup {Root}, NEW ch \in C, \A k \in ToSet(d.children[a]) : k.clock < id.clock,
           NEW p \in 0 .. Len(Walk(d)), At(Walk(d), p) = a
    PROVE  Walk(Added(d, id, a, ch)) = InsertAt(Walk(d), p + 1, id)
<1>0. Added(d, id, a, ch) \in Tree(C) /\ GrownBy(Added(d, id, a, ch), d, id, a, ch)
  BY GrownIs
<1> DEFINE K == Known(d)
           L == K \cup {id}
           e == Added(d, id, a, ch)
           w == Walk(d)
           n == Len(w)
           x == InsertAt(w, p + 1, id)
<1>1. w \in Seq(K) /\ n \in Nat /\ Distinct(w) /\ DOMAIN w = 1 .. n /\ \A i \in 1 .. n : w[i] \in K
  BY WalkUnfolds
<1>2. PICK stack \in [0 .. n -> Seq(K)] : Unfolds(stack, w, d)  BY WalkUnfolds
<1>3. /\ e \in Tree(C) /\ Known(e) = L /\ e.children[id] = << >>
      /\ \A q \in K \cup {Root} : e.children[q] =
            IF q = a THEN InsertChild(d.children[q], id) ELSE d.children[q]
  BY <1>0 DEF GrownBy
<1>4. K \in SUBSET Id /\ Root \notin K /\ Root # id /\ \A q \in K \cup {Root} : d.children[q] \in Seq(K)
  <2>1. K \in SUBSET Id /\ d \in TreeOf(K, C)  BY TreeIs
  <2>2. Root \notin Id  BY DEF Root, Id
  <2>3. d.children \in [K \cup {Root} -> Seq(K)]  BY <2>1 DEF TreeOf
  <2>4. QED BY <2>1, <2>2, <2>3
<1>5. e.children[a] = <<id>> \o d.children[a]
  <2> DEFINE kids == d.children[a]
  <2>1. kids \in Seq(K) /\ Distinct(kids) /\ id \notin ToSet(kids)
    <3>1. WellBuilt(d)  BY TreeIs
    <3>2. QED BY <1>4, <3>1 DEF WellBuilt
  <2>2. \A k \in ToSet(kids) : k.clock < id.clock  OBVIOUS
  <2> HIDE DEF kids
  <2>3. InsertChild(kids, id) = <<id>> \o kids  BY <1>4, <2>1, <2>2, InsertChildAny
  <2>4. QED BY <1>3, <2>3 DEF kids
<1> HIDE DEF e, w, n
<1>6. x \in Seq(L) /\ InsertedAt(x, w, p + 1, id)
  <2>1. w \in Seq(L) /\ id \in L /\ p + 1 \in 1 .. n + 1  BY <1>1 DEF w, n
  <2> HIDE DEF L
  <2>2. QED BY <2>1, InsertAtIs DEF n
<1>7. /\ Len(x) = n + 1
      /\ \A j \in 1 .. n + 1 : x[j] = IF j < p + 1 THEN w[j] ELSE IF j = p + 1 THEN id ELSE w[j - 1]
  BY <1>6 DEF InsertedAt, n
<1> HIDE DEF x
<1>8. /\ stack[0] = d.children[Root] /\ stack[n] = << >>
      /\ \A i \in 1 .. n : /\ stack[i - 1] # << >> /\ Head(stack[i - 1]) = w[i]
                           /\ stack[i] = d.children[w[i]] \o Tail(stack[i - 1])
  BY <1>2 DEF Unfolds, n
<1>9. p \in 0 .. n /\ At(w, p) = a  BY DEF w, n
\* the anchor is visited at p and nowhere else
<1>10. \A i \in 1 .. n : w[i] = a => i = p
  <2> SUFFICES ASSUME NEW i \in 1 .. n, w[i] = a PROVE i = p
    OBVIOUS
  <2>1. a # Root  BY <1>1, <1>4
  <2>2. p \in 1 .. n /\ w[p] = a  BY <2>1, <1>9 DEF At
  <2>3. QED BY <2>2, <1>1 DEF Distinct, n
<1> DEFINE st == [j \in 0 .. n + 1 |-> IF j < p THEN stack[j]
                                       ELSE IF j = p THEN <<id>> \o stack[p] ELSE stack[j - 1]]
<1>11. \A i \in 0 .. n : stack[i] \in Seq(L)
  BY <1>2
<1>12. st \in [0 .. n + 1 -> Seq(L)]
  <2>1. <<id>> \o stack[p] \in Seq(L)
    <3>1. <<id>> \in Seq(L)  OBVIOUS
    <3> HIDE DEF L
    <3>2. QED BY <1>9, <1>11, <3>1, ConcatProperties
  <2>2. ASSUME NEW j \in 0 .. n + 1
        PROVE  (IF j < p THEN stack[j] ELSE IF j = p THEN <<id>> \o stack[p] ELSE stack[j - 1]) \in Seq(L)
    <3>1. j < p => j \in 0 .. n  BY <1>1, <1>9
    <3>2. j > p => j - 1 \in 0 .. n  BY <1>1, <1>9
    <3> HIDE DEF L
    <3>3. QED BY <2>1, <1>9, <1>11, <3>1, <3>2
  <2> HIDE DEF L
  <2>3. QED BY <2>2
<1>13. \A j \in 0 .. n + 1 : st[j] = IF j < p THEN stack[j]
                                     ELSE IF j = p THEN <<id>> \o stack[p] ELSE stack[j - 1]
  OBVIOUS
<1> HIDE DEF st, L
<1>0a. n \in Nat /\ p \in Nat /\ p <= n  BY <1>1, <1>9 DEF n, w
<1>14. \A s \in Seq(K) : <<id>> \o s # << >> /\ Head(<<id>> \o s) = id /\ Tail(<<id>> \o s) = s
  OBVIOUS
<1>15. /\ \A i \in 0 .. n : stack[i] \in Seq(K)
       /\ \A s, t \in Seq(K) : <<id>> \o (s \o t) = (<<id>> \o s) \o t
       /\ \A s \in Seq(K) : << >> \o s = s
  BY <1>2
<1>16. st[0] = e.children[Root]
  <2>1. CASE p = 0
    <3>1. a = Root  BY <2>1, <1>9 DEF At
    <3>2. st[0] = <<id>> \o stack[0]
      <4>1. 0 \in 0 .. n + 1 /\ ~(0 < p)  BY <1>0a, <2>1
      <4>2. QED BY <2>1, <4>1, <1>13
    <3>3. QED BY <3>1, <3>2, <1>5, <1>8
  <2>2. CASE p # 0
    <3>1. a # Root
      <4>1. a = w[p] /\ p \in 1 .. n  BY <2>2, <1>9 DEF At
      <4>2. QED BY <4>1, <1>1, <1>4
    <3>2. st[0] = stack[0]
      <4>1. 0 \in 0 .. n + 1 /\ 0 < p  BY <1>0a, <2>2
      <4>2. QED BY <4>1, <1>13
    <3>3. QED BY <3>1, <3>2, <1>3, <1>8
  <2>3. QED BY <2>1, <2>2
<1>17. st[n + 1] = << >>
  <2>1. n + 1 \in 0 .. n + 1 /\ ~(n + 1 < p) /\ n + 1 # p /\ (n + 1) - 1 = n  BY <1>0a
  <2>2. QED BY <2>1, <1>8, <1>13
<1>18. ASSUME NEW j \in 1 .. n + 1
       PROVE  /\ st[j - 1] # << >> /\ Head(st[j - 1]) = x[j]
              /\ st[j] = e.children[x[j]] \o Tail(st[j - 1])
  <2>1. j \in Nat /\ j - 1 \in Nat /\ j \in 0 .. n + 1 /\ j - 1 \in 0 .. n + 1 /\ j - 1 \in 0 .. n
    BY <1>0a
  <2>2. CASE j < p
    <3>0. j \in 1 .. n /\ j - 1 < p /\ j < p + 1  BY <1>0a, <2>1, <2>2
    <3>1. j \in 1 .. n /\ st[j] = stack[j] /\ st[j - 1] = stack[j - 1] /\ x[j] = w[j]
      BY <2>1, <2>2, <3>0, <1>7, <1>13
    <3>2. w[j] # a  BY <3>0, <3>1, <2>2, <1>0a, <1>10
    <3>3. e.children[w[j]] = d.children[w[j]]  BY <3>1, <3>2, <1>1, <1>3
    <3>4. QED BY <3>1, <3>3, <1>8
  <2>3. CASE j = p
    <3>0. j \in 1 .. n /\ j - 1 < p /\ j < p + 1 /\ ~(j < p)  BY <1>0a, <2>1, <2>3
    <3>1. j \in 1 .. n /\ st[j] = <<id>> \o stack[j] /\ st[j - 1] = stack[j - 1] /\ x[j] = w[j]
      BY <2>1, <2>3, <3>0, <1>7, <1>13
    <3>2. w[j] = a  BY <2>3, <3>1, <1>9 DEF At
    <3>3. e.children[w[j]] = <<id>> \o d.children[w[j]]  BY <3>2, <1>5
    <3> DEFINE t == Tail(stack[j - 1])
               c == d.children[w[j]]
    <3>4. stack[j - 1] # << >> /\ Head(stack[j - 1]) = w[j] /\ stack[j] = c \o t  BY <3>1, <1>8
    <3>5. c \in Seq(K) /\ t \in Seq(K)
      <4>1. stack[j - 1] \in Seq(K)  BY <2>1, <3>1, <1>15
      <4>2. w[j] \in K  BY <3>1, <1>1
      <4>3. QED BY <4>1, <4>2, <3>4, <1>4, HeadTailIs
    <3> HIDE DEF t, c
    <3>6. <<id>> \o (c \o t) = (<<id>> \o c) \o t  BY <3>5, <1>15
    <3>7. QED BY <3>1, <3>3, <3>4, <3>6 DEF t, c
  <2>4. CASE j = p + 1
    <3>0. ~(j < p) /\ j # p /\ j - 1 = p /\ ~(p < p) /\ ~(j < p + 1)
      <4>1. p \in Nat /\ j = p + 1  BY <1>0a, <2>4
      <4>2. QED BY <4>1
    <3>1. st[j] = stack[p] /\ st[j - 1] = <<id>> \o stack[p] /\ x[j] = id /\ p \in 0 .. n
      BY <2>1, <2>4, <3>0, <1>7, <1>9, <1>13
    <3>2. stack[p] \in Seq(K)  BY <3>1, <1>15
    <3>3. QED BY <3>1, <3>2, <1>3, <1>14, <1>15
  <2>5. CASE j > p + 1
    <3>0. j - 1 \in 1 .. n /\ ~(j < p) /\ j # p /\ ~(j - 1 < p) /\ j - 1 # p /\ ~(j < p + 1) /\ j # p + 1
      BY <1>0a, <2>1, <2>5
    <3>1. j - 1 \in 1 .. n /\ st[j] = stack[j - 1] /\ st[j - 1] = stack[(j - 1) - 1] /\ x[j] = w[j - 1]
      BY <2>1, <3>0, <1>7, <1>13
    <3>2. w[j - 1] # a  BY <3>0, <3>1, <1>10
    <3>3. e.children[w[j - 1]] = d.children[w[j - 1]]  BY <3>1, <3>2, <1>1, <1>3
    <3>4. QED BY <3>1, <3>3, <1>8
  <2>6. j < p \/ j = p \/ j = p + 1 \/ j > p + 1  BY <2>1, <1>0a
  <2>7. QED BY <2>2, <2>3, <2>4, <2>5, <2>6
<1>19. Unfolds(st, x, e)
  BY <1>7, <1>16, <1>17, <1>18 DEF Unfolds
<1>20. Walk(e) = x
  BY <1>3, <1>6, <1>7, <1>12, <1>19, UnfoldsOnce
<1>21. QED BY <1>20 DEF e, x, w, n

LEMMA DisplaysOnce ==
    ASSUME NEW C, NEW d \in Tree(C), NEW s, Displays(s, d)
    PROVE  VisibleIDs(d) = s
<1> DEFINE v == VisibleIDs(d)
           w == Walk(d)
<1>1. Displays(v, d)  BY VisibleOfTree
<1>2. w \in Seq(Known(d)) /\ Distinct(w)  BY WalkUnfolds
<1> HIDE DEF v
<1>3. /\ v \in Seq(Known(d)) /\ InOrder(v, w) /\ s \in Seq(Known(d)) /\ InOrder(s, w)
      /\ ToSet(v) = ToSet(s)
  BY <1>1 DEF Displays
<1> HIDE DEF w
<1>4. v = s  BY <1>2, <1>3, InOrderUnique
<1>5. QED BY <1>4 DEF v

RemovedAt(new, s, p) ==
    /\ Len(new) = Len(s) - 1
    /\ \A j \in 1 .. Len(s) - 1 : new[j] = IF j < p THEN s[j] ELSE s[j + 1]

\* A character that is shown is buried: the others are shown as they were.
LEMMA ShownBuried ==
    ASSUME NEW C, NEW d \in Tree(C), NEW p \in 1 .. Len(VisibleIDs(d))
    PROVE  RemovedAt(VisibleIDs(Delete(d, VisibleIDs(d)[p])), VisibleIDs(d), p)
<1> DEFINE v == VisibleIDs(d)
           K == Known(d)
           w == Walk(d)
           n == Len(v)
           id == v[p]
           e == Delete(d, id)
           s == [j \in 1 .. n - 1 |-> IF j < p THEN v[j] ELSE v[j + 1]]
<1>1. Displays(v, d)  BY VisibleOfTree
<1>2. /\ v \in Seq(K) /\ Distinct(v) /\ InOrder(v, w) /\ ToSet(v) = {k \in ToSet(w) : ~d.items[k].del}
  BY <1>1 DEF Displays
<1>3. e \in Tree(C) /\ BuriedAt(e, d, id)  BY BuriedIs
<1>4. Known(e) = K /\ e.children = d.children
      /\ \A k \in K : e.items[k] = IF k = id THEN [after |-> d.items[k].after, ch |-> d.items[k].ch, del |-> TRUE]
                                   ELSE d.items[k]
  BY <1>3 DEF BuriedAt
<1>5. Walk(e) = w  BY <1>3, <1>4, SameWalk
<1>6. w \in Seq(K)  BY WalkUnfolds
<1> HIDE DEF v, e, w, K
<1>7. n \in Nat /\ p \in 1 .. n /\ DOMAIN v = 1 .. n /\ \A i \in 1 .. n : v[i] \in K
  BY <1>2 DEF v
<1> HIDE DEF n
<1>8. ASSUME NEW j \in 1 .. n - 1
      PROVE  \E i \in 1 .. n : s[j] = v[i] /\ i # p /\ i = IF j < p THEN j ELSE j + 1
  <2>1. CASE j < p
    <3>1. j \in 1 .. n /\ s[j] = v[j]  BY <1>7, <2>1
    <3>2. QED BY <2>1, <3>1
  <2>2. CASE j >= p
    <3>1. j + 1 \in 1 .. n /\ ~(j < p) /\ j + 1 # p  BY <1>7, <2>2
    <3>2. s[j] = v[j + 1]  BY <3>1
    <3>3. QED BY <3>1, <3>2
  <2>3. QED BY <2>1, <2>2, <1>7
<1>9. ASSUME NEW i \in 1 .. n, i # p PROVE \E j \in 1 .. n - 1 : s[j] = v[i]
  <2>1. CASE i < p
    <3>1. i \in 1 .. n - 1  BY <1>7, <2>1
    <3>2. s[i] = v[i]  BY <3>1, <2>1
    <3>3. QED BY <3>1, <3>2
  <2>2. CASE i > p
    <3>1. i - 1 \in 1 .. n - 1 /\ ~(i - 1 < p) /\ (i - 1) + 1 = i  BY <1>7, <2>2
    <3>2. s[i - 1] = v[i]  BY <3>1
    <3>3. QED BY <3>1, <3>2
  <2>3. QED BY <2>1, <2>2, <1>7, <1>9
<1>10. s \in Seq(K) /\ Len(s) = n - 1 /\ DOMAIN s = 1 .. n - 1
  <2>1. n - 1 \in Nat  BY <1>7
  <2>2. \A j \in 1 .. n - 1 : s[j] \in K  BY <1>7, <1>8
  <2>3. s \in [1 .. n - 1 -> K]  BY <2>2
  <2> HIDE DEF s
  <2>4. QED BY <2>1, <2>3, SeqDef
<1> HIDE DEF s
<1>11. \A i \in 1 .. n : v[i] = id => i = p  BY <1>2, <1>7 DEF Distinct, n, id
<1>12. InOrder(s, w)
  <2> SUFFICES ASSUME NEW j \in 1 .. n - 1, NEW k \in 1 .. n - 1, j < k PROVE Precedes(w, s[j], s[k])
    BY <1>10 DEF InOrder
  <2>1. PICK a \in 1 .. n : s[j] = v[a] /\ a # p /\ a = IF j < p THEN j ELSE j + 1  BY <1>8
  <2>2. PICK b \in 1 .. n : s[k] = v[b] /\ b # p /\ b = IF k < p THEN k ELSE k + 1  BY <1>8
  <2>3. a < b  BY <2>1, <2>2, <1>7
  <2>4. QED BY <1>2, <1>7, <2>1, <2>2, <2>3 DEF InOrder
<1>13. ToSet(s) = {v[i] : i \in {j \in 1 .. n : j # p}}
  <2>1. ToSet(s) = {s[j] : j \in 1 .. n - 1}  BY <1>10 DEF ToSet
  <2> DEFINE I == {j \in 1 .. n : j # p}
  <2>2. \A j \in 1 .. n - 1 : \E i \in I : s[j] = v[i]  BY <1>8
  <2>3. \A i \in I : \E j \in 1 .. n - 1 : s[j] = v[i]  BY <1>9
  <2> HIDE DEF I
  <2>4. ToSet(s) \subseteq {v[i] : i \in I}  BY <2>1, <2>2
  <2>5. {v[i] : i \in I} \subseteq ToSet(s)  BY <2>1, <2>3
  <2>6. ToSet(s) = {v[i] : i \in I}  BY <2>4, <2>5
  <2>7. QED BY <2>6 DEF I
<1>14. ToSet(v) = {v[i] : i \in 1 .. n}  BY <1>7 DEF ToSet
<1>15. ToSet(s) = {k \in ToSet(w) : ~e.items[k].del}
  <2>1. ToSet(s) = {k \in ToSet(v) : k # id}  BY <1>11, <1>13, <1>14, <1>7
  <2>2. ToSet(w) \subseteq K  BY <1>6 DEF ToSet
  <2>3. \A k \in ToSet(w) : ~e.items[k].del <=> ~d.items[k].del /\ k # id
    <3> SUFFICES ASSUME NEW k \in ToSet(w) PROVE ~e.items[k].del <=> ~d.items[k].del /\ k # id
      OBVIOUS
    <3>1. CASE k = id
      <4>1. e.items[k] = [after |-> d.items[k].after, ch |-> d.items[k].ch, del |-> TRUE]  BY <1>4, <2>2, <3>1
      <4>2. QED BY <3>1, <4>1
    <3>2. CASE k # id
      <4>1. e.items[k] = d.items[k]  BY <1>4, <2>2, <3>2
      <4>2. QED BY <3>2, <4>1
    <3>3. QED BY <3>1, <3>2
  <2>4. QED BY <1>2, <2>1, <2>3
<1>16. Distinct(s)
  <2> SUFFICES ASSUME NEW j \in 1 .. n - 1, NEW k \in 1 .. n - 1, j # k PROVE s[j] # s[k]
    BY <1>10 DEF Distinct
  <2>1. PICK a \in 1 .. n : s[j] = v[a] /\ a # p /\ a = IF j < p THEN j ELSE j + 1  BY <1>8
  <2>2. PICK b \in 1 .. n : s[k] = v[b] /\ b # p /\ b = IF k < p THEN k ELSE k + 1  BY <1>8
  <2>3. a # b  BY <2>1, <2>2, <1>7
  <2>4. QED BY <1>2, <2>1, <2>2, <2>3 DEF Distinct, n
<1>17. VisibleIDs(e) = s
  <2>1. Displays(s, e)  BY <1>4, <1>5, <1>10, <1>12, <1>15, <1>16 DEF Displays
  <2>2. QED BY <1>3, <2>1, DisplaysOnce
<1>18. RemovedAt(s, v, p)  BY <1>10 DEF RemovedAt, s, n
<1>19. QED BY <1>17, <1>18 DEF e, v

\* What is inserted after the k-th element keeps the order of the others.
LEMMA InsertedOrder ==
    ASSUME NEW w, Len(w) \in Nat, NEW k \in 0 .. Len(w), NEW id, NEW x, InsertedAt(x, w, k + 1, id)
    PROVE  /\ \A a, b : Precedes(w, a, b) => Precedes(x, a, b)
           /\ \A m \in 1 .. k : Precedes(x, w[m], id)
           /\ \A m \in k + 1 .. Len(w) : Precedes(x, id, w[m])
<1> DEFINE n == Len(w)
<1>1. /\ n \in Nat /\ k \in Nat /\ k <= n /\ Len(x) = n + 1
      /\ \A j \in 1 .. n + 1 : x[j] = IF j < k + 1 THEN w[j] ELSE IF j = k + 1 THEN id ELSE w[j - 1]
  BY DEF InsertedAt
<1> HIDE DEF n
<1> DEFINE at(m) == IF m < k + 1 THEN m ELSE m + 1
<1>2. ASSUME NEW m \in 1 .. n PROVE at(m) \in 1 .. n + 1 /\ x[at(m)] = w[m]
  <2>1. CASE m < k + 1
    <3>1. at(m) = m /\ m \in 1 .. n + 1  BY <1>1, <2>1
    <3> HIDE DEF at
    <3>2. QED BY <3>1, <2>1, <1>1
  <2>2. CASE ~(m < k + 1)
    <3>1. at(m) = m + 1 /\ m + 1 \in 1 .. n + 1 /\ ~(m + 1 < k + 1) /\ m + 1 # k + 1 /\ (m + 1) - 1 = m
      BY <1>1, <2>2
    <3> HIDE DEF at
    <3>2. QED BY <3>1, <1>1
  <2>3. QED BY <2>1, <2>2
<1>3. k + 1 \in 1 .. n + 1 /\ x[k + 1] = id
  <2>1. k + 1 \in 1 .. n + 1 /\ ~(k + 1 < k + 1)  BY <1>1
  <2>2. QED BY <2>1, <1>1
<1>4. ASSUME NEW a, NEW b, Precedes(w, a, b) PROVE Precedes(x, a, b)
  <2>1. PICK i \in 1 .. n, j \in 1 .. n : i < j /\ w[i] = a /\ w[j] = b  BY <1>4 DEF Precedes, n
  <2>2. at(i) < at(j)  BY <2>1, <1>1
  <2> HIDE DEF at
  <2>3. QED BY <1>1, <1>2, <2>1, <2>2 DEF Precedes
<1>5. ASSUME NEW m \in 1 .. k PROVE Precedes(x, w[m], id)
  <2>1. m \in 1 .. n /\ at(m) < k + 1  BY <1>1
  <2> HIDE DEF at
  <2>2. QED BY <1>1, <1>2, <1>3, <2>1 DEF Precedes
<1>6. ASSUME NEW m \in k + 1 .. n PROVE Precedes(x, id, w[m])
  <2>1. m \in 1 .. n /\ k + 1 < at(m)  BY <1>1
  <2> HIDE DEF at
  <2>2. QED BY <1>1, <1>2, <1>3, <2>1 DEF Precedes
<1>7. QED BY <1>4, <1>5, <1>6 DEF n

\* A character newer than its siblings is shown right after the one it follows.
LEMMA ShownGrown ==
    ASSUME NEW C, NEW d \in Tree(C), NEW id \in Id, id \notin Known(d), NEW ch \in C,
           NEW p \in 0 .. Len(VisibleIDs(d)), NEW a, a = At(VisibleIDs(d), p),
           \A k \in Known(d) : k.clock < id.clock
    PROVE  /\ a \in Known(d) \cup {Root}
           /\ InsertedAt(VisibleIDs(Added(d, id, a, ch)), VisibleIDs(d), p + 1, id)
<1> DEFINE v == VisibleIDs(d)
           K == Known(d)
           w == Walk(d)
           e == Added(d, id, a, ch)
           N == Len(w)
           n == Len(v)
           L == K \cup {id}
<1>1. Displays(v, d)  BY VisibleOfTree
<1>2. /\ v \in Seq(K) /\ Distinct(v) /\ InOrder(v, w) /\ ToSet(v) = {k \in ToSet(w) : ~d.items[k].del}
  BY <1>1 DEF Displays
<1>3. w \in Seq(K) /\ Distinct(w)  BY WalkUnfolds
<1>4. Root \notin K /\ d.children \in [K \cup {Root} -> Seq(K)]
  <2>1. K \in SUBSET Id /\ d \in TreeOf(K, C)  BY TreeIs
  <2>2. Root \notin Id  BY DEF Root, Id
  <2>3. QED BY <2>1, <2>2 DEF TreeOf
<1> HIDE DEF v, w
<1>5. n \in Nat /\ DOMAIN v = 1 .. n /\ (\A i \in 1 .. n : v[i] \in K) /\ p \in 0 .. n
  BY <1>2 DEF v
<1>6. N \in Nat /\ DOMAIN w = 1 .. N /\ \A i \in 1 .. N : w[i] \in K  BY <1>3
<1>7. a = At(v, p)  BY DEF v
<1>8. a \in K \cup {Root} /\ (a = Root => p = 0)
  <2>1. CASE p = 0  BY <2>1, <1>7 DEF At
  <2>2. CASE p # 0
    <3>1. p \in 1 .. n /\ a = v[p]  BY <2>2, <1>5, <1>7 DEF At
    <3>2. QED BY <3>1, <1>4, <1>5
  <2>3. QED BY <2>1, <2>2
<1>9. PICK k \in 0 .. N : At(w, k) = a /\ (p = 0 => k = 0)
  <2>1. CASE p = 0
    <3>1. 0 \in 0 .. N /\ At(w, 0) = a  BY <2>1, <1>6, <1>7 DEF At
    <3>2. QED BY <3>1
  <2>2. CASE p # 0
    <3>1. p \in 1 .. n /\ a = v[p]  BY <2>2, <1>5, <1>7 DEF At
    <3>2. v[p] \in ToSet(w)  BY <1>2, <1>5, <3>1 DEF ToSet
    <3>3. PICK k \in 1 .. N : w[k] = v[p]  BY <1>6, <3>2 DEF ToSet
    <3>4. k \in 0 .. N /\ At(w, k) = a  BY <3>1, <3>3, <1>6 DEF At
    <3>5. QED BY <3>4, <2>2
  <2>3. QED BY <2>1, <2>2
<1>10. e \in Tree(C) /\ GrownBy(e, d, id, a, ch)  BY <1>8, GrownIs
<1>11. /\ Known(e) = L /\ e.items[id] = [after |-> a, ch |-> ch, del |-> FALSE]
       /\ \A j \in K : e.items[j] = d.items[j]
  BY <1>10 DEF GrownBy
<1>12. Walk(e) = InsertAt(w, k + 1, id)
  <2>1. \A j \in ToSet(d.children[a]) : j.clock < id.clock
    <3>1. d.children[a] \in Seq(K)  BY <1>4, <1>8
    <3>2. ToSet(d.children[a]) \subseteq K
      <4> DEFINE kids == d.children[a]
      <4> HIDE DEF kids
      <4>1. kids \in Seq(K)  BY <3>1 DEF kids
      <4>2. ToSet(kids) \subseteq K  BY <4>1 DEF ToSet
      <4>3. QED BY <4>2 DEF kids
    <3>3. QED BY <3>2
  <2>2. k \in 0 .. Len(Walk(d)) /\ At(Walk(d), k) = a  BY <1>9 DEF w
  <2>3. QED BY <1>8, <2>1, <2>2, WalkGrown DEF w
<1> HIDE DEF e, K, N, n
<1> DEFINE x == InsertAt(w, k + 1, id)
           y == InsertAt(v, p + 1, id)
<1>13. InsertedAt(x, w, k + 1, id) /\ ToSet(x) = ToSet(w) \cup {id}
  <2>1. w \in Seq(L) /\ id \in L /\ k + 1 \in 1 .. Len(w) + 1  BY <1>3, <1>6, <1>9 DEF N
  <2> HIDE DEF L
  <2>2. InsertedAt(x, w, k + 1, id)  BY <2>1, InsertAtIs
  <2> HIDE DEF x
  <2>3. DOMAIN w = 1 .. Len(w) /\ Len(w) \in Nat  BY <1>6 DEF N
  <2>4. QED BY <2>1, <2>2, <2>3, InsertedKeeps
<1>14. id \notin ToSet(v)
  <2>1. \A i \in 1 .. n : v[i] # id  BY <1>5 DEF K
  <2>2. QED BY <1>5, <2>1 DEF ToSet
<1>15. y \in Seq(L) /\ InsertedAt(y, v, p + 1, id) /\ ToSet(y) = ToSet(v) \cup {id} /\ Distinct(y)
  <2>1. v \in Seq(L) /\ id \in L /\ p + 1 \in 1 .. Len(v) + 1  BY <1>2, <1>5 DEF n
  <2> HIDE DEF L
  <2>2. y \in Seq(L) /\ InsertedAt(y, v, p + 1, id)  BY <2>1, InsertAtIs
  <2> HIDE DEF y
  <2>3. DOMAIN v = 1 .. Len(v) /\ Len(v) \in Nat  BY <1>5 DEF n
  <2>4. QED BY <2>1, <2>2, <2>3, <1>2, <1>14, InsertedKeeps
<1> HIDE DEF x, y, L
<1>16. /\ \A b, c : Precedes(w, b, c) => Precedes(x, b, c)
       /\ \A m \in 1 .. k : Precedes(x, w[m], id)
       /\ \A m \in k + 1 .. N : Precedes(x, id, w[m])
  <2>1. Len(w) \in Nat /\ k \in 0 .. Len(w)  BY <1>6, <1>9 DEF N
  <2>2. QED BY <2>1, <1>13, InsertedOrder DEF N
<1>17. /\ Len(y) = n + 1 /\ DOMAIN y = 1 .. n + 1
       /\ \A j \in 1 .. n + 1 : y[j] = IF j < p + 1 THEN v[j] ELSE IF j = p + 1 THEN id ELSE v[j - 1]
  BY <1>15 DEF InsertedAt, n
<1>18. \A i \in 1 .. p : Precedes(x, v[i], id)
  <2> SUFFICES ASSUME NEW i \in 1 .. p PROVE Precedes(x, v[i], id)
    OBVIOUS
  <2>1. p \in 1 .. n /\ i \in 1 .. n  BY <1>5
  <2>2. a = v[p] /\ a # Root  BY <1>4, <1>5, <1>7, <2>1 DEF At
  <2>3. k \in 1 .. N /\ w[k] = v[p]  BY <1>9, <2>2, <1>6 DEF At
  <2>4. CASE i = p
    <3>1. k \in 1 .. k  BY <2>3, <1>6
    <3>2. QED BY <2>3, <2>4, <3>1, <1>16
  <2>5. CASE i < p
    <3>1. Precedes(w, v[i], v[p])  BY <1>2, <1>5, <2>1, <2>5 DEF InOrder
    <3>2. PICK b \in 1 .. N, c \in 1 .. N : b < c /\ w[b] = v[i] /\ w[c] = v[p]
      BY <3>1 DEF Precedes, N
    <3>3. c = k  BY <2>3, <3>2, <1>3 DEF Distinct, N
    <3>4. b \in 1 .. k  BY <3>2, <3>3, <1>6
    <3>5. QED BY <3>2, <3>4, <1>16
  <2>6. QED BY <2>4, <2>5, <1>5
<1>19. \A i \in p + 1 .. n : Precedes(x, id, v[i])
  <2> SUFFICES ASSUME NEW i \in p + 1 .. n PROVE Precedes(x, id, v[i])
    OBVIOUS
  <2>1. i \in 1 .. n /\ p < i  BY <1>5
  <2>2. CASE p = 0
    <3>1. v[i] \in ToSet(w)  BY <1>2, <1>5, <2>1 DEF ToSet
    <3>2. PICK m \in 1 .. N : w[m] = v[i]  BY <1>6, <3>1 DEF ToSet
    <3>3. m \in k + 1 .. N  BY <1>9, <2>2, <1>6
    <3>4. QED BY <3>2, <3>3, <1>16
  <2>3. CASE p # 0
    <3>1. p \in 1 .. n /\ a = v[p] /\ a # Root  BY <1>4, <1>5, <1>7, <2>3 DEF At
    <3>2. k \in 1 .. N /\ w[k] = v[p]  BY <1>9, <3>1, <1>6 DEF At
    <3>3. Precedes(w, v[p], v[i])  BY <1>2, <1>5, <2>1, <3>1 DEF InOrder
    <3>4. PICK b \in 1 .. N, c \in 1 .. N : b < c /\ w[b] = v[p] /\ w[c] = v[i]
      BY <3>3 DEF Precedes, N
    <3>5. b = k  BY <3>2, <3>4, <1>3 DEF Distinct, N
    <3>6. c \in k + 1 .. N  BY <3>4, <3>5, <1>6
    <3>7. QED BY <3>4, <3>6, <1>16
  <2>4. QED BY <2>2, <2>3
<1>20. \A i, j \in 1 .. n : i < j => Precedes(x, v[i], v[j])
  BY <1>2, <1>5, <1>16 DEF InOrder
<1>21. InOrder(y, x)
  <2> SUFFICES ASSUME NEW i \in 1 .. n + 1, NEW j \in 1 .. n + 1, i < j PROVE Precedes(x, y[i], y[j])
    BY <1>17 DEF InOrder
  <2>0. n \in Nat /\ p \in Nat /\ p <= n  BY <1>5
  <2>1. CASE j < p + 1
    <3>1. i < p + 1 /\ i \in 1 .. n /\ j \in 1 .. n  BY <2>0, <2>1
    <3>2. y[i] = v[i] /\ y[j] = v[j]  BY <1>17, <2>1, <3>1
    <3>3. QED BY <3>1, <3>2, <1>20
  <2>2. CASE j = p + 1
    <3>1. i < p + 1 /\ i \in 1 .. p /\ ~(j < p + 1)  BY <2>0, <2>2
    <3>2. y[i] = v[i] /\ y[j] = id  BY <1>17, <2>2, <3>1
    <3>3. QED BY <3>1, <3>2, <1>18
  <2>3. CASE j > p + 1 /\ i < p + 1
    <3>1. i \in 1 .. n /\ j - 1 \in 1 .. n /\ i < j - 1 /\ ~(j < p + 1) /\ j # p + 1  BY <2>0, <2>3
    <3>2. y[i] = v[i] /\ y[j] = v[j - 1]  BY <1>17, <2>3, <3>1
    <3>3. QED BY <3>1, <3>2, <1>20
  <2>4. CASE j > p + 1 /\ i = p + 1
    <3>1. j - 1 \in p + 1 .. n /\ ~(j < p + 1) /\ j # p + 1 /\ ~(i < p + 1)  BY <2>0, <2>4
    <3>2. y[i] = id /\ y[j] = v[j - 1]  BY <1>17, <2>4, <3>1
    <3>3. QED BY <3>1, <3>2, <1>19
  <2>5. CASE j > p + 1 /\ i > p + 1
    <3>1. /\ i - 1 \in 1 .. n /\ j - 1 \in 1 .. n /\ i - 1 < j - 1
          /\ ~(j < p + 1) /\ j # p + 1 /\ ~(i < p + 1) /\ i # p + 1
      BY <2>0, <2>5
    <3>2. y[i] = v[i - 1] /\ y[j] = v[j - 1]  BY <1>17, <3>1
    <3>3. QED BY <3>1, <3>2, <1>20
  <2>6. /\ j < p + 1 \/ j = p + 1 \/ j > p + 1
        /\ i < p + 1 \/ i = p + 1 \/ i > p + 1
    BY <2>0
  <2>7. QED BY <2>1, <2>2, <2>3, <2>4, <2>5, <2>6
<1>22. ToSet(y) = {j \in ToSet(x) : ~e.items[j].del}
  <2>1. ToSet(w) \subseteq K  BY <1>6 DEF ToSet
  <2>2. \A j \in ToSet(w) : e.items[j] = d.items[j]  BY <2>1, <1>11
  <2>3. ~e.items[id].del  BY <1>11
  <2>4. QED BY <2>2, <2>3, <1>2, <1>13, <1>15
<1>23. Displays(y, e)
  BY <1>11, <1>12, <1>15, <1>21, <1>22 DEF Displays, x
<1>24. VisibleIDs(e) = y  BY <1>10, <1>23, DisplaysOnce
<1>25. QED BY <1>8, <1>15, <1>24 DEF e, v, K

-----------------------------------------------------------------------------
(* An edit shows what was typed                                            *)

\* Within an edit: n characters after the lo-th are gone, m new ones in their place.
Replaced(e, d, new, site, clock, lo, n, m) ==
    /\ Known(e) = Known(d) \cup {FreshId(site, clock, i) : i \in 1 .. m}
    /\ \A k \in Known(d) : e.items[k].ch = d.items[k].ch
    /\ \A i \in 1 .. m : e.items[FreshId(site, clock, i)].ch = new[lo + i]
    /\ Len(VisibleIDs(e)) = Len(VisibleIDs(d)) - n + m
    /\ \A j \in 1 .. Len(VisibleIDs(d)) - n + m : VisibleIDs(e)[j] =
          IF j <= lo THEN VisibleIDs(d)[j]
          ELSE IF j <= lo + m THEN FreshId(site, clock, j - lo) ELSE VisibleIDs(d)[j - m + n]

LEMMA ReplacedBury ==
    ASSUME NEW C, NEW d \in Tree(C), NEW e \in Tree(C), NEW new, NEW site, NEW clock,
           NEW lo \in Nat, NEW n \in Nat, lo + n + 1 <= Len(VisibleIDs(d)),
           Replaced(e, d, new, site, clock, lo, n, 0), NEW id, id = VisibleIDs(d)[lo + (n + 1)]
    PROVE  Delete(e, id) \in Tree(C) /\ Replaced(Delete(e, id), d, new, site, clock, lo, n + 1, 0)
<1> DEFINE ids == VisibleIDs(d)
           N == Len(ids)
           v == VisibleIDs(e)
           x == Delete(e, id)
           y == VisibleIDs(x)
<1>1. N \in Nat /\ \A i \in 1 .. N : ids[i] \in Known(d)
  BY VisibleType
<1>2. /\ Known(e) = Known(d) /\ \A k \in Known(d) : e.items[k].ch = d.items[k].ch
      /\ Len(v) = N - n + 0
      /\ \A j \in 1 .. N - n + 0 : v[j] = IF j <= lo THEN ids[j]
             ELSE IF j <= lo + 0 THEN FreshId(site, clock, j - lo) ELSE ids[j - 0 + n]
  BY DEF Replaced
<1>3. lo + n + 1 <= N /\ id = ids[lo + (n + 1)]  OBVIOUS
<1>4. x \in Tree(C) /\ BuriedAt(x, e, id)  BY BuriedIs
<1>5. \A p \in 1 .. Len(v) : RemovedAt(VisibleIDs(Delete(e, v[p])), v, p)  BY ShownBuried
<1> HIDE DEF ids, N, v, x
<1>6. /\ Len(v) = N - n
      /\ \A j \in 1 .. N - n : v[j] = IF j <= lo THEN ids[j] ELSE ids[j + n]
  <2>1. N - n + 0 = N - n  BY <1>1
  <2>2. \A j \in 1 .. N - n : (j <= lo <=> j <= lo + 0) /\ j - 0 + n = j + n  BY <1>1
  <2>3. QED BY <1>2, <2>1, <2>2
<1>7. lo + 1 \in 1 .. Len(v) /\ v[lo + 1] = id
  <2>1. lo + 1 \in 1 .. N - n /\ ~(lo + 1 <= lo) /\ (lo + 1) + n = lo + (n + 1)  BY <1>1, <1>3
  <2>2. QED BY <2>1, <1>3, <1>6
<1>8. RemovedAt(y, v, lo + 1)
  BY <1>5, <1>7 DEF x
<1> HIDE DEF y
<1>9. Len(y) = N - n - 1 /\ \A j \in 1 .. N - n - 1 : y[j] = IF j < lo + 1 THEN v[j] ELSE v[j + 1]
  BY <1>6, <1>8 DEF RemovedAt
<1>10. ASSUME NEW j \in 1 .. N - (n + 1) + 0
       PROVE  y[j] = IF j <= lo THEN ids[j]
                     ELSE IF j <= lo + 0 THEN FreshId(site, clock, j - lo) ELSE ids[j - 0 + (n + 1)]
  <2>1. j \in 1 .. N - n - 1 /\ j \in 1 .. N - n /\ j + 1 \in 1 .. N - n  BY <1>1
  <2>2. CASE j <= lo
    <3>1. j < lo + 1  BY <2>1, <2>2
    <3>2. y[j] = ids[j]  BY <2>1, <2>2, <3>1, <1>6, <1>9
    <3>3. QED BY <2>2, <3>2
  <2>3. CASE ~(j <= lo)
    <3>1. ~(j < lo + 1) /\ ~(j + 1 <= lo) /\ ~(j <= lo + 0) /\ (j + 1) + n = j - 0 + (n + 1)
      BY <2>1, <2>3
    <3>2. y[j] = ids[(j + 1) + n]  BY <2>1, <3>1, <1>6, <1>9
    <3>3. QED BY <2>3, <3>1, <3>2
  <2>4. QED BY <2>2, <2>3
<1>11. Known(x) = Known(d) /\ \A k \in Known(d) : x.items[k].ch = d.items[k].ch
  <2>1. Known(x) = Known(e)  BY <1>4 DEF BuriedAt
  <2>2. ASSUME NEW k \in Known(e) PROVE x.items[k].ch = e.items[k].ch
    <3>1. CASE k = id
      <4>1. x.items[k] = [after |-> e.items[k].after, ch |-> e.items[k].ch, del |-> TRUE]
        BY <1>4, <3>1 DEF BuriedAt
      <4>2. QED BY <4>1
    <3>2. CASE k # id  BY <1>4, <3>2 DEF BuriedAt
    <3>3. QED BY <3>1, <3>2
  <2>3. QED BY <1>2, <2>1, <2>2
<1>12. Len(y) = N - (n + 1) + 0  BY <1>1, <1>9
<1>13. Replaced(x, d, new, site, clock, lo, n + 1, 0)
  <2>1. 1 .. 0 = {}  OBVIOUS
  <2>2. {FreshId(site, clock, i) : i \in 1 .. 0} = {}  BY <2>1
  <2>3. QED BY <1>10, <1>11, <1>12, <2>1, <2>2 DEF Replaced, y, ids, N
<1>14. QED BY <1>4, <1>13 DEF x

\* The next insertion of a batch, op after the character `after`, on a document e where the
\* n characters behind lo are buried and the first m of the new text are in their place.
Growing(e, d, new, site, clock, lo, n, m, after, op) ==
    /\ MaxClock(d) <= clock /\ lo + n <= Len(VisibleIDs(d))
    /\ Replaced(e, d, new, site, clock, lo, n, m)
    /\ after = IF m + 1 = 1 THEN Anchor(VisibleIDs(d), lo) ELSE FreshId(site, clock, (m + 1) - 1)
    /\ op = InsOp(FreshId(site, clock, m + 1), after, new[lo + (m + 1)])

LEMMA ReplacedGrow ==
    ASSUME NEW C, NEW d \in Tree(C), NEW e \in Tree(C), NEW new, NEW site \in Nat \ {0}, NEW clock \in Nat,
           NEW lo \in Nat, NEW n \in Nat, NEW m \in Nat, NEW after, NEW op,
           new[lo + (m + 1)] \in C, Growing(e, d, new, site, clock, lo, n, m, after, op)
    PROVE  /\ Apply(e, op).ok /\ Apply(e, op).doc \in Tree(C)
           /\ Replaced(Apply(e, op).doc, d, new, site, clock, lo, n, m + 1)
<1> USE DEF Growing
<1> DEFINE ids == VisibleIDs(d)
           N == Len(ids)
           v == VisibleIDs(e)
           K == Known(d)
           f(i) == FreshId(site, clock, i)
           id == f(m + 1)
           ch == new[lo + (m + 1)]
           x == Added(e, id, after, ch)
           y == VisibleIDs(x)
           M == N - n + m
<1>1. N \in Nat /\ (\A i \in 1 .. N : ids[i] \in K) /\ K \in SUBSET Id
  BY VisibleType, TreeIs
<1>2. /\ Known(e) = K \cup {f(i) : i \in 1 .. m} /\ \A k \in K : e.items[k].ch = d.items[k].ch
      /\ \A i \in 1 .. m : e.items[f(i)].ch = new[lo + i]
      /\ Len(v) = M
      /\ \A j \in 1 .. M : v[j] = IF j <= lo THEN ids[j] ELSE IF j <= lo + m THEN f(j - lo) ELSE ids[j - m + n]
  BY DEF Replaced
<1>3. \A i \in Nat \ {0} : f(i) \in Id /\ f(i).clock = clock + i
  <2> SUFFICES ASSUME NEW i \in Nat \ {0} PROVE f(i) \in Id /\ f(i).clock = clock + i
    OBVIOUS
  <2> DEFINE c == clock + i
  <2>1. c \in Nat \ {0}  OBVIOUS
  <2>2. f(i) = [clock |-> c, site |-> site]  BY DEF FreshId
  <2> HIDE DEF c, f
  <2>3. f(i) \in Id /\ f(i).clock = c  BY <2>1, <2>2 DEF Id
  <2>4. QED BY <2>3 DEF c
<1>4. \A i, j \in Nat : f(i) = f(j) => i = j
  <2> SUFFICES ASSUME NEW i \in Nat, NEW j \in Nat, f(i) = f(j) PROVE i = j
    OBVIOUS
  <2>1. clock + i = clock + j  BY DEF FreshId
  <2>2. QED BY <2>1
<1>5. \A k \in K : k.clock <= clock /\ k.clock \in Nat
  <2>1. \A k \in K : k.clock <= MaxClock(d) /\ MaxClock(d) \in Nat /\ k.clock \in Nat
    BY <1>1, MaxClockIs DEF Id
  <2>2. QED BY <2>1
<1>6. after = (IF m = 0 THEN Anchor(ids, lo) ELSE f(m)) /\ op = InsOp(id, after, ch) /\ ch \in C
  <2>1. (m + 1 = 1 <=> m = 0) /\ (m + 1) - 1 = m  OBVIOUS
  <2>2. QED BY <2>1
<1>7. lo + n <= N  OBVIOUS
<1>8. M \in Nat /\ lo + m <= M  BY <1>1, <1>7
<1> HIDE DEF ids, N, v, K, f, ch, x, M
<1>9. /\ id \in Id /\ id.clock = clock + (m + 1) /\ id \notin K
      /\ \A k \in Known(e) : k.clock < id.clock
  <2>1. id \in Id /\ id.clock = clock + (m + 1)  BY <1>3
  <2>2. \A k \in K : k.clock < clock + (m + 1)  BY <1>5
  <2>3. \A i \in 1 .. m : f(i).clock < clock + (m + 1)
    <3> SUFFICES ASSUME NEW i \in 1 .. m PROVE f(i).clock < clock + (m + 1)
      OBVIOUS
    <3>1. i \in Nat \ {0} /\ clock + i < clock + (m + 1)  OBVIOUS
    <3>2. f(i).clock = clock + i  BY <3>1, <1>3
    <3>3. QED BY <3>1, <3>2
  <2> HIDE DEF id
  <2>4. \A k \in Known(e) : k.clock < id.clock  BY <1>2, <2>1, <2>2, <2>3
  <2>5. QED BY <2>1, <2>2, <2>4
<1>10. id \notin Known(e)
  <2>1. \A i \in 1 .. m : f(i) # id  BY <1>4
  <2>2. QED BY <1>2, <1>9, <2>1
<1>11. lo + m \in 0 .. Len(v) /\ after = At(v, lo + m)
  <2>1. lo + m \in 0 .. M  BY <1>8
  <2>2. CASE m = 0 /\ lo = 0
    <3>1. after = Root  BY <2>2, <1>6 DEF Anchor
    <3>2. lo + m = 0  BY <2>2
    <3>3. QED BY <2>1, <3>1, <3>2, <1>2 DEF At
  <2>3. CASE m = 0 /\ lo # 0
    <3>1. after = ids[lo]  BY <2>3, <1>6 DEF Anchor
    <3>2. lo + m = lo /\ lo \in 1 .. M /\ lo <= lo  BY <2>3, <2>1
    <3>3. v[lo] = ids[lo]  BY <3>2, <1>2
    <3>4. QED BY <2>1, <2>3, <3>1, <3>2, <3>3, <1>2 DEF At
  <2>4. CASE m # 0
    <3>1. after = f(m)  BY <2>4, <1>6
    <3>2. lo + m \in 1 .. M /\ ~(lo + m <= lo) /\ lo + m <= lo + m /\ (lo + m) - lo = m /\ lo + m # 0
      BY <2>4, <2>1, <1>8
    <3>3. v[lo + m] = f(m)  BY <3>2, <1>2
    <3>4. QED BY <2>1, <3>1, <3>2, <3>3, <1>2 DEF At
  <2>5. QED BY <2>2, <2>3, <2>4
<1> HIDE DEF id
<1>12. after \in Known(e) \cup {Root} /\ InsertedAt(y, v, (lo + m) + 1, id)
  <2>1. lo + m \in 0 .. Len(VisibleIDs(e)) /\ after = At(VisibleIDs(e), lo + m)  BY <1>11 DEF v
  <2>2. QED BY <2>1, <1>6, <1>9, <1>10, ShownGrown DEF x, v
<1>13. x \in Tree(C) /\ GrownBy(x, e, id, after, ch)
  BY <1>6, <1>9, <1>10, <1>12, GrownIs DEF x
<1>14. Apply(e, op) = [doc |-> x, ok |-> TRUE]
  <2>1. op.op = "ins" /\ op.id = id /\ op.after = after /\ op.ch = ch  BY <1>6 DEF InsOp
  <2>2. Insert(e, id, after, ch) = [doc |-> x, ok |-> TRUE]
    BY <1>10, <1>12 DEF Insert, Added, x
  <2>3. QED BY <2>1, <2>2 DEF Apply
<1> HIDE DEF y
<1>15. /\ Len(y) = M + 1
       /\ \A j \in 1 .. M + 1 : y[j] = IF j < (lo + m) + 1 THEN v[j] ELSE IF j = (lo + m) + 1 THEN id ELSE v[j - 1]
  <2>1. Len(v) = M  BY <1>2
  <2>2. InsertedAt(y, v, (lo + m) + 1, id)  BY <1>12
  <2> DEFINE at == (lo + m) + 1
  <2> HIDE DEF at
  <2>3. /\ Len(y) = M + 1
        /\ \A j \in 1 .. M + 1 : y[j] = IF j < at THEN v[j] ELSE IF j = at THEN id ELSE v[j - 1]
    BY <2>1, <2>2 DEF InsertedAt, at
  <2>4. QED BY <2>3 DEF at
<1>16. M + 1 = N - n + (m + 1)  BY <1>1 DEF M
<1>17. ASSUME NEW j \in 1 .. M + 1
       PROVE  y[j] = IF j <= lo THEN ids[j]
                     ELSE IF j <= lo + (m + 1) THEN f(j - lo) ELSE ids[j - (m + 1) + n]
  <2>1. CASE j <= lo
    <3>1. j < (lo + m) + 1 /\ j \in 1 .. M  BY <2>1, <1>8
    <3>2. QED BY <2>1, <3>1, <1>2, <1>15
  <2>2. CASE ~(j <= lo) /\ j <= lo + m
    <3>1. j < (lo + m) + 1 /\ j \in 1 .. M /\ j <= lo + (m + 1)  BY <2>2, <1>8
    <3>2. y[j] = v[j]  BY <3>1, <1>15
    <3>3. v[j] = f(j - lo)  BY <2>2, <3>1, <1>2
    <3>4. QED BY <2>2, <3>1, <3>2, <3>3
  <2>3. CASE j = (lo + m) + 1
    <3>1. ~(j < (lo + m) + 1) /\ ~(j <= lo) /\ j <= lo + (m + 1) /\ j - lo = m + 1  BY <2>3
    <3>2. y[j] = f(j - lo)  BY <2>3, <3>1, <1>15 DEF id
    <3>3. QED BY <3>1, <3>2
  <2>4. CASE j > (lo + m) + 1
    <3>1. /\ ~(j < (lo + m) + 1) /\ j # (lo + m) + 1 /\ ~(j <= lo) /\ ~(j <= lo + (m + 1)) /\ j - 1 \in 1 .. M
          /\ ~(j - 1 <= lo) /\ ~(j - 1 <= lo + m) /\ (j - 1) - m + n = j - (m + 1) + n
      BY <2>4, <1>8
    <3>2. y[j] = v[j - 1]  BY <3>1, <1>15
    <3>3. v[j - 1] = ids[(j - 1) - m + n]  BY <3>1, <1>2
    <3>4. y[j] = ids[j - (m + 1) + n]  BY <3>1, <3>2, <3>3
    <3>5. QED BY <3>1, <3>4
  <2>5. j <= lo \/ (~(j <= lo) /\ j <= lo + m) \/ j = (lo + m) + 1 \/ j > (lo + m) + 1
    BY <1>8
  <2>6. QED BY <2>1, <2>2, <2>3, <2>4, <2>5
<1>18. Known(x) = K \cup {f(i) : i \in 1 .. m + 1}
  <2>1. Known(x) = Known(e) \cup {id}  BY <1>13 DEF GrownBy
  <2>2. 1 .. m + 1 = (1 .. m) \cup {m + 1}  OBVIOUS
  <2>3. QED BY <1>2, <2>1, <2>2 DEF id
<1>19. \A k \in K : x.items[k].ch = d.items[k].ch
  BY <1>2, <1>13 DEF GrownBy
<1>20. \A i \in 1 .. m + 1 : x.items[f(i)].ch = new[lo + i]
  <2> SUFFICES ASSUME NEW i \in 1 .. m + 1 PROVE x.items[f(i)].ch = new[lo + i]
    OBVIOUS
  <2>1. CASE i = m + 1
    <3>1. x.items[id].ch = ch  BY <1>13 DEF GrownBy
    <3>2. QED BY <2>1, <3>1 DEF id, ch
  <2>2. CASE i \in 1 .. m
    <3>1. f(i) \in Known(e)  BY <2>2, <1>2
    <3>2. x.items[f(i)] = e.items[f(i)]  BY <3>1, <1>13 DEF GrownBy
    <3>3. QED BY <2>2, <3>2, <1>2
  <2>3. QED BY <2>1, <2>2
<1>21. Replaced(x, d, new, site, clock, lo, n, m + 1)
  BY <1>15, <1>16, <1>17, <1>18, <1>19, <1>20 DEF Replaced, ids, N, K, f, y
<1>22. QED BY <1>13, <1>14, <1>21

LEMMA EditApplied ==
    ASSUME NEW C, NEW d \in Tree(C), NEW new \in Seq(C), NEW site \in Nat \ {0},
           NEW clock \in Nat, MaxClock(d) <= clock, NEW ops \in Seq(AnyOp(C)),
           NEW lo \in Nat, NEW n \in Nat, NEW m \in Nat, Edits(ops, d, new, site, clock, lo, n, m)
    PROVE  /\ ApplyBatch(d, ops).ok /\ ApplyBatch(d, ops).doc \in Tree(C)
           /\ Replaced(ApplyBatch(d, ops).doc, d, new, site, clock, lo, n, m)
<1> DEFINE ids == VisibleIDs(d)
           N == Len(ids)
           D == Outcome(Tree(C))
<1>1. PICK run \in [0 .. Len(ops) -> D] : BatchRun(run, d, ops) /\ ApplyBatch(d, ops) = run[Len(ops)]
  BY BatchTree
<1>2. /\ Len(ops) = n + m /\ lo + n <= N /\ lo + m <= Len(new)
      /\ \A i \in 1 .. n : ops[i] = DelOp(ids[lo + i])
      /\ \A i \in 1 .. m :
          ops[n + i] = InsOp(FreshId(site, clock, i),
                             IF i = 1 THEN Anchor(ids, lo) ELSE FreshId(site, clock, i - 1), new[lo + i])
  BY DEF Edits
<1>3. /\ run[0] = [doc |-> d, ok |-> TRUE]
      /\ \A q \in 1 .. n + m : run[q] = ApplyNext(run[q - 1], ops[q])
      /\ \A q \in 0 .. n + m : run[q] \in D
  BY <1>1, <1>2 DEF BatchRun
<1>4. N \in Nat  BY VisibleType
<1> HIDE DEF ids, N
<1> DEFINE Cut(q) == run[q].ok /\ Replaced(run[q].doc, d, new, site, clock, lo, q, 0)
           S == {q \in Nat : q <= n => Cut(q)}
<1>5. 0 \in S
  <2>1. run[0].ok /\ run[0].doc = d  BY <1>3
  <2>2. Replaced(d, d, new, site, clock, lo, 0, 0)
    <3>1. 1 .. 0 = {}  OBVIOUS
    <3>2. {FreshId(site, clock, i) : i \in 1 .. 0} = {}  BY <3>1
    <3>3. N - 0 + 0 = N  BY <1>4
    <3>4. ASSUME NEW j \in 1 .. N
          PROVE  ids[j] = IF j <= lo THEN ids[j]
                          ELSE IF j <= lo + 0 THEN FreshId(site, clock, j - lo) ELSE ids[j - 0 + 0]
      <4>1. (j <= lo + 0 <=> j <= lo) /\ j - 0 + 0 = j  OBVIOUS
      <4>2. QED BY <4>1
    <3>5. QED BY <3>1, <3>2, <3>3, <3>4 DEF Replaced, ids, N
  <2>3. QED BY <2>1, <2>2
<1>6. ASSUME NEW q \in S PROVE q + 1 \in S
  <2> SUFFICES ASSUME q + 1 <= n PROVE Cut(q + 1)
    OBVIOUS
  <2> DEFINE e == run[q].doc
             id == ids[lo + (q + 1)]
  <2>1. q \in Nat /\ q + 1 \in 1 .. n /\ q + 1 \in 1 .. n + m /\ q \in 0 .. n + m /\ (q + 1) - 1 = q /\ Cut(q)
    OBVIOUS
  <2>2. run[q + 1] = ApplyNext(run[q], DelOp(id)) /\ run[q] \in D  BY <1>2, <1>3, <2>1
  <2>3. run[q + 1] = [doc |-> Delete(e, id), ok |-> TRUE]
    <3>1. ApplyNext(run[q], DelOp(id)) = Apply(e, DelOp(id))  BY <2>1 DEF ApplyNext
    <3>2. lo + (q + 1) \in 1 .. N  BY <1>2, <1>4, <2>1
    <3>3. id \in Id  BY <3>2, VisibleType, TreeIs DEF ids, N
    <3>4. id # Root  BY <3>3 DEF Id, Root
    <3>5. Apply(e, DelOp(id)) = [doc |-> Delete(e, id), ok |-> TRUE]  BY <3>4 DEF Apply, DelOp
    <3>6. QED BY <2>2, <3>1, <3>5
  <2>4. e \in Tree(C) /\ Replaced(e, d, new, site, clock, lo, q, 0)  BY <2>1, <2>2 DEF Outcome
  <2> HIDE DEF e
  <2>5. lo + q + 1 <= N  BY <1>2, <1>4, <2>1
  <2>6. Replaced(Delete(e, id), d, new, site, clock, lo, q + 1, 0)
    BY <2>1, <2>4, <2>5, ReplacedBury DEF ids, N
  <2>7. QED BY <2>3, <2>6
<1>7. S = Nat
  <2>1. S \in SUBSET Nat  OBVIOUS
  <2> HIDE DEF S
  <2>2. QED BY <1>5, <1>6, <2>1, SetInduction
<1>8. Cut(n)
  <2> HIDE DEF Cut
  <2>1. n \in S => Cut(n)  OBVIOUS
  <2> HIDE DEF S
  <2>2. QED BY <2>1, <1>7
<1> DEFINE Put(q) == run[n + q].ok /\ Replaced(run[n + q].doc, d, new, site, clock, lo, n, q)
           T == {q \in Nat : q <= m => Put(q)}
<1>9. 0 \in T
  <2>1. n + 0 = n  OBVIOUS
  <2>2. QED BY <1>8, <2>1
<1> HIDE DEF Cut, S
<1>10. ASSUME NEW q \in T PROVE q + 1 \in T
  <2> SUFFICES ASSUME q + 1 <= m PROVE Put(q + 1)
    OBVIOUS
  <2> DEFINE e == run[n + q].doc
             after == IF q + 1 = 1 THEN Anchor(ids, lo) ELSE FreshId(site, clock, (q + 1) - 1)
             op == InsOp(FreshId(site, clock, q + 1), after, new[lo + (q + 1)])
  <2>1. /\ q \in Nat /\ q + 1 \in 1 .. m /\ n + (q + 1) \in 1 .. n + m /\ n + q \in 0 .. n + m
        /\ (n + (q + 1)) - 1 = n + q /\ Put(q)
    OBVIOUS
  <2>2. ops[n + (q + 1)] = op  BY <1>2, <2>1
  <2>3. new[lo + (q + 1)] \in C
    <3>1. lo + (q + 1) \in 1 .. Len(new)  BY <1>2, <2>1
    <3>2. QED BY <3>1
  <2> HIDE DEF op
  <2>4. run[n + (q + 1)] = ApplyNext(run[n + q], op) /\ run[n + q] \in D  BY <1>3, <2>1, <2>2
  <2>5. run[n + (q + 1)] = Apply(e, op)  BY <2>1, <2>4 DEF ApplyNext
  <2>6. e \in Tree(C) /\ Replaced(e, d, new, site, clock, lo, n, q)  BY <2>1, <2>4 DEF Outcome
  <2> HIDE DEF e
  <2>7. after = IF q + 1 = 1 THEN Anchor(VisibleIDs(d), lo) ELSE FreshId(site, clock, (q + 1) - 1)
    BY DEF ids
  <2> HIDE DEF after
  <2>8. op = InsOp(FreshId(site, clock, q + 1), after, new[lo + (q + 1)])  BY DEF op
  <2>9. Apply(e, op).ok /\ Replaced(Apply(e, op).doc, d, new, site, clock, lo, n, q + 1)
    <3>1. lo + n <= Len(VisibleIDs(d)) /\ q \in Nat  BY <1>2, <2>1 DEF ids, N
    <3>2. Growing(e, d, new, site, clock, lo, n, q, after, op)
      BY <3>1, <2>6, <2>7, <2>8 DEF Growing
    <3>3. QED BY <3>1, <3>2, <2>3, <2>6, ReplacedGrow
  <2>10. QED BY <2>5, <2>9
<1>11. T = Nat
  <2>1. T \in SUBSET Nat  OBVIOUS
  <2> HIDE DEF T
  <2>2. QED BY <1>9, <1>10, <2>1, SetInduction
<1>12. Put(m)
  <2> HIDE DEF Put
  <2>1. m \in T => Put(m)  OBVIOUS
  <2> HIDE DEF T
  <2>2. QED BY <2>1, <1>11
<1>13. n + m \in 0 .. n + m  OBVIOUS
<1>14. ApplyBatch(d, ops) \in D  BY BatchTree
<1>15. QED BY <1>1, <1>2, <1>12, <1>14 DEF Outcome

\* The batch of an edit is accepted whole, and shows the text that was typed.
LEMMA DifferenceShown ==
    ASSUME NEW C, NEW d \in Tree(C), NEW new \in Seq(C), NEW site \in Nat \ {0},
           NEW clock \in Nat, MaxClock(d) <= clock, NEW ops,
           ops = DiffToOps(VisibleIDs(d), Materialize(d), new, site, clock)
    PROVE  /\ ops \in Seq(AnyOp(C)) /\ ApplyBatch(d, ops).ok
           /\ ApplyBatch(d, ops).doc \in Tree(C) /\ Materialize(ApplyBatch(d, ops).doc) = new
<1> DEFINE ids == VisibleIDs(d)
           old == Materialize(d)
           N == Len(ids)
           e == ApplyBatch(d, ops).doc
<1>1. /\ ids \in Seq(Known(d)) /\ N \in Nat /\ Len(old) = N /\ Len(new) \in Nat
      /\ \A i \in 1 .. N : old[i] = d.items[ids[i]].ch
  BY VisibleType, MaterializeIs
<1>2. ops \in Seq(Op(C))  BY EditOpsAre
<1>3. PICK lo \in Nat, hi \in Nat :
         /\ Difference(old, new, lo, hi)
         /\ Len(old) - hi - lo \in Nat /\ Len(new) - hi - lo \in Nat
         /\ Edits(ops, d, new, site, clock, lo, Len(old) - hi - lo, Len(new) - hi - lo)
  BY EditOpsAre
<1> DEFINE n == Len(old) - hi - lo
           m == Len(new) - hi - lo
<1>4. /\ n \in Nat /\ m \in Nat /\ Edits(ops, d, new, site, clock, lo, n, m)
      /\ N = lo + n + hi /\ Len(new) = lo + m + hi
  BY <1>1, <1>3
<1>5. ops \in Seq(AnyOp(C))
  <2>1. Op(C) \subseteq AnyOp(C)  BY DEF Op, AnyOp
  <2>2. QED BY <1>2, <2>1
<1> HIDE DEF n, m, e, old
<1>6. ApplyBatch(d, ops).ok /\ e \in Tree(C) /\ Replaced(e, d, new, site, clock, lo, n, m)
  BY <1>4, <1>5, EditApplied DEF e
<1> DEFINE f(i) == FreshId(site, clock, i)
           M == lo + m + hi
           c == VisibleIDs(e)
<1>7. /\ \A k \in Known(d) : e.items[k].ch = d.items[k].ch
      /\ \A i \in 1 .. m : e.items[f(i)].ch = new[lo + i]
      /\ Len(c) = N - n + m
      /\ \A j \in 1 .. N - n + m : c[j] = IF j <= lo THEN ids[j]
             ELSE IF j <= lo + m THEN f(j - lo) ELSE ids[j - m + n]
  BY <1>6 DEF Replaced
<1>8. /\ Materialize(e) \in Seq(C) /\ Len(Materialize(e)) = Len(c)
      /\ \A i \in 1 .. Len(c) : Materialize(e)[i] = e.items[c[i]].ch
  BY <1>6, MaterializeIs
<1> HIDE DEF c, f, ids, N
<1>9. M \in Nat /\ Len(c) = M /\ Len(new) = M /\ N - n + m = M
  BY <1>1, <1>4, <1>7
<1>10. ASSUME NEW i \in 1 .. M PROVE e.items[c[i]].ch = new[i]
  <2>1. CASE i <= lo
    <3>1. c[i] = ids[i] /\ i \in 1 .. lo /\ i \in 1 .. N  BY <2>1, <1>4, <1>7, <1>9
    <3>2. ids[i] \in Known(d)  BY <3>1, <1>1 DEF N
    <3>3. old[i] = new[i]  BY <3>1, <1>3 DEF Difference
    <3>4. QED BY <3>1, <3>2, <3>3, <1>1, <1>7
  <2>2. CASE i > lo /\ i <= lo + m
    <3>1. c[i] = f(i - lo) /\ i - lo \in 1 .. m /\ lo + (i - lo) = i  BY <2>2, <1>4, <1>7, <1>9
    <3>2. QED BY <3>1, <1>7
  <2>3. CASE i > lo + m
    <3>1. c[i] = ids[i - m + n] /\ i - m + n \in 1 .. N  BY <2>3, <1>4, <1>7, <1>9
    <3>2. ids[i - m + n] \in Known(d)  BY <3>1, <1>1 DEF N
    <3>3. M - i + 1 \in 1 .. hi /\ N - (M - i + 1) + 1 = i - m + n /\ M - (M - i + 1) + 1 = i
      BY <2>3, <1>4
    <3>4. old[N - (M - i + 1) + 1] = new[M - (M - i + 1) + 1]
      BY <3>3, <1>1, <1>3, <1>9 DEF Difference
    <3>5. old[i - m + n] = new[i]  BY <3>3, <3>4
    <3>6. QED BY <3>1, <3>2, <3>5, <1>1, <1>7
  <2>4. i \in Nat /\ m \in Nat  BY <1>4
  <2>5. QED BY <2>1, <2>2, <2>3, <2>4
<1>11. Materialize(e) = new
  <2> HIDE DEF M
  <2>1. QED BY <1>8, <1>9, <1>10, SameSequence
<1>12. QED BY <1>5, <1>6, <1>11 DEF e

LEMMA EditShows ==
    ASSUME NEW C, NEW d \in Doc(C), NEW new \in Seq(C), NEW site \in Nat \ {0}
    PROVE  /\ ApplyBatch(d, EditOps(d, new, site)).ok
           /\ ApplyBatch(d, EditOps(d, new, site)).doc \in Doc(C)
           /\ Materialize(ApplyBatch(d, EditOps(d, new, site)).doc) = new
<1> DEFINE ops == EditOps(d, new, site)
           clock == MaxClock(d)
<1>1. /\ d \in Tree(C) /\ clock \in Nat /\ clock <= clock
      /\ ops = DiffToOps(VisibleIDs(d), Materialize(d), new, site, clock)
  BY DocIsTree, MaxClockIs DEF EditOps
<1> HIDE DEF ops, clock
<1>2. ApplyBatch(d, ops).ok /\ Materialize(ApplyBatch(d, ops).doc) = new
  BY <1>1, DifferenceShown DEF clock
<1>3. ops \in Seq(Op(C))  BY <1>1, EditOpsAre DEF clock
<1>4. ApplyBatch(d, ops) \in Outcome(Doc(C))
  <2>1. PICK run \in [0 .. Len(ops) -> Outcome(Doc(C))] : ApplyBatch(d, ops) = run[Len(ops)]
    BY <1>3, BatchRuns
  <2>2. Len(ops) \in 0 .. Len(ops)  BY <1>3
  <2>3. QED BY <2>1, <2>2
<1>5. QED BY <1>2, <1>4 DEF Outcome, ops

\* A document built of a text shows that text.
LEMMA BuildShows ==
    ASSUME NEW C, NEW site \in Nat \ {0}, NEW text \in Seq(C)
    PROVE  BuildFromString(site, text) \in Tree(C) /\ Materialize(BuildFromString(site, text)) = text
<1> DEFINE d == NewDoc
           m == Len(text)
           id(n) == IF n = 0 THEN Root ELSE [clock |-> n, site |-> site]
           ops == [n \in DOMAIN text |-> InsOp(id(n), id(n - 1), text[n])]
           e == ApplyBatch(d, ops).doc
           f(i) == FreshId(site, 0, i)
<1>1. d \in Tree(C) /\ Known(d) = {}
  <2>1. d \in Doc(C)  BY NewDocIsDoc
  <2>2. DOMAIN << >> = {}  OBVIOUS
  <2>3. QED BY <2>1, <2>2, DocIsTree DEF NewDoc, Known
<1>2. m \in Nat /\ DOMAIN text = 1 .. m /\ \A i \in 1 .. m : text[i] \in C  OBVIOUS
<1>3. BuildFromString(site, text) = e  BY DEF BuildFromString
<1>4. \A i \in 1 .. m : f(i) \in Id /\ id(i) = f(i) /\ id(i - 1) = IF i = 1 THEN Root ELSE f(i - 1)
  <2> SUFFICES ASSUME NEW i \in 1 .. m
               PROVE  f(i) \in Id /\ id(i) = f(i) /\ id(i - 1) = IF i = 1 THEN Root ELSE f(i - 1)
    OBVIOUS
  <2>1. i \in Nat \ {0} /\ 0 + i = i /\ 0 + (i - 1) = i - 1 /\ (i = 1 <=> i - 1 = 0)  BY <1>2
  <2>2. QED BY <2>1 DEF FreshId, Id
<1>5. ops \in Seq(AnyOp(C)) /\ DOMAIN ops = 1 .. m
      /\ \A i \in 1 .. m : ops[i] = InsOp(f(i), IF i = 1 THEN Root ELSE f(i - 1), text[i])
  <2>1. \A i \in 1 .. m : ops[i] = InsOp(id(i), id(i - 1), text[i])  BY <1>2
  <2> HIDE DEF ops, id, f
  <2>2. \A i \in 1 .. m : ops[i] = InsOp(f(i), IF i = 1 THEN Root ELSE f(i - 1), text[i])
    BY <1>4, <2>1
  <2>3. \A i \in 1 .. m : (IF i = 1 THEN Root ELSE f(i - 1)) \in Id \cup {Root}
    <3>1. \A i \in 1 .. m : i # 1 => i - 1 \in 1 .. m  BY <1>2
    <3>2. QED BY <3>1, <1>4
  <2>4. \A i \in 1 .. m : ops[i] \in AnyOp(C)
    <3> SUFFICES ASSUME NEW i \in 1 .. m PROVE ops[i] \in AnyOp(C)
      OBVIOUS
    <3> DEFINE after == IF i = 1 THEN Root ELSE f(i - 1)
    <3>1. ops[i] = InsOp(f(i), after, text[i]) /\ after \in Id \cup {Root}  BY <2>2, <2>3
    <3> HIDE DEF after
    <3>2. QED BY <3>1, <1>2, <1>4 DEF InsOp, AnyOp
  <2>5. DOMAIN ops = 1 .. m /\ ops = [i \in 1 .. m |-> ops[i]]  BY <1>2 DEF ops
  <2>6. QED BY <1>2, <2>2, <2>4, <2>5
<1> HIDE DEF e, ops, m, id
<1>6. VisibleIDs(d) \in Seq(Known(d)) /\ Len(VisibleIDs(d)) = 0
  <2> DEFINE v == VisibleIDs(d)
  <2>1. v \in Seq(Known(d))  BY <1>1, VisibleType
  <2> HIDE DEF v
  <2>2. Len(v) \in Nat /\ \A i \in 1 .. Len(v) : v[i] \in Known(d)  BY <2>1
  <2>3. Len(v) = 0
    <3> SUFFICES ASSUME Len(v) > 0 PROVE FALSE
      BY <2>2
    <3>1. 1 \in 1 .. Len(v)  BY <2>2
    <3>2. QED BY <3>1, <2>2, <1>1
  <2>4. QED BY <2>1, <2>3 DEF v
<1>7. MaxClock(d) <= 0
  <2>1. MaxClock(d) = MaxOf({0})  BY <1>1 DEF MaxClock
  <2>2. MaxOf({0}) = 0  BY DEF MaxOf
  <2>3. QED BY <2>1, <2>2
<1>8. Edits(ops, d, text, site, 0, 0, 0, m)
  <2>1. Anchor(VisibleIDs(d), 0) = Root  BY DEF Anchor
  <2>2. 0 + m = m /\ (\A i \in 1 .. m : 0 + i = i) /\ 0 + 0 = 0 /\ 1 .. 0 = {}  BY <1>2
  <2>3. ASSUME NEW i \in 1 .. m
        PROVE  ops[0 + i] = InsOp(FreshId(site, 0, i),
                   IF i = 1 THEN Anchor(VisibleIDs(d), 0) ELSE FreshId(site, 0, i - 1), text[0 + i])
    BY <1>5, <2>1, <2>2
  <2>4. QED BY <1>2, <1>5, <1>6, <2>1, <2>2, <2>3 DEF Edits, m
<1>9. ApplyBatch(d, ops).doc \in Tree(C) /\ Replaced(ApplyBatch(d, ops).doc, d, text, site, 0, 0, 0, m)
  <2>1. 0 \in Nat  OBVIOUS
  <2>2. QED BY <1>1, <1>2, <1>5, <1>7, <1>8, <2>1, EditApplied
<1> DEFINE c == VisibleIDs(e)
<1>10. /\ \A i \in 1 .. m : e.items[f(i)].ch = text[0 + i]
       /\ Len(c) = Len(VisibleIDs(d)) - 0 + m
       /\ \A j \in 1 .. Len(VisibleIDs(d)) - 0 + m : c[j] = IF j <= 0 THEN VisibleIDs(d)[j]
             ELSE IF j <= 0 + m THEN f(j - 0) ELSE VisibleIDs(d)[j - m + 0]
  BY <1>9 DEF Replaced, e
<1>11. Materialize(e) \in Seq(C) /\ Len(Materialize(e)) = Len(c)
       /\ \A i \in 1 .. Len(c) : Materialize(e)[i] = e.items[c[i]].ch
  BY <1>9, MaterializeIs DEF e
<1> HIDE DEF c, f
<1>12. Len(VisibleIDs(d)) - 0 + m = m  BY <1>2, <1>6
<1>13. ASSUME NEW i \in 1 .. m PROVE e.items[c[i]].ch = text[i]
  <2>1. ~(i <= 0) /\ i <= 0 + m /\ i - 0 = i /\ 0 + i = i  BY <1>2
  <2>2. c[i] = f(i)  BY <2>1, <1>10, <1>12
  <2>3. QED BY <2>1, <2>2, <1>10
<1>14. Materialize(e) = text
  BY <1>10, <1>11, <1>12, <1>13, SameSequence DEF m
<1>15. QED BY <1>3, <1>9, <1>14 DEF e

-----------------------------------------------------------------------------
(* A snapshot is read back as the document it was taken of                 *)

LEMMA InsertChildType ==
    ASSUME NEW K, NEW kids \in Seq(K), NEW id \in K
    PROVE  InsertChild(kids, id) \in Seq(K)
<1> DEFINE n == Len(kids)
           before == {i \in DOMAIN kids : SiblingBefore(kids[i], id)}
           J == {j \in DOMAIN kids : 1 .. j \subseteq before}
           m == Cardinality(J)
<1>1. n \in Nat /\ DOMAIN kids = 1 .. n  OBVIOUS
<1>2. InsertChild(kids, id) = InsertAt(kids, m + 1, id)
  BY DEF InsertChild
<1>3. m \in 0 .. n
  <2>1. J \in SUBSET (1 .. n) /\ \A j \in J : 1 .. j \subseteq J  BY <1>1
  <2> HIDE DEF J
  <2>2. QED BY <1>1, <2>1, Initial
<1> HIDE DEF m
<1>4. m + 1 \in 1 .. n + 1  BY <1>1, <1>3
<1>5. QED BY <1>2, <1>4, InsertAtIs

\* The children are placed one after the other: there is a run of it.
PlaceRun(placed, items, P) ==
    /\ placed[0] = [p \in P |-> << >>]
    /\ \A n \in 1 .. Len(items) : placed[n] = Place(placed[n - 1], items[n])

LEMMA PlaceType ==
    ASSUME NEW K, NEW kids \in [K \cup {Root} -> Seq(K)], NEW it, it.id \in K
    PROVE  Place(kids, it) \in [K \cup {Root} -> Seq(K)]
<1>1. \A p \in K \cup {Root} : InsertChild(kids[p], it.id) \in Seq(K)
  BY InsertChildType
<1>2. CASE it.after \in K \cup {Root}
  <2>1. InsertChild(kids[it.after], it.id) \in Seq(K)  BY <1>1, <1>2
  <2>2. QED BY <2>1 DEF Place
<1>3. CASE it.after \notin K \cup {Root}
  BY <1>3 DEF Place
<1>4. QED BY <1>2, <1>3

\* FromItems is what it registers, with the last of the placings.
IdsOf(items) == {items[i].id : i \in DOMAIN items}

PlacedOf(items, K, L) ==
    \E placed \in [0 .. L -> [K \cup {Root} -> Seq(K)]] :
        PlaceRun(placed, items, K \cup {Root}) /\ FromItems(items).children = placed[L]

LEMMA PlacingRuns ==
    ASSUME NEW K, NEW L \in Nat, NEW items, Len(items) = L, \A i \in 1 .. L : items[i].id \in K,
           K = IdsOf(items)
    PROVE  PlacedOf(items, K, L)
<1> DEFINE P == K \cup {Root}
           R == [P -> Seq(K)]
           base == [p \in P |-> << >>]
           Loop(k) == k = [n \in 0 .. L |-> IF n = 0 THEN base ELSE Place(k[n - 1], items[n])]
           step == [p \in Nat \X R |-> IF p[1] \in 1 .. L THEN Place(p[2], items[p[1]]) ELSE p[2]]
           placed == CHOOSE k : Loop(k)
<1>1. base \in R  OBVIOUS
<1>2. \A r \in R, n \in 1 .. L : Place(r, items[n]) \in R
  BY PlaceType
<1>3. FromItems(items).children = placed[L]
  BY DEF FromItems, IdsOf
<1> HIDE DEF base
<1>4. PICK k \in [0 .. L -> R] : Loop(k)
  <2> HIDE DEF R
  <2>1. step \in [Nat \X R -> R]
    BY <1>2
  <2>2. \A n \in Nat, r \in R : step[<<n, r>>] = IF n \in 1 .. L THEN Place(r, items[n]) ELSE r
    OBVIOUS
  <2> HIDE DEF step
  <2>3. PICK k \in [0 .. L -> R] : Loops(k, L, base, step)
    BY <1>1, <2>1, LoopExists
  <2>4. ASSUME NEW n \in 0 .. L, n # 0 PROVE step[<<n, k[n - 1]>>] = Place(k[n - 1], items[n])
    <3>1. n \in Nat /\ n \in 1 .. L /\ n - 1 \in 0 .. L  BY <2>4
    <3>2. QED BY <3>1, <2>2
  <2>5. Loop(k)  BY <2>3, <2>4 DEF Loops
  <2>6. QED BY <2>5
<1>5. Loop(placed)
  <2> HIDE DEF Loop
  <2>1. QED BY <1>4
<1> HIDE DEF placed, R
<1>6. placed[0] = base /\ \A n \in 1 .. L : placed[n] = Place(placed[n - 1], items[n])
  BY <1>5
<1>7. placed \in [0 .. L -> R]
  <2> DEFINE T == {n \in Nat : n <= L => placed[n] \in R}
  <2>1. 0 \in T  BY <1>1, <1>6
  <2>2. ASSUME NEW n \in T PROVE n + 1 \in T
    <3> SUFFICES ASSUME n + 1 <= L PROVE placed[n + 1] \in R
      OBVIOUS
    <3>1. n + 1 \in 1 .. L /\ (n + 1) - 1 = n /\ placed[n] \in R  OBVIOUS
    <3>2. placed[n + 1] = Place(placed[n], items[n + 1])  BY <3>1, <1>6
    <3>3. QED BY <3>1, <3>2, <1>2
  <2>3. T = Nat
    <3>1. T \in SUBSET Nat  OBVIOUS
    <3> HIDE DEF T
    <3>2. QED BY <2>1, <2>2, <3>1, SetInduction
  <2>4. \A n \in 0 .. L : placed[n] \in R  BY <2>3
  <2>5. QED BY <2>4, <1>5
<1>8. PlaceRun(placed, items, P)
  BY <1>6 DEF PlaceRun, base
<1>9. QED BY <1>3, <1>7, <1>8 DEF R, PlacedOf

\* Placed in any order without repetition, the children of each are those that name it.
Placing(kids, d, w, n) ==
    \A p \in Known(d) \cup {Root} :
        /\ Ordered(kids[p])
        /\ ToSet(kids[p]) = {w[i] : i \in {j \in 1 .. n : Parent(d, w[j]) = p}}

LEMMA PlacedAll ==
    ASSUME NEW C, NEW d \in Doc(C), NEW w \in Seq(Known(d)), Distinct(w),
           NEW items, Len(items) = Len(w),
           \A i \in 1 .. Len(w) : items[i].id = w[i] /\ items[i].after = Parent(d, w[i]),
           NEW placed \in [0 .. Len(w) -> [Known(d) \cup {Root} -> Seq(Known(d))]],
           PlaceRun(placed, items, Known(d) \cup {Root})
    PROVE  Placing(placed[Len(w)], d, w, Len(w))
<1> DEFINE K == Known(d)
           P == K \cup {Root}
           L == Len(w)
           T == {n \in Nat : n <= L => Placing(placed[n], d, w, n)}
<1>1. /\ L \in Nat /\ K \in SUBSET Id /\ \A i \in 1 .. L : w[i] \in K /\ Parent(d, w[i]) \in P
      /\ placed[0] = [p \in P |-> << >>]
      /\ \A n \in 1 .. L : placed[n] = Place(placed[n - 1], items[n])
  BY DocIs, ParentIs DEF PlaceRun
<1> HIDE DEF L
<1>2. 0 \in T
  <2>1. \A p \in P : placed[0][p] = << >>  BY <1>1
  <2>2. Ordered(<< >>) /\ ToSet(<< >>) = {}  BY DEF Ordered, ToSet
  <2>3. 1 .. 0 = {}  OBVIOUS
  <2>4. QED BY <2>1, <2>2, <2>3 DEF Placing
<1>3. ASSUME NEW n \in T PROVE n + 1 \in T
  <2> SUFFICES ASSUME n + 1 <= L PROVE Placing(placed[n + 1], d, w, n + 1)
    OBVIOUS
  <2> DEFINE id == w[n + 1]
             after == Parent(d, id)
             kids == placed[n]
  <2>1. n + 1 \in 1 .. L /\ (n + 1) - 1 = n /\ n \in 0 .. L /\ n \in Nat /\ Placing(kids, d, w, n)
    BY <1>1
  <2>2. id \in K /\ after \in P /\ kids \in [P -> Seq(K)]  BY <1>1, <2>1 DEF L
  <2>3. placed[n + 1] = [kids EXCEPT ![after] = InsertChild(kids[after], id)]
    <3>1. items[n + 1].id = id /\ items[n + 1].after = after  BY <2>1 DEF L
    <3>2. QED BY <3>1, <1>1, <2>1 DEF Place
  <2> DEFINE In(p, k) == {w[i] : i \in {j \in 1 .. k : Parent(d, w[j]) = p}}
  <2>4. \A p \in P : Ordered(kids[p]) /\ ToSet(kids[p]) = In(p, n)  BY <2>1 DEF Placing
  <2>5. 1 .. n + 1 = (1 .. n) \cup {n + 1}  BY <2>1
  <2>6. \A p \in P : In(p, n + 1) = In(p, n) \cup (IF p = after THEN {id} ELSE {})
    BY <2>5
  <2>7. id \notin ToSet(kids[after])
    <3> SUFFICES ASSUME id \in In(after, n) PROVE FALSE
      BY <2>2, <2>4
    <3>1. PICK i \in 1 .. n : w[i] = id  OBVIOUS
    <3>2. i \in 1 .. L /\ i # n + 1  BY <2>1, <1>1
    <3>3. QED BY <3>1, <3>2, <2>1 DEF Distinct, L
  <2> HIDE DEF In, id, after, kids
  <2>8. /\ Ordered(InsertChild(kids[after], id))
        /\ ToSet(InsertChild(kids[after], id)) = ToSet(kids[after]) \cup {id}
    <3>1. kids[after] \in Seq(K) /\ Ordered(kids[after]) /\ id \in Id  BY <1>1, <2>2, <2>4
    <3>2. QED BY <1>1, <2>7, <3>1, InsertChildIs
  <2>9. ASSUME NEW p \in P
        PROVE  Ordered(placed[n + 1][p]) /\ ToSet(placed[n + 1][p]) = In(p, n + 1)
    <3>1. CASE p = after
      <4>1. placed[n + 1][p] = InsertChild(kids[after], id)  BY <3>1, <2>2, <2>3
      <4>2. QED BY <4>1, <3>1, <2>4, <2>6, <2>8
    <3>2. CASE p # after
      <4>1. placed[n + 1][p] = kids[p]  BY <3>2, <2>2, <2>3
      <4>2. QED BY <4>1, <3>2, <2>4, <2>6
    <3>3. QED BY <3>1, <3>2
  <2>10. QED BY <2>9 DEF Placing, In
<1>4. T = Nat
  <2>1. T \in SUBSET Nat  OBVIOUS
  <2> HIDE DEF T
  <2>2. QED BY <1>2, <1>3, <2>1, SetInduction
<1>5. QED
  <2>1. \A n \in T : n <= L => Placing(placed[n], d, w, n)  OBVIOUS
  <2> HIDE DEF T
  <2>2. QED BY <1>1, <1>4, <2>1 DEF L

LEMMA ItemIs ==
    ASSUME NEW A, NEW C, NEW r \in [after : A, ch : C, del : BOOLEAN]
    PROVE  r = [after |-> r.after, ch |-> r.ch, del |-> r.del]
OBVIOUS

LEMMA ItemsRestored ==
    ASSUME NEW C, NEW d \in Doc(C)
    PROVE  FromItems(Items(d)) = d
<1> DEFINE K == Known(d)
           P == K \cup {Root}
           w == Walk(d)
           L == Len(w)
           its == Items(d)
           e == FromItems(its)
<1>1. /\ d \in TreeOf(K, C) /\ WellFormed(d) /\ K \in SUBSET Id
      /\ d.items \in [K -> ItemType(K, C)]
  BY DocIs DEF TreeOf
<1>2. Traverses(w, d)  BY WalkTraverses
<1>3. /\ its = [i \in DOMAIN w |-> [id |-> w[i], after |-> d.items[w[i]].after,
                                    ch |-> d.items[w[i]].ch, del |-> d.items[w[i]].del]]
  BY DEF Items
<1> HIDE DEF w, its
<1>4. /\ w \in Seq(K) /\ Distinct(w) /\ ToSet(w) = K /\ L \in Nat /\ DOMAIN w = 1 .. L
      /\ \A i \in 1 .. L : w[i] \in K
  BY <1>2 DEF Traverses
<1> HIDE DEF L
<1>5. /\ DOMAIN its = 1 .. L /\ Len(its) = L
      /\ \A i \in 1 .. L : /\ its[i].id = w[i] /\ its[i].after = d.items[w[i]].after
                           /\ its[i].ch = d.items[w[i]].ch /\ its[i].del = d.items[w[i]].del
  BY <1>3, <1>4
<1>6. K = IdsOf(its)
  BY <1>4, <1>5 DEF ToSet, IdsOf
<1>7. e.items = d.items
  <2> DEFINE at(id) == CHOOSE i \in DOMAIN its : its[i].id = id
             it(id) == [after |-> its[at(id)].after, ch |-> its[at(id)].ch, del |-> its[at(id)].del]
  <2>1. e.items = [id \in {its[i].id : i \in DOMAIN its} |-> it(id)]
    BY DEF FromItems
  <2>2. ASSUME NEW id \in K PROVE it(id) = d.items[id]
    <3>1. at(id) \in 1 .. L /\ its[at(id)].id = id
      <4>1. \E i \in DOMAIN its : its[i].id = id  BY <1>6 DEF IdsOf
      <4>2. at(id) \in DOMAIN its /\ its[at(id)].id = id  BY <4>1
      <4>3. QED BY <4>2, <1>5
    <3> HIDE DEF at
    <3>2. w[at(id)] = id  BY <3>1, <1>5
    <3>3. it(id) = [after |-> d.items[id].after, ch |-> d.items[id].ch, del |-> d.items[id].del]
      BY <3>1, <3>2, <1>5
    <3>4. d.items[id] \in [after : P, ch : C, del : BOOLEAN]  BY <1>1 DEF ItemType
    <3> HIDE DEF it, P
    <3>5. d.items[id] = [after |-> d.items[id].after, ch |-> d.items[id].ch, del |-> d.items[id].del]
      BY <3>4, ItemIs
    <3>6. QED BY <3>3, <3>5
  <2> HIDE DEF it
  <2>3. e.items = [id \in K |-> it(id)]  BY <2>1, <1>6 DEF IdsOf
  <2>4. e.items = [id \in K |-> d.items[id]]  BY <2>2, <2>3
  <2>5. QED BY <2>4, <1>1
<1>8. PICK placed \in [0 .. L -> [P -> Seq(K)]] : PlaceRun(placed, its, P) /\ e.children = placed[L]
  <2>1. \A i \in 1 .. L : its[i].id \in K  BY <1>4, <1>5
  <2>2. PlacedOf(its, K, L)
    <3> HIDE DEF K
    <3>1. QED BY <1>4, <1>5, <1>6, <2>1, PlacingRuns
  <2>3. QED BY <2>2 DEF PlacedOf
<1>9. Placing(e.children, d, w, L)
  <2>1. \A i \in 1 .. L : its[i].id = w[i] /\ its[i].after = Parent(d, w[i])
    BY <1>5 DEF Parent
  <2>2. QED BY <1>4, <1>5, <1>8, <2>1, PlacedAll DEF L
<1>10. e.children \in [P -> Seq(K)]
  <2>1. L \in 0 .. L  BY <1>4
  <2> HIDE DEF P, K, e
  <2>2. QED BY <2>1, <1>8
<1>11. e = [items |-> d.items, children |-> e.children]
  <2>1. e = [items |-> e.items, children |-> e.children]  BY DEF FromItems
  <2> HIDE DEF e
  <2>2. QED BY <2>1, <1>7
<1> HIDE DEF e
<1>12. Known(e) = K /\ \A id \in K : Parent(e, id) = Parent(d, id)
  BY <1>7 DEF Known, Parent
<1>13. e \in TreeOf(K, C)
  BY <1>1, <1>10, <1>11 DEF TreeOf
<1>14. \A p \in P : Ordered(e.children[p]) /\ ToSet(e.children[p]) = {id \in K : Parent(d, id) = p}
  <2>1. \A p \in P : {w[i] : i \in {j \in 1 .. L : Parent(d, w[j]) = p}} = {id \in K : Parent(d, id) = p}
    BY <1>4 DEF ToSet
  <2>2. QED BY <1>9, <2>1 DEF Placing
<1>15. WellFormed(e)
  BY <1>1, <1>12, <1>14 DEF WellFormed
<1>16. e \in Doc(C)
  BY <1>1, <1>13, <1>15, DocMade
<1>17. e = d  BY <1>7, <1>16, DocUnique
<1>18. QED BY <1>17 DEF e, its

\* What is shown of a document without tombstones is the traversal.
LEMMA AllVisible ==
    ASSUME NEW C, NEW d \in Doc(C), \A k \in Known(d) : ~d.items[k].del
    PROVE  VisibleIDs(d) = Walk(d)
<1> DEFINE w == Walk(d)
<1>1. Traverses(w, d) /\ Shows(VisibleIDs(d), d)  BY WalkTraverses, VisibleIs
<1>2. w \in Seq(Known(d)) /\ Distinct(w) /\ ToSet(w) = Known(d)  BY <1>1 DEF Traverses
<1>3. InOrder(w, w)
  <2> HIDE DEF w
  <2>1. DOMAIN w = 1 .. Len(w)  BY <1>2
  <2>2. QED BY <2>1 DEF InOrder, Precedes
<1>4. /\ VisibleIDs(d) \in Seq(Known(d)) /\ InOrder(VisibleIDs(d), w)
      /\ ToSet(VisibleIDs(d)) = ToSet(w)
  BY <1>1, <1>2 DEF Shows
<1> HIDE DEF w
<1>5. VisibleIDs(d) = w  BY <1>2, <1>3, <1>4, InOrderUnique
<1>6. QED BY <1>5 DEF w

LEMMA LinearRestored ==
    ASSUME NEW C, NEW d \in Doc(C), NEW site \in LinearSites(d)
    PROVE  BuildFromString(site, Materialize(d)) = d
<1> DEFINE K == Known(d)
           w == Walk(d)
           L == Len(w)
           text == Materialize(d)
           id(n) == IF n = 0 THEN Root ELSE [clock |-> n, site |-> site]
           ops == [n \in DOMAIN text |-> InsOp(id(n), id(n - 1), text[n])]
           b == ApplyBatch(NewDoc, ops).doc
<1>1. Traverses(w, d)  BY WalkTraverses
<1>2. /\ w \in Seq(K) /\ Distinct(w) /\ ToSet(w) = K /\ L \in Nat /\ DOMAIN w = 1 .. L
      /\ \A i \in 1 .. L : w[i] \in K
  BY <1>1 DEF Traverses
<1>3. \A i \in 1 .. L : /\ w[i] = [clock |-> i, site |-> site] /\ ~d.items[w[i]].del
                        /\ d.items[w[i]].after = IF i = 1 THEN Root ELSE w[i - 1]
  BY <1>2 DEF LinearSites
<1>4. /\ text \in Seq(C) /\ DOMAIN text = 1 .. L /\ Len(text) = L
      /\ \A i \in 1 .. L : text[i] = d.items[w[i]].ch
  <2>1. \A k \in K : ~d.items[k].del  BY <1>2, <1>3 DEF ToSet
  <2>2. VisibleIDs(d) = w  BY <2>1, AllVisible
  <2>3. QED BY <2>2, DocIsTree, MaterializeIs
<1>5. BuildFromString(site, text) = b
  BY DEF BuildFromString
<1> HIDE DEF w, L, text, K, b
<1>6. K \in SUBSET Id /\ \A k \in K : Parent(d, k).clock < k.clock
  BY DocIs, ParentIs DEF K
\* the chain that is built is the one there is
<1>7. ASSUME NEW i \in 1 .. L
      PROVE  /\ id(i) = w[i] /\ id(i) \in K /\ id(i - 1) = Parent(d, w[i])
             /\ id(i - 1) = IF i = 1 THEN Root ELSE w[i - 1]
  <2>1. id(i) = w[i] /\ w[i] \in K  BY <1>2, <1>3
  <2>2. id(i - 1) = IF i = 1 THEN Root ELSE w[i - 1]
    <3>1. CASE i = 1  BY <3>1
    <3>2. CASE i # 1
      <4>1. i - 1 \in 1 .. L /\ i - 1 # 0  BY <3>2, <1>2
      <4>2. QED BY <4>1, <3>2, <1>3
    <3>3. QED BY <3>1, <3>2
  <2> HIDE DEF id
  <2>3. QED BY <2>1, <2>2, <1>3 DEF Parent
<1>8. DOMAIN ops = 1 .. L /\ \A i \in 1 .. L : ops[i] = InsOp(id(i), id(i - 1), text[i])
  BY <1>4
<1> HIDE DEF id
<1>9. \A i \in 1 .. L : /\ ops[i].op = "ins" /\ ops[i].id = w[i] /\ ops[i].after = Parent(d, w[i])
                        /\ ops[i].ch = d.items[w[i]].ch
  BY <1>4, <1>7, <1>8 DEF InsOp
<1>10. ops \in Seq(Op(C))
  <2>1. ASSUME NEW i \in 1 .. L PROVE InsOp(id(i), id(i - 1), text[i]) \in Op(C)
    <3>1. id(i) \in Id /\ id(i - 1) \in Id \cup {Root} /\ id(i - 1).clock < id(i).clock
      <4>1. w[i] \in K /\ (i # 1 => w[i - 1] \in K)
        <5>1. i # 1 => i - 1 \in 1 .. L  BY <1>2
        <5>2. QED BY <5>1, <1>2
      <4>2. QED BY <4>1, <1>6, <1>7
    <3>2. text[i] \in C  BY <1>4
    <3>3. QED BY <3>1, <3>2 DEF InsOp, Op
  <2>2. QED BY <2>1, <1>2, <1>4
<1>11. \A i \in DOMAIN ops : FollowsIn(NewDoc, ops, i)
  <2> SUFFICES ASSUME NEW i \in 1 .. L PROVE FollowsIn(NewDoc, ops, i)
    BY <1>8
  <2>1. ops[i].op = "ins" /\ ops[i].after = IF i = 1 THEN Root ELSE w[i - 1]
    BY <1>7, <1>9
  <2>2. CASE i = 1  BY <2>1, <2>2 DEF FollowsIn
  <2>3. CASE i # 1
    <3>1. i - 1 \in 1 .. L /\ i - 1 \in 1 .. (i - 1)  BY <2>3, <1>2
    <3>2. ops[i - 1].id = w[i - 1]  BY <3>1, <1>9
    <3>3. ops[i].after \in {ops[j].id : j \in 1 .. (i - 1)}  BY <2>1, <2>3, <3>1, <3>2
    <3>4. QED BY <2>1, <3>3 DEF FollowsIn
  <2>4. QED BY <2>2, <2>3
<1> HIDE DEF ops
<1>12. b \in Doc(C) /\ Describes(ToSet(ops), b)
  <2>1. NewDoc \in Doc(C) /\ Describes({}, NewDoc)
    <3>1. NewDoc \in Doc(C) /\ Known(NewDoc) = {}  BY NewDocIsDoc
    <3>2. QED BY <3>1 DEF Describes
  <2>2. b \in Doc(C) /\ Describes({} \cup ToSet(ops), b)
    BY <1>10, <1>11, <2>1, BatchDescribes DEF b
  <2>3. {} \cup ToSet(ops) = ToSet(ops)  OBVIOUS
  <2>4. QED BY <2>2, <2>3
<1>13. \A op \in ToSet(ops) : \E i \in 1 .. L : op = ops[i]
  BY <1>8 DEF ToSet
<1>14. Describes(ToSet(ops), d)
  <2>1. \A op \in ToSet(ops) : op.id \in K /\ op.op = "ins"  BY <1>2, <1>9, <1>13
  <2>2. ASSUME NEW k \in K
        PROVE  \E op \in ToSet(ops) : /\ op.op = "ins" /\ op.id = k
                                      /\ op.after = d.items[k].after /\ op.ch = d.items[k].ch
    <3>1. PICK i \in 1 .. L : w[i] = k  BY <1>2 DEF ToSet
    <3>2. ops[i] \in ToSet(ops)  BY <1>8 DEF ToSet
    <3>3. QED BY <3>1, <3>2, <1>9 DEF Parent
  <2>3. \A k \in K : ~d.items[k].del  BY <1>2, <1>3 DEF ToSet
  <2>4. QED BY <2>1, <2>2, <2>3 DEF Describes, K
<1>15. \A o, p \in ToSet(ops) : o.op = "ins" /\ p.op = "ins" /\ o.id = p.id => o = p
  <2> SUFFICES ASSUME NEW o \in ToSet(ops), NEW p \in ToSet(ops), o.id = p.id PROVE o = p
    OBVIOUS
  <2>1. PICK i \in 1 .. L, j \in 1 .. L : o = ops[i] /\ p = ops[j]  BY <1>13
  <2>2. w[i] = w[j]  BY <2>1, <1>9
  <2>3. i = j  BY <2>2, <1>2 DEF Distinct, L
  <2>4. QED BY <2>1, <2>3
<1>16. b = d  BY <1>12, <1>14, <1>15, DescribedOnce
<1>17. QED BY <1>5, <1>16 DEF text
=============================================================================
