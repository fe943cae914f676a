----------------------- MODULE RoomPersistence_proofs -----------------------
(***************************************************************************)
(* Theorems about the room store and its files, for every value of the     *)
(* constants, in four parts; the first three are about the store in memory *)
(* (the specification Spec of RoomStore), the last about the store with    *)
(* its flusher and its directory (SpecDisk of RoomPersistence).            *)
(*                                                                         *)
(* Types, accounting and caps.                                             *)
(*                                                                         *)
(* Versions: an incarnation and a version identify a document (no step of  *)
(* the store shows a room twice under one version with different contents, *)
(* or takes an incarnation up again), a conditional save therefore         *)
(* replaces what its client read, and the version trail of every room is   *)
(* in order: capped, with no empty entry and no entry twice, by version    *)
(* and by time.                                                            *)
(*                                                                         *)
(* Credentials: a locked room is only written or deleted on behalf of a    *)
(* caller who presented the password in force when the write happens.  The *)
(* argument is one about salts.  A salt is taken once and with one         *)
(* password, so there is a function from salts to passwords that every     *)
(* lock, credential, claim and pre-check agrees with, and comparing salts  *)
(* under the lock is comparing passwords.                                  *)
(*                                                                         *)
(* Persistence, across crashes and restarts: a file that differs from its  *)
(* room belongs to a room still flagged or being written, or its last      *)
(* operation failed; a restart brings back all that was not in flight; and *)
(* what is loaded respects the limits.                                     *)
(***************************************************************************)
EXTENDS RoomPersistence, FiniteSetTheorems, FunctionTheorems, SequenceTheorems, TLAPS

\* The lemmas about induction and loops.
Induction == INSTANCE Rga_proofs

-----------------------------------------------------------------------------
(* Sums *)

\* A function on a finite set has finitely many units, and a natural sum.
LEMMA SumType ==
    ASSUME NEW S, IsFiniteSet(S), NEW f \in [S -> Nat]
    PROVE  IsFiniteSet(Units(f)) /\ SumOf(f) \in Nat
<1> DEFINE U(x) == {x} \X (1 .. f[x])
           T == {U(x) : x \in S}
           g == [x \in S |-> U(x)]
<1>1. g \in Surjection(S, T)
  BY DEF Surjection
<1>2. IsFiniteSet(T)
  BY <1>1, FS_Surjection
<1>3. ASSUME NEW u \in T PROVE IsFiniteSet(u)
  <2>1. PICK x \in S : u = U(x)
    OBVIOUS
  <2>2. IsFiniteSet({x}) /\ IsFiniteSet(1 .. f[x])
    <3>1. f[x] \in Nat
      OBVIOUS
    <3>2. IsFiniteSet({x})
      BY FS_Singleton
    <3>3. IsFiniteSet(1 .. f[x])
      BY <3>1, FS_Interval
    <3>4. QED BY <3>2, <3>3
  <2>3. QED BY <2>1, <2>2, FS_Product
<1>4. IsFiniteSet(UNION T)
  BY <1>2, <1>3, FS_UNION
<1>5. Units(f) = UNION T
  BY DEF Units
<1>6. QED BY <1>4, <1>5, FS_CardinalityType DEF SumOf

\* The number of units one element has.
LEMMA UnitsOfOne ==
    ASSUME NEW x, NEW n \in Nat
    PROVE  IsFiniteSet({x} \X (1 .. n)) /\ Cardinality({x} \X (1 .. n)) = n
<1>1. IsFiniteSet({x}) /\ Cardinality({x}) = 1
  BY FS_Singleton
<1>2. IsFiniteSet(1 .. n) /\ Cardinality(1 .. n) = n
  BY FS_Interval
<1> DEFINE S == {x}
           T == 1 .. n
<1> HIDE DEF S, T
<1>3. IsFiniteSet(S) /\ IsFiniteSet(T) /\ Cardinality(S) = 1 /\ Cardinality(T) = n
  BY <1>1, <1>2 DEF S, T
<1>4. IsFiniteSet(S \X T) /\ Cardinality(S \X T) = Cardinality(S) * Cardinality(T)
  BY <1>3, FS_Product, Zenon
<1>5. IsFiniteSet(S \X T) /\ Cardinality(S \X T) = n
  <2>1. 1 * n = n
    OBVIOUS
  <2>2. QED BY <1>3, <1>4, <2>1
<1>6. QED BY <1>5 DEF S, T

\* Disjoint finite sets: the cardinality of the union is the sum.
LEMMA DisjointUnion ==
    ASSUME NEW A, NEW B, IsFiniteSet(A), IsFiniteSet(B), A \cap B = {}
    PROVE  Cardinality(A \cup B) = Cardinality(A) + Cardinality(B)
<1>1. Cardinality(A \cap B) = 0
  BY FS_EmptySet
<1>2. Cardinality(A) \in Nat /\ Cardinality(B) \in Nat
  BY FS_CardinalityType
<1>3. Cardinality(A \cup B) = Cardinality(A) + Cardinality(B) - Cardinality(A \cap B)
  BY FS_Union
<1>4. QED BY <1>1, <1>2, <1>3

\* Changing one value changes the sum by the difference.
LEMMA SumExcept ==
    ASSUME NEW S, IsFiniteSet(S), NEW f \in [S -> Nat], NEW x \in S, NEW n \in Nat
    PROVE  /\ SumOf([f EXCEPT ![x] = n]) = SumOf(f) - f[x] + n
           /\ f[x] <= SumOf(f)
<1> DEFINE g == [f EXCEPT ![x] = n]
           R == Units(f) \ ({x} \X (1 .. f[x]))
<1>1. IsFiniteSet(Units(f)) /\ SumOf(f) \in Nat /\ f[x] \in Nat
  BY SumType
<1>2. IsFiniteSet(R)
  BY <1>1, FS_Difference
<1>3. Units(f) = R \cup ({x} \X (1 .. f[x])) /\ R \cap ({x} \X (1 .. f[x])) = {}
  BY DEF Units
<1>4. Units(g) = R \cup ({x} \X (1 .. n)) /\ R \cap ({x} \X (1 .. n)) = {}
  BY DEF Units
<1> HIDE DEF R
<1>5. SumOf(f) = Cardinality(R) + f[x]
  <2>1. /\ IsFiniteSet({x} \X (1 .. f[x]))
        /\ Cardinality({x} \X (1 .. f[x])) = f[x]
    BY <1>1, UnitsOfOne
  <2>2. Cardinality(R \cup ({x} \X (1 .. f[x]))) = Cardinality(R) + f[x]
    BY <1>2, <1>3, <2>1, DisjointUnion
  <2>3. QED BY <1>3, <2>2 DEF SumOf
<1>6. SumOf(g) = Cardinality(R) + n
  <2>1. IsFiniteSet({x} \X (1 .. n)) /\ Cardinality({x} \X (1 .. n)) = n
    BY UnitsOfOne
  <2>2. Cardinality(R \cup ({x} \X (1 .. n))) = Cardinality(R) + n
    BY <1>2, <1>4, <2>1, DisjointUnion
  <2>3. QED BY <1>4, <2>2 DEF SumOf
<1>7. Cardinality(R) \in Nat
  BY <1>2, FS_CardinalityType
<1>8. QED BY <1>1, <1>5, <1>6, <1>7

\* Setting a subset's values to zero takes their sum away.
LEMMA SumSplit ==
    ASSUME NEW S, IsFiniteSet(S), NEW f \in [S -> Nat], NEW T \in SUBSET S
    PROVE  /\ SumOf([x \in T |-> f[x]]) \in Nat
           /\ SumOf([x \in S |-> IF x \in T THEN 0 ELSE f[x]])
                = SumOf(f) - SumOf([x \in T |-> f[x]])
<1> DEFINE g == [x \in S |-> IF x \in T THEN 0 ELSE f[x]]
           h == [x \in T |-> f[x]]
<1>1. IsFiniteSet(T)
  BY FS_Subset
<1>2. g \in [S -> Nat] /\ h \in [T -> Nat]
  OBVIOUS
<1>3. /\ IsFiniteSet(Units(f)) /\ IsFiniteSet(Units(g)) /\ IsFiniteSet(Units(h))
      /\ SumOf(f) \in Nat /\ SumOf(g) \in Nat /\ SumOf(h) \in Nat
  BY <1>1, <1>2, SumType
<1>4. Units(g) \cap Units(h) = {}
  BY DEF Units
<1>5. Units(f) = Units(g) \cup Units(h)
  BY DEF Units
<1>6. SumOf(f) = SumOf(g) + SumOf(h)
  BY <1>3, <1>4, <1>5, DisjointUnion DEF SumOf
<1>7. QED BY <1>3, <1>6

-----------------------------------------------------------------------------
(* The inductive invariant of the store                                    *)

\* Each room is charged what it is estimated at, an absent one nothing.
Charged(st) ==
    \A k \in Key : st.sizeBy[k] = IF st.items[k] = None THEN 0 ELSE Bytes(st.items[k])

StoreInv(st) ==
    /\ st \in StoreType
    /\ Charged(st)
    /\ st.total = SumOf(st.sizeBy)
    /\ st.total <= MaxTotal
    /\ Cardinality(Present(st)) <= MaxRooms

\* The trail of a room has a natural size.
LEMMA HistoryBytesType ==
    ASSUME NEW hist \in Seq(EntryType)
    PROVE  HistoryBytes(hist) \in Nat
<1> DEFINE f == [i \in DOMAIN hist |-> TextLen[hist[i].text] + EntryBytes]
<1>1. DOMAIN hist = 1 .. Len(hist) /\ Len(hist) \in Nat
  BY LenProperties
<1>2. IsFiniteSet(DOMAIN hist)
  <2>1. IsFiniteSet(1 .. Len(hist))
    BY <1>1, FS_Interval
  <2>2. QED BY <1>1, <2>1
<1>3. f \in [DOMAIN hist -> Nat]
  <2>1. ASSUME NEW i \in DOMAIN hist PROVE TextLen[hist[i].text] + EntryBytes \in Nat
    <3>1. hist[i] \in EntryType
      BY <1>1, ElementOfSeq
    <3>2. hist[i].text \in Text
      BY <3>1 DEF EntryType
    <3>3. TextLen[hist[i].text] \in Nat /\ EntryBytes \in Nat
      BY <3>2, ConstantsAssumption
    <3>4. QED BY <3>3
  <2>2. QED BY <2>1
<1> HIDE DEF f
<1>4. SumOf(f) \in Nat
  BY <1>2, <1>3, SumType
<1>5. QED BY <1>4 DEF HistoryBytes, f

\* A room has a natural size, and forgetting its trail does not make it larger.
LEMMA BytesType ==
    ASSUME NEW r \in RoomType
    PROVE  /\ Bytes(r) \in Nat
           /\ Bytes([r EXCEPT !.hist = << >>]) <= Bytes(r)
<1>1. /\ r.text \in Text /\ r.items \in Nat /\ r.hist \in Seq(EntryType)
  BY DEF RoomType
<1>2. TextLen[r.text] \in Nat /\ RoomBase \in Nat /\ ItemBytes \in Nat
  BY <1>1, ConstantsAssumption
<1>3. HistoryBytes(r.hist) \in Nat
  BY <1>1, HistoryBytesType
<1>4. r.items * ItemBytes \in Nat
  BY <1>1, <1>2
<1>5. Bytes(r) \in Nat
  BY <1>2, <1>3, <1>4 DEF Bytes
<1> DEFINE n == [r EXCEPT !.hist = << >>]
<1>6. n.text = r.text /\ n.items = r.items /\ n.hist = << >>
  BY DEF RoomType
<1>7. HistoryBytes(<< >>) = 0
  <2> DEFINE f == [i \in DOMAIN << >> |-> TextLen[<< >>[i].text] + EntryBytes]
  <2>1. DOMAIN f = {}
    OBVIOUS
  <2> HIDE DEF f
  <2>2. Units(f) = {}
    BY <2>1 DEF Units
  <2>3. QED BY <2>2, FS_EmptySet DEF HistoryBytes, SumOf, f
<1>8. Bytes(n) = RoomBase + TextLen[r.text] + r.items * ItemBytes + 0
  BY <1>6, <1>7 DEF Bytes
<1>9. Bytes(r) = RoomBase + TextLen[r.text] + r.items * ItemBytes + HistoryBytes(r.hist)
  BY DEF Bytes
<1>10. QED BY <1>2, <1>3, <1>4, <1>5, <1>8, <1>9

\* removeLocked keeps the invariant.
LEMMA RemoveInv ==
    ASSUME NEW st, StoreInv(st), NEW ks \in SUBSET Key
    PROVE  StoreInv(Remove(st, ks))
<1> DEFINE n == Remove(st, ks)
           gone == SumOf([k \in ks |-> st.sizeBy[k]])
           rooms == [k \in Key |-> IF k \in ks THEN None ELSE st.items[k]]
           sizes == [k \in Key |-> IF k \in ks THEN 0 ELSE st.sizeBy[k]]
           left == IF st.total - gone < 0 THEN 0 ELSE st.total - gone
           dirty == st.dirty \ ks
           deleted == st.deleted \cup ks
<1>1. /\ st \in StoreType /\ Charged(st) /\ st.items \in [Key -> RoomType \cup {None}]
      /\ st.sizeBy \in [Key -> Nat] /\ st.total \in Int
      /\ st.dirty \in SUBSET Key /\ st.deleted \in SUBSET Key
  BY DEF StoreInv, StoreType
<1>2. IsFiniteSet(Key) /\ MaxTotal \in Nat /\ MaxRooms \in Nat
  BY ConstantsAssumption
<1>3. gone \in Nat /\ SumOf(sizes) = SumOf(st.sizeBy) - gone
  <2> DEFINE f == st.sizeBy
  <2>1. f \in [Key -> Nat]
    BY <1>1
  <2> HIDE DEF f
  <2>2. /\ SumOf([k \in ks |-> f[k]]) \in Nat
        /\ SumOf([k \in Key |-> IF k \in ks THEN 0 ELSE f[k]]) = SumOf(f) - SumOf([k \in ks |-> f[k]])
    BY <1>2, <2>1, SumSplit
  <2>3. QED BY <2>2 DEF f
<1> HIDE DEF gone
<1>4. /\ rooms \in [Key -> RoomType \cup {None}] /\ sizes \in [Key -> Nat]
      /\ left \in Int /\ dirty \in SUBSET Key /\ deleted \in SUBSET Key
  BY <1>1, <1>3
<1>5. n = [st EXCEPT !.items = rooms, !.sizeBy = sizes, !.total = left,
                    !.dirty = dirty, !.deleted = deleted]
  BY <1>1 DEF Remove, gone, StoreType
<1> HIDE DEF n, rooms, sizes, left, dirty, deleted
<1>6. n \in StoreType /\ n.items = rooms /\ n.sizeBy = sizes /\ n.total = left
  BY <1>1, <1>4, <1>5 DEF StoreType
<1>7. n.total = SumOf(n.sizeBy) /\ n.total <= MaxTotal
  <2>1. st.total = SumOf(st.sizeBy) /\ st.total <= MaxTotal
    BY DEF StoreInv
  <2>2. SumOf(sizes) \in Nat /\ SumOf(st.sizeBy) \in Nat
    BY <1>1, <1>2, <1>4, SumType
  <2>3. left = SumOf(sizes)
    BY <1>3, <2>1, <2>2 DEF left
  <2>4. QED BY <1>2, <1>3, <1>6, <2>1, <2>2, <2>3
<1>8. Charged(n)
  BY <1>1, <1>6 DEF Charged, rooms, sizes
<1>9. Cardinality(Present(n)) <= MaxRooms
  <2>1. Present(n) \subseteq Present(st) /\ Present(st) \subseteq Key
    BY <1>6 DEF Present, rooms
  <2>2. IsFiniteSet(Present(st))
    BY <1>2, <2>1, FS_Subset
  <2>3. Cardinality(Present(n)) <= Cardinality(Present(st))
    BY <2>1, <2>2, FS_Subset
  <2>4. Cardinality(Present(n)) \in Nat /\ Cardinality(Present(st)) \in Nat
    BY <2>1, <2>2, FS_Subset, FS_CardinalityType
  <2>5. QED BY <1>2, <2>3, <2>4 DEF StoreInv
<1>10. QED BY <1>6, <1>7, <1>8, <1>9 DEF StoreInv, n

\* putLocked keeps the invariant for an estimated size within the budget, if
\* the room is there already or one more fits.
LEMMA PutInv ==
    ASSUME NEW st, StoreInv(st), NEW k \in Key, NEW r \in RoomType,
           st.items[k] = None => Cardinality(Present(st)) < MaxRooms,
           \/ Bytes(r) <= st.sizeBy[k]
           \/ st.total + Bytes(r) - st.sizeBy[k] <= MaxTotal
    PROVE  StoreInv(Put(st, k, r))
<1> DEFINE n == Put(st, k, r)
           rooms == [st.items EXCEPT ![k] = r]
           sizes == [st.sizeBy EXCEPT ![k] = Bytes(r)]
           total == st.total - st.sizeBy[k] + Bytes(r)
           dirty == st.dirty \cup {k}
<1>1. /\ st \in StoreType /\ Charged(st) /\ st.items \in [Key -> RoomType \cup {None}]
      /\ st.sizeBy \in [Key -> Nat] /\ st.total \in Int /\ st.dirty \in SUBSET Key
  BY DEF StoreInv, StoreType
<1>2. IsFiniteSet(Key) /\ MaxTotal \in Nat /\ MaxRooms \in Nat /\ r # None
  BY ConstantsAssumption
<1>3. Bytes(r) \in Nat
  BY BytesType
<1>4. /\ SumOf(sizes) = SumOf(st.sizeBy) - st.sizeBy[k] + Bytes(r)
      /\ SumOf(st.sizeBy) \in Nat /\ st.sizeBy[k] \in Nat
  BY <1>1, <1>2, <1>3, SumExcept, SumType
<1>5. /\ rooms \in [Key -> RoomType \cup {None}] /\ sizes \in [Key -> Nat]
      /\ total \in Int /\ dirty \in SUBSET Key
  BY <1>1, <1>3, <1>4
<1>6. n = [st EXCEPT !.items = rooms, !.sizeBy = sizes, !.total = total, !.dirty = dirty]
  BY <1>1 DEF Put, StoreType
<1> HIDE DEF n, rooms, sizes, total, dirty
<1>7. n \in StoreType /\ n.items = rooms /\ n.sizeBy = sizes /\ n.total = total
  BY <1>1, <1>5, <1>6 DEF StoreType
<1>8. n.total = SumOf(n.sizeBy) /\ n.total <= MaxTotal
  <2>1. st.total = SumOf(st.sizeBy) /\ st.total <= MaxTotal
    BY DEF StoreInv
  <2>2. QED BY <1>1, <1>2, <1>3, <1>4, <1>7, <2>1 DEF total
<1>9. Charged(n)
  BY <1>1, <1>2, <1>7 DEF Charged, rooms, sizes
<1>10. Cardinality(Present(n)) <= MaxRooms
  <2>1. Present(n) = Present(st) \cup {k} /\ Present(st) \subseteq Key
    BY <1>1, <1>2, <1>7 DEF Present, rooms
  <2>2. IsFiniteSet(Present(st))
    BY <1>2, <2>1, FS_Subset
  <2>3. Cardinality(Present(n)) = IF k \in Present(st) THEN Cardinality(Present(st))
                                 ELSE Cardinality(Present(st)) + 1
    BY <2>1, <2>2, FS_AddElement
  <2>4. Cardinality(Present(st)) \in Nat /\ Cardinality(Present(st)) <= MaxRooms
    BY <2>2, FS_CardinalityType DEF StoreInv
  <2>5. CASE k \in Present(st)
    BY <2>3, <2>4, <2>5
  <2>6. CASE k \notin Present(st)
    <3>1. Cardinality(Present(st)) < MaxRooms
      BY <2>6 DEF Present
    <3>2. QED BY <1>2, <2>3, <2>4, <2>6, <3>1
  <2>7. QED BY <2>5, <2>6
<1>11. QED BY <1>7, <1>8, <1>9, <1>10 DEF StoreInv, n

LEMMA PutIfAcceptedInv ==
    ASSUME NEW st, StoreInv(st), NEW k \in Key, NEW r \in RoomType
    PROVE  StoreInv(PutIfAccepted(st, k, r))
<1>1. CASE CanAccept(st, k, r)
  <2>1. StoreInv(Put(st, k, r))
    BY <1>1, PutInv DEF CanAccept
  <2>2. QED BY <1>1, <2>1 DEF PutIfAccepted
<1>2. CASE ~CanAccept(st, k, r)
  BY <1>2 DEF PutIfAccepted
<1>3. QED BY <1>1, <1>2

\* Replacing a room in place, without putLocked, keeps the invariant because
\* every such write leaves the size estimate alone.
LEMMA RefreshInv ==
    ASSUME NEW st, StoreInv(st), NEW k \in Key, NEW r \in RoomType,
           st.items[k] # None, Bytes(r) = Bytes(st.items[k])
    PROVE  StoreInv(Refresh(st, k, r)) /\ StoreInv(Rewrite(st, k, r))
<1> DEFINE rooms == [st.items EXCEPT ![k] = r]
           n == [st EXCEPT !.items = rooms]
           dirty == n.dirty \cup {k}
           m == [n EXCEPT !.dirty = dirty]
<1>1. /\ st \in StoreType /\ Charged(st) /\ st.items \in [Key -> RoomType \cup {None}]
      /\ st.dirty \in SUBSET Key
      /\ st.total = SumOf(st.sizeBy) /\ st.total <= MaxTotal
      /\ Cardinality(Present(st)) <= MaxRooms
  BY DEF StoreInv, StoreType
<1>2. r # None
  BY ConstantsAssumption
<1>3. rooms \in [Key -> RoomType \cup {None}]
  BY <1>1
<1>4. Refresh(st, k, r) = n /\ Rewrite(st, k, r) = m
  BY <1>1 DEF Refresh, Rewrite, StoreType
<1> HIDE DEF rooms
<1>5. /\ n \in StoreType /\ n.items = rooms /\ n.sizeBy = st.sizeBy
      /\ n.total = st.total /\ n.dirty = st.dirty
  BY <1>1, <1>3 DEF StoreType
<1>6. dirty \in SUBSET Key
  BY <1>1, <1>5
<1> HIDE DEF n, dirty
<1>7. m \in StoreType /\ m.items = rooms /\ m.sizeBy = st.sizeBy /\ m.total = st.total
  BY <1>5, <1>6 DEF StoreType
<1> HIDE DEF m
<1>8. \A j \in Key : rooms[j] = IF j = k THEN r ELSE st.items[j]
  BY <1>1 DEF rooms
<1>9. Present(n) = Present(st) /\ Present(m) = Present(st)
  BY <1>2, <1>5, <1>7, <1>8 DEF Present
<1>10. Charged(n) /\ Charged(m)
  BY <1>1, <1>2, <1>5, <1>7, <1>8 DEF Charged
<1>11. QED BY <1>1, <1>4, <1>5, <1>7, <1>9, <1>10 DEF StoreInv

\* The incarnation counter is no part of the accounting.
LEMMA WithGenerationInv ==
    ASSUME NEW st, StoreInv(st), NEW k \in Key
    PROVE  /\ StoreInv(WithGeneration(st, k))
           /\ WithGeneration(st, k).items = st.items
           /\ Generation(WithGeneration(st, k), k) \in Nat
<1> DEFINE g == IF st.items[k] = None THEN st.nextGeneration + 1
                ELSE IF st.nextGeneration < st.items[k].gen THEN st.items[k].gen
                ELSE st.nextGeneration
           n == [st EXCEPT !.nextGeneration = g]
<1>1. /\ st \in StoreType /\ st.items[k] \in RoomType \cup {None}
      /\ st.nextGeneration \in Nat
  BY DEF StoreInv, StoreType
<1>2. st.items[k] # None => st.items[k].gen \in Nat
  BY <1>1 DEF RoomType
<1>3. g \in Nat
  BY <1>1, <1>2
<1>4. WithGeneration(st, k) = n
  BY <1>1 DEF WithGeneration, StoreType
<1> HIDE DEF g
<1>5. /\ n \in StoreType /\ n.items = st.items /\ n.sizeBy = st.sizeBy
      /\ n.total = st.total /\ n.nextGeneration = g
  BY <1>1, <1>3 DEF StoreType
<1> HIDE DEF n
<1>6. Charged(n) /\ Present(n) = Present(st)
  BY <1>5 DEF Charged, Present, StoreInv
<1>7. StoreInv(n)
  BY <1>5, <1>6 DEF StoreInv
<1>8. Generation(n, k) \in Nat
  BY <1>2, <1>3, <1>5 DEF Generation
<1>9. QED BY <1>4, <1>5, <1>7, <1>8

\* getLiveLocked keeps the invariant.
LEMMA GetLiveInv ==
    ASSUME StoreInv(store), NEW k \in Key
    PROVE  StoreInv(GetLive(k))
BY RemoveInv DEF GetLive

-----------------------------------------------------------------------------
(* The rooms the actions write                                             *)

\* A trail stays a trail when an entry is captured.
LEMMA CaptureType ==
    ASSUME NEW hist \in Seq(EntryType), NEW text \in Text, NEW ver \in Nat,
           now \in Nat, NEW manual \in BOOLEAN
    PROVE  Capture(hist, text, ver, manual) \in Seq(EntryType)
<1> DEFINE e == [text |-> text, ver |-> ver, at |-> now]
           longer == Append(hist, e)
<1>1. e \in EntryType
  BY DEF EntryType
<1>2. longer \in Seq(EntryType)
  BY <1>1, AppendProperties
<1> HIDE DEF longer
<1>3. Newest(longer) \in Seq(EntryType)
  <2>1. MaxHistory \in Nat /\ Len(longer) \in Nat
    BY <1>2, ConstantsAssumption, LenProperties
  <2>2. ASSUME NEW i \in Len(longer) - MaxHistory + 1 .. Len(longer),
               Len(longer) > MaxHistory
        PROVE  longer[i] \in EntryType
    <3>1. i \in 1 .. Len(longer)
      BY <2>1, <2>2
    <3>2. QED BY <1>2, <3>1, ElementOfSeq
  <2>3. CASE Len(longer) <= MaxHistory
    BY <1>2, <2>3 DEF Newest
  <2>4. CASE Len(longer) > MaxHistory
    <3>1. SubSeq(longer, Len(longer) - MaxHistory + 1, Len(longer)) \in Seq(EntryType)
      BY <2>1, <2>2, <2>4, SubSeqProperties
    <3>2. QED BY <2>1, <2>4, <3>1 DEF Newest
  <2>5. QED BY <2>1, <2>3, <2>4
<1>4. QED BY <1>3 DEF Capture, longer

\* What the room at a key contributes to its next contents.
LEMMA PartsType ==
    ASSUME NEW st, st \in StoreType, NEW k \in Key
    PROVE  /\ st.items[k] \in RoomType \cup {None}
           /\ Version(st, k) \in Nat
           /\ LockOf(st, k) \in LockType
           /\ HistoryOf(st, k) \in Seq(EntryType)
<1>1. st.items[k] \in RoomType \cup {None}
  BY DEF StoreType
<1>2. NoLock \in LockType
  BY DEF NoLock, LockType
<1>3. << >> \in Seq(EntryType)
  BY EmptySeq
<1>4. QED BY <1>1, <1>2, <1>3 DEF Version, LockOf, HistoryOf, RoomType

LEMMA ClaimedLockType ==
    ASSUME NEW lock \in LockType, NEW p \in RequestType
    PROVE  ClaimedLock(lock, p) \in LockType
<1>1. p.claim \in Password \cup {None} /\ p.claimSalt \in Nat
  BY DEF RequestType, AnyRequest
<1>2. [pw |-> p.claim, salt |-> p.claimSalt, scope |-> "edit"] \in LockType
  BY <1>1, ConstantsAssumption DEF LockType
<1>3. QED BY <1>2 DEF ClaimedLock

-----------------------------------------------------------------------------
(* The actions keep the inductive invariant                                *)

\* TypeOK is not inductive with the accounting left out, nor the limits
\* without it: a write that shrinks its room is admitted on what the room is
\* charged, so the charge has to be its size.
IInv == TypeOK /\ StoreInv(store)

LEMMA CommitParts ==
    ASSUME IInv, NEW h \in Handler, pending[h] # None
    PROVE  /\ pending[h] \in RequestType /\ pending[h].key \in Key
           /\ pending[h].text \in Text
           /\ now \in Nat /\ StoreInv(GetLive(pending[h].key))
           /\ GetLive(pending[h].key) \in StoreType
<1>1. pending[h] \in RequestType /\ now \in Nat /\ StoreInv(store)
  BY DEF IInv, TypeOK
<1>2. pending[h].key \in Key /\ pending[h].text \in Text
  BY <1>1 DEF RequestType, AnyRequest
<1>3. StoreInv(GetLive(pending[h].key))
  BY <1>1, <1>2, GetLiveInv
<1>4. QED BY <1>1, <1>2, <1>3 DEF StoreInv

LEMMA SaveRefreshesInv ==
    ASSUME IInv, NEW h \in Handler, SaveRefreshes(h)
    PROVE  StoreInv(store')
<1> DEFINE p == pending[h]
           k == p.key
           live == GetLive(k)
           st == WithGeneration(live, k)
           r == st.items[k]
           lock == ClaimedLock(r.lock, p)
           fresh == [r EXCEPT !.exp = now + p.ttl]
           claimed == [fresh EXCEPT !.lock = lock, !.ver = @ + 1]
<1>1. p # None /\ p.kind = "save" /\ SaveIsIdentical(st, p)
  BY DEF SaveRefreshes, SaveAdmitted, Committing
<1>2. p \in RequestType /\ k \in Key /\ now \in Nat /\ StoreInv(live)
  BY <1>1, CommitParts
<1>3. p.ttl \in Nat
  BY <1>1, <1>2, ConstantsAssumption DEF RequestType, AnyRequest
<1>4. store' = IF lock = r.lock THEN Refresh(st, k, fresh) ELSE Rewrite(st, k, claimed)
  BY DEF SaveRefreshes
<1> HIDE DEF p, k, live, st
<1>5. StoreInv(st)
  BY <1>2, WithGenerationInv DEF st
<1>6. r # None
  BY <1>1 DEF SaveIsIdentical, k
<1>7. r \in RoomType
  BY <1>2, <1>5, <1>6, PartsType DEF StoreInv
<1>8. lock \in LockType
  BY <1>2, <1>7, ClaimedLockType DEF RoomType
<1> HIDE DEF r, lock
<1>9. /\ fresh \in RoomType
      /\ fresh.text = r.text /\ fresh.items = r.items /\ fresh.hist = r.hist
  <2> DEFINE exp == now + p.ttl
  <2>1. exp \in Nat
    BY <1>2, <1>3
  <2>2. fresh = [r EXCEPT !.exp = exp]
    OBVIOUS
  <2> HIDE DEF exp, fresh
  <2>3. QED BY <1>7, <2>1, <2>2 DEF RoomType
<1> HIDE DEF fresh
<1>10. /\ claimed \in RoomType
       /\ claimed.text = r.text /\ claimed.items = r.items /\ claimed.hist = r.hist
  <2>1. fresh.ver \in Nat /\ fresh.ver + 1 \in Nat
    BY <1>9 DEF RoomType
  <2>2. claimed = [fresh EXCEPT !.lock = lock, !.ver = fresh.ver + 1]
    BY <1>9 DEF RoomType
  <2>3. QED BY <1>8, <1>9, <2>1, <2>2 DEF RoomType
<1> HIDE DEF claimed
<1>11. Bytes(fresh) = Bytes(r) /\ Bytes(claimed) = Bytes(r)
  BY <1>9, <1>10 DEF Bytes
<1>12. StoreInv(Refresh(st, k, fresh)) /\ StoreInv(Rewrite(st, k, claimed))
  BY <1>2, <1>5, <1>6, <1>9, <1>10, <1>11, RefreshInv DEF r
<1>13. QED BY <1>4, <1>12

LEMMA SaveReplacesInv ==
    ASSUME IInv, NEW h \in Handler, SaveReplaces(h)
    PROVE  StoreInv(store')
<1> DEFINE p == pending[h]
           k == p.key
           st == WithGeneration(GetLive(k), k)
           ver == VersionAfterReplace(st, k)
           lock == ClaimedLock(LockOf(st, k), p)
           hist == Capture(HistoryOf(st, k), p.text, ver, FALSE)
           r == [text |-> p.text, items |-> TextLen[p.text], ttl |-> p.ttl,
                 exp |-> now + p.ttl, ver |-> ver, gen |-> Generation(st, k),
                 lock |-> lock, hist |-> hist]
<1>1. p # None /\ p.kind = "save"
  BY DEF SaveReplaces, SaveAdmitted, Committing
<1>2. /\ p \in RequestType /\ k \in Key /\ p.text \in Text /\ now \in Nat
      /\ StoreInv(GetLive(k))
  BY <1>1, CommitParts
<1>3. p.ttl \in TTL /\ p.ttl \in Nat
  BY <1>1, <1>2, ConstantsAssumption DEF RequestType
<1>4. store' = PutIfAccepted(st, k, r)
  BY DEF SaveReplaces
<1>5. StoreInv(st) /\ st \in StoreType /\ Generation(st, k) \in Nat
  BY <1>2, WithGenerationInv DEF StoreInv
<1> HIDE DEF p, k, st
<1>6. ver \in Nat
  BY <1>2, <1>5, PartsType DEF VersionAfterReplace
<1>7. lock \in LockType
  BY <1>2, <1>5, PartsType, ClaimedLockType
<1>8. hist \in Seq(EntryType)
  BY <1>2, <1>5, <1>6, PartsType, CaptureType
<1>9. TextLen[p.text] \in Nat
  BY <1>2, ConstantsAssumption
<1> HIDE DEF ver, lock, hist
<1>10. r \in RoomType
  BY <1>2, <1>3, <1>5, <1>6, <1>7, <1>8, <1>9 DEF RoomType
<1>11. QED BY <1>2, <1>4, <1>5, <1>10, PutIfAcceptedInv

LEMMA OpsAdmittedParts ==
    ASSUME IInv, NEW h \in Handler, OpsAdmitted(h)
    PROVE  LET p == pending[h]
               st == WithGeneration(GetLive(p.key), p.key)
           IN  /\ p.key \in Key /\ now \in Nat
               /\ StoreInv(st) /\ st \in StoreType
               /\ st.items[p.key] \in RoomType \cup {None}
               /\ Generation(st, p.key) \in Nat
               /\ NewTTL(st, p) \in TTL /\ NewTTL(st, p) \in Nat
<1> DEFINE p == pending[h]
           st == WithGeneration(GetLive(p.key), p.key)
<1>1. p # None /\ (GetLive(p.key).items[p.key] = None => p.ttl > 0)
  BY DEF OpsAdmitted, Committing
<1>2. p \in RequestType /\ p.key \in Key /\ now \in Nat /\ StoreInv(GetLive(p.key))
  BY <1>1, CommitParts
<1>3. /\ StoreInv(st) /\ st \in StoreType /\ st.items = GetLive(p.key).items
      /\ Generation(st, p.key) \in Nat
  BY <1>2, WithGenerationInv DEF StoreInv
<1>4. st.items[p.key] \in RoomType \cup {None}
  BY <1>2, <1>3, PartsType
<1>5. p.ttl \in TTL \cup {0}
  BY <1>2 DEF RequestType, AnyRequest
<1>6. TTL \subseteq Nat \ {0}
  BY ConstantsAssumption
<1>7. NewTTL(st, p) \in TTL
  <2>1. CASE p.ttl > 0
    BY <1>5, <2>1 DEF NewTTL
  <2>2. CASE ~(p.ttl > 0)
    <3>1. st.items[p.key] \in RoomType
      BY <1>1, <1>3, <1>4, <2>2
    <3>2. QED BY <2>2, <3>1 DEF NewTTL, RoomType
  <2>3. QED BY <2>1, <2>2
<1>8. QED BY <1>2, <1>3, <1>4, <1>6, <1>7

LEMMA OpsRefreshInv ==
    ASSUME IInv, NEW h \in Handler, OpsRefresh(h)
    PROVE  StoreInv(store')
<1> DEFINE p == pending[h]
           k == p.key
           st == WithGeneration(GetLive(k), k)
           r == st.items[k]
           ttl == NewTTL(st, p)
           exp == now + ttl
           fresh == [r EXCEPT !.ttl = ttl, !.exp = exp]
           moved == [fresh EXCEPT !.ver = @ + 1]
<1>1. OpsAdmitted(h) /\ r # None
  BY DEF OpsRefresh
<1>2. /\ k \in Key /\ now \in Nat /\ StoreInv(st)
      /\ r \in RoomType /\ ttl \in TTL /\ ttl \in Nat
  BY <1>1, OpsAdmittedParts
<1>3. store' = IF ttl = r.ttl THEN Refresh(st, k, fresh) ELSE Rewrite(st, k, moved)
  BY DEF OpsRefresh
<1> HIDE DEF p, k, st, r, ttl
<1>x. exp \in Nat
  BY <1>2
<1> HIDE DEF exp
<1>4. /\ fresh \in RoomType
      /\ fresh.text = r.text /\ fresh.items = r.items /\ fresh.hist = r.hist
  BY <1>2, <1>x DEF RoomType
<1> HIDE DEF fresh
<1>5. /\ moved \in RoomType
      /\ moved.text = r.text /\ moved.items = r.items /\ moved.hist = r.hist
  <2>1. fresh.ver + 1 \in Nat
    BY <1>4 DEF RoomType
  <2>2. moved = [fresh EXCEPT !.ver = fresh.ver + 1]
    BY <1>4 DEF RoomType
  <2>3. QED BY <1>4, <2>1, <2>2 DEF RoomType
<1> HIDE DEF moved
<1>6. Bytes(fresh) = Bytes(r) /\ Bytes(moved) = Bytes(r)
  BY <1>4, <1>5 DEF Bytes
<1>7. StoreInv(Refresh(st, k, fresh)) /\ StoreInv(Rewrite(st, k, moved))
  BY <1>1, <1>2, <1>4, <1>5, <1>6, RefreshInv DEF r
<1>8. QED BY <1>3, <1>7

LEMMA OpsCreateInv ==
    ASSUME IInv, NEW h \in Handler, OpsCreate(h)
    PROVE  StoreInv(store')
<1> DEFINE p == pending[h]
           k == p.key
           st == WithGeneration(GetLive(k), k)
           r == [text |-> EmptyText, items |-> 0, ttl |-> p.ttl, exp |-> now + p.ttl,
                 ver |-> 1, gen |-> Generation(st, k), lock |-> NoLock, hist |-> << >>]
<1>1. OpsAdmitted(h) /\ st.items[k] = None /\ store' = PutIfAccepted(st, k, r)
  BY DEF OpsCreate
<1>2. /\ k \in Key /\ now \in Nat /\ StoreInv(st) /\ Generation(st, k) \in Nat
      /\ NewTTL(st, p) \in TTL /\ NewTTL(st, p) \in Nat /\ st.items = GetLive(k).items
  <2>1. p \in RequestType /\ StoreInv(GetLive(k))
    BY <1>1, CommitParts DEF OpsAdmitted, Committing
  <2>2. QED BY <1>1, <2>1, OpsAdmittedParts, WithGenerationInv
<1>3. p.ttl = NewTTL(st, p)
  BY <1>1, <1>2 DEF OpsAdmitted, NewTTL
<1>4. << >> \in Seq(EntryType) /\ EmptyText \in Text
  BY EmptySeq, ConstantsAssumption
<1>5. NoLock \in LockType
  BY DEF NoLock, LockType
<1> HIDE DEF p, k, st
<1>6. r \in RoomType
  BY <1>2, <1>3, <1>4, <1>5 DEF RoomType
<1>7. QED BY <1>1, <1>2, <1>6, PutIfAcceptedInv

LEMMA OpsChangeInv ==
    ASSUME IInv, NEW h \in Handler, OpsChange(h)
    PROVE  StoreInv(store')
<1> DEFINE p == pending[h]
           k == p.key
           st == WithGeneration(GetLive(k), k)
           r == st.items[k]
           ttl == NewTTL(st, p)
           ver == Version(st, k) + 1
           B == IF r = None THEN Batches(EmptyText, 0) ELSE Batches(r.text, r.items)
           n(d) == [text |-> d.text, items |-> d.items, ttl |-> ttl, exp |-> now + ttl,
                    ver |-> ver, gen |-> Generation(st, k), lock |-> LockOf(st, k),
                    hist |-> Capture(HistoryOf(st, k), d.text, ver, FALSE)]
<1>1. OpsAdmitted(h) /\ \E d \in B : store' = PutIfAccepted(st, k, n(d))
  BY DEF OpsChange
<1>2. PICK d \in B : store' = PutIfAccepted(st, k, n(d))
  BY <1>1
<1>3. /\ k \in Key /\ now \in Nat /\ StoreInv(st) /\ st \in StoreType
      /\ r \in RoomType \cup {None} /\ Generation(st, k) \in Nat
      /\ ttl \in TTL /\ ttl \in Nat
  BY <1>1, OpsAdmittedParts
<1> HIDE DEF p, k, st, ttl
<1>4. d.text \in Text /\ d.items \in Nat
  <2>1. MaxBatch \in Nat
    BY ConstantsAssumption
  <2>2. CASE r = None
    BY <2>1, <2>2 DEF Batches
  <2>3. CASE r # None
    <3>1. r.items \in Nat
      BY <1>3, <2>3 DEF RoomType
    <3>2. QED BY <2>1, <2>3, <3>1 DEF Batches
  <2>4. QED BY <2>2, <2>3
<1>5. /\ Version(st, k) \in Nat /\ LockOf(st, k) \in LockType
      /\ HistoryOf(st, k) \in Seq(EntryType)
  BY <1>3, PartsType
<1>6. ver \in Nat
  BY <1>5
<1> HIDE DEF ver
<1>7. Capture(HistoryOf(st, k), d.text, ver, FALSE) \in Seq(EntryType)
  BY <1>3, <1>4, <1>5, <1>6, CaptureType
<1>8. n(d) \in RoomType
  <2> DEFINE hist == Capture(HistoryOf(st, k), d.text, ver, FALSE)
             exp == now + ttl
             gen == Generation(st, k)
             lock == LockOf(st, k)
  <2>1. /\ hist \in Seq(EntryType) /\ exp \in Nat
        /\ gen \in Nat /\ lock \in LockType
    <3>1. hist \in Seq(EntryType)
      BY <1>7
    <3>2. exp \in Nat
      BY <1>3
    <3>3. gen \in Nat /\ lock \in LockType
      BY <1>3, <1>5
    <3>4. QED BY <3>1, <3>2, <3>3
  <2> HIDE DEF hist, exp, gen, lock
  <2>2. [text |-> d.text, items |-> d.items, ttl |-> ttl, exp |-> exp, ver |-> ver,
         gen |-> gen, lock |-> lock, hist |-> hist] \in RoomType
    BY <1>3, <1>4, <1>6, <2>1 DEF RoomType
  <2>3. QED BY <2>2 DEF hist, exp, gen, lock
<1> HIDE DEF n
<1>9. QED BY <1>2, <1>3, <1>8, PutIfAcceptedInv

LEMMA DeleteAuthInv ==
    ASSUME IInv, NEW h \in Handler, DeleteAuth(h)
    PROVE  StoreInv(store')
<1>1. pending[h] # None
  BY DEF DeleteAuth, Committing
<1>2. pending[h].key \in Key /\ StoreInv(GetLive(pending[h].key))
  BY <1>1, CommitParts
<1>3. StoreInv(Remove(GetLive(pending[h].key), {pending[h].key}))
  BY <1>2, RemoveInv
<1>4. QED BY <1>2, <1>3 DEF DeleteAuth

LEMMA CaptureHistoryInv ==
    ASSUME IInv, NEW h \in Handler, CaptureHistory(h)
    PROVE  StoreInv(store')
<1> DEFINE k == pending[h].key
           st == GetLive(k)
           r == st.items[k]
           hist == Capture(r.hist, r.text, r.ver, TRUE)
           n == [r EXCEPT !.hist = hist]
<1>1. k \in Key /\ now \in Nat /\ StoreInv(st) /\ st \in StoreType
  BY CommitParts DEF CaptureHistory, Committing
<1>2. store' = st \/ (r # None /\ store' = PutIfAccepted(st, k, [r EXCEPT !.hist = Capture(@, r.text, r.ver, TRUE)]))
  BY DEF CaptureHistory
<1> HIDE DEF k, st
<1>3. CASE store' = st
  BY <1>1, <1>3
<1>4. CASE store' # st
  <2>1. r \in RoomType
    BY <1>1, <1>2, <1>4, PartsType
  <2>2. r.hist \in Seq(EntryType) /\ r.text \in Text /\ r.ver \in Nat
    BY <2>1 DEF RoomType
  <2>3. hist \in Seq(EntryType)
    BY <1>1, <2>2, CaptureType
  <2>4. [r EXCEPT !.hist = Capture(@, r.text, r.ver, TRUE)] = n
    BY <2>1 DEF RoomType
  <2> HIDE DEF hist, r
  <2>5. n \in RoomType
    BY <2>1, <2>3 DEF RoomType
  <2>6. QED BY <1>1, <1>2, <1>4, <2>4, <2>5, PutIfAcceptedInv
<1>5. QED BY <1>3, <1>4

\* ClearHistory does not ask canAcceptLocked: a room without its trail is no
\* larger than it was.
LEMMA ClearHistoryInv ==
    ASSUME IInv, NEW h \in Handler, ClearHistory(h)
    PROVE  StoreInv(store')
<1> DEFINE k == pending[h].key
           st == GetLive(k)
           r == st.items[k]
           n == [r EXCEPT !.hist = << >>]
<1>1. k \in Key /\ now \in Nat /\ StoreInv(st) /\ st \in StoreType
  BY CommitParts DEF ClearHistory, Committing
<1>2. store' = st \/ (r # None /\ store' = Put(st, k, n))
  BY DEF ClearHistory
<1> HIDE DEF k, st
<1>3. CASE store' = st
  BY <1>1, <1>3
<1>4. CASE store' # st
  <2>1. r \in RoomType /\ r # None
    BY <1>1, <1>2, <1>4, PartsType
  <2>2. << >> \in Seq(EntryType)
    BY EmptySeq
  <2>3. Bytes(n) <= Bytes(r)
    BY <2>1, BytesType
  <2>4. st.sizeBy[k] = Bytes(r)
    BY <1>1, <2>1 DEF StoreInv, Charged
  <2>5. n \in RoomType
    BY <2>1, <2>2 DEF RoomType
  <2> HIDE DEF n
  <2>6. StoreInv(Put(st, k, n))
    BY <1>1, <2>1, <2>3, <2>4, <2>5, PutInv
  <2>7. QED BY <1>2, <1>4, <2>6
<1>5. QED BY <1>3, <1>4

\* Setting, changing or removing a password keeps the room's size.
LEMMA RelockInv ==
    ASSUME IInv, NEW k \in Key, NEW current, NEW lock \in LockType, Relock(k, current, lock)
    PROVE  StoreInv(store')
<1> DEFINE st == GetLive(k)
           r == st.items[k]
           n == [r EXCEPT !.lock = lock, !.ver = @ + 1]
<1>1. r # None /\ store' = Rewrite(st, k, n)
  BY DEF Relock
<1>2. StoreInv(st) /\ st \in StoreType
  BY GetLiveInv DEF IInv, StoreInv
<1> HIDE DEF st
<1>3. r \in RoomType
  BY <1>1, <1>2, PartsType
<1> HIDE DEF r
<1>4. n \in RoomType /\ n.text = r.text /\ n.items = r.items /\ n.hist = r.hist
  <2>1. r.ver + 1 \in Nat
    BY <1>3 DEF RoomType
  <2>2. n = [r EXCEPT !.lock = lock, !.ver = r.ver + 1]
    BY <1>3 DEF RoomType
  <2>3. QED BY <1>3, <2>1, <2>2 DEF RoomType
<1> HIDE DEF n
<1>5. Bytes(n) = Bytes(r)
  BY <1>4 DEF Bytes
<1>6. StoreInv(Rewrite(st, k, n))
  BY <1>1, <1>2, <1>4, <1>5, RefreshInv DEF r
<1>7. QED BY <1>1, <1>6

\* SetPassword replaces a lock by a lock.
LEMMA SetPasswordRelocks ==
    ASSUME IInv, NEW k \in Key, SetPassword(k)
    PROVE  \E current \in Password \cup {None}, lock \in LockType : Relock(k, current, lock)
<1> DEFINE lock == LockOf(GetLive(k), k)
<1>1. lock \in LockType /\ salts \in Nat
  <2>1. GetLive(k) \in StoreType
    BY GetLiveInv DEF IInv, StoreInv
  <2>2. QED BY <2>1, PartsType DEF IInv, TypeOK
<1> HIDE DEF lock
<1>2. PICK current \in Password \cup {None} :
        \/ Unlock(k, current)
        \/ \E scope \in Scope : Rescope(k, current, scope)
        \/ \E next \in Password, scope \in Scope \cup {None} : Rotate(k, current, next, scope)
  BY DEF SetPassword
<1>3. \E new \in LockType : Relock(k, current, new)
  <2>1. CASE Unlock(k, current)
    <3>1. NoLock \in LockType
      BY DEF NoLock, LockType
    <3>2. QED BY <2>1, <3>1 DEF Unlock
  <2>2. ASSUME NEW scope \in Scope, Rescope(k, current, scope)
        PROVE  \E new \in LockType : Relock(k, current, new)
    <3>1. [lock EXCEPT !.scope = scope] \in LockType
      BY <1>1 DEF LockType
    <3>2. QED BY <2>2, <3>1 DEF Rescope, lock
  <2>3. ASSUME NEW next \in Password, NEW scope \in Scope \cup {None},
               Rotate(k, current, next, scope)
        PROVE  \E new \in LockType : Relock(k, current, new)
    <3> DEFINE kept == IF Locked(lock) THEN lock.scope ELSE "edit"
               new == [pw |-> next, salt |-> salts + 1,
                       scope |-> IF scope = None THEN kept ELSE scope]
    <3>1. kept \in Scope \cup {None}
      BY <1>1, ConstantsAssumption DEF LockType
    <3>2. new \in LockType
      BY <1>1, <3>1 DEF LockType
    <3>3. Relock(k, current, new)
      BY <2>3 DEF Rotate, lock
    <3>4. QED BY <3>2, <3>3
  <2>4. QED BY <1>2, <2>1, <2>2, <2>3
<1>4. QED BY <1>3

LEMMA SetPasswordInv ==
    ASSUME IInv, NEW k \in Key, SetPassword(k)
    PROVE  IInv'
<1>1. salts \in Nat
  BY DEF IInv, TypeOK
<1>2. PICK current \in Password \cup {None} :
        \/ Unlock(k, current)
        \/ \E scope \in Scope : Rescope(k, current, scope)
        \/ \E next \in Password, scope \in Scope \cup {None} : Rotate(k, current, next, scope)
  BY DEF SetPassword
<1>3. \E any \in Password \cup {None}, new \in LockType : Relock(k, any, new)
  BY SetPasswordRelocks
<1>4. StoreInv(store') /\ UNCHANGED <<now, pending, session>>
  BY <1>3, RelockInv DEF Relock
<1>5. salts' = salts \/ salts' = salts + 1
  <2>1. CASE Unlock(k, current)
    BY <2>1 DEF Unlock
  <2>2. ASSUME NEW scope \in Scope, Rescope(k, current, scope) PROVE salts' = salts
    BY <2>2 DEF Rescope
  <2>3. ASSUME NEW next \in Password, NEW scope \in Scope \cup {None},
               Rotate(k, current, next, scope)
        PROVE  salts' = salts + 1
    BY <2>3 DEF Rotate
  <2>4. QED BY <1>2, <2>1, <2>2, <2>3
<1>6. QED BY <1>1, <1>4, <1>5 DEF IInv, TypeOK, StoreInv

\* What a handler may ask for is a request, and stays one when the pre-check
\* has been added.
LEMMA RequestsType ==
    ASSUME IInv, NEW h \in Handler, NEW k \in Key, NEW p \in Requests(h, k)
    PROVE  p \in RequestType /\ p.key = k
<1>1. /\ session[h].cred \in Nat /\ session[h].proved \in Password \cup {None}
      /\ session[h].seen[k] \in ReadType /\ session[h].seen[k].ver \in Nat
  BY DEF IInv, TypeOK, SessionType, ReadType
<1>2. Knows[h] \cup {None} \subseteq Password \cup {None}
  BY ConstantsAssumption
<1>3. EmptyText \in Text /\ NothingRead \in ReadType
  BY ConstantsAssumption DEF NothingRead, ReadType
<1>4. ASSUME NEW kind \in {"save", "ops", "delete", "capture", "clear"},
             NEW text \in Text, NEW ttl \in TTL \cup {0},
             NEW base \in {0, session[h].seen[k].ver},
             NEW pw \in Knows[h] \cup {None}, NEW claim \in Knows[h] \cup {None},
             kind = "save" => ttl \in TTL
      PROVE  /\ Request(h, k, kind, text, ttl, base, pw, claim) \in RequestType
             /\ Request(h, k, kind, text, ttl, base, pw, claim).key = k
  <2> DEFINE read == IF base = 0 THEN NothingRead ELSE session[h].seen[k]
  <2>1. read \in ReadType /\ base \in Nat
    BY <1>1, <1>3
  <2>2. pw \in Password \cup {None} /\ claim \in Password \cup {None}
    BY <1>2
  <2> HIDE DEF read
  <2>3. Request(h, k, kind, text, ttl, base, pw, claim) =
          [kind |-> kind, key |-> k, text |-> text, ttl |-> ttl, base |-> base,
           read |-> read, password |-> pw, cred |-> session[h].cred,
           proved |-> session[h].proved, claim |-> claim, claimSalt |-> 0,
           expected |-> 0]
    BY DEF Request, read
  <2>4. QED BY <1>1, <1>4, <2>1, <2>2, <2>3 DEF RequestType, AnyRequest
<1>5. CASE p \in {Request(h, k, "save", text, ttl, base, pw, claim) :
                     text \in Text, ttl \in TTL, base \in {0, session[h].seen[k].ver},
                     pw \in Knows[h] \cup {None}, claim \in Knows[h] \cup {None}}
  <2>1. PICK text \in Text, ttl \in TTL, base \in {0, session[h].seen[k].ver},
             pw \in Knows[h] \cup {None}, claim \in Knows[h] \cup {None} :
           p = Request(h, k, "save", text, ttl, base, pw, claim)
    BY <1>5
  <2>2. "save" \in {"save", "ops", "delete", "capture", "clear"} /\ ttl \in TTL \cup {0}
    OBVIOUS
  <2>3. "save" = "save" => ttl \in TTL
    OBVIOUS
  <2> DEFINE kind == "save"
  <2> HIDE DEF kind
  <2>4. /\ kind \in {"save", "ops", "delete", "capture", "clear"} /\ (kind = "save" => ttl \in TTL)
        /\ p = Request(h, k, kind, text, ttl, base, pw, claim)
    BY <2>1, <2>2, <2>3 DEF kind
  <2>5. QED BY <1>4, <2>1, <2>2, <2>4
<1>6. CASE p \in {Request(h, k, "ops", EmptyText, ttl, 0, pw, None) :
                     ttl \in TTL \cup {0}, pw \in Knows[h] \cup {None}}
  <2>1. PICK ttl \in TTL \cup {0}, pw \in Knows[h] \cup {None} :
           p = Request(h, k, "ops", EmptyText, ttl, 0, pw, None)
    BY <1>6
  <2>2. "ops" \in {"save", "ops", "delete", "capture", "clear"} /\ "ops" # "save"
    OBVIOUS
  <2>3. 0 \in {0, session[h].seen[k].ver} /\ None \in Knows[h] \cup {None}
    OBVIOUS
  <2>4. QED BY <1>3, <1>4, <2>1, <2>2, <2>3
<1>7. CASE p \in {Request(h, k, kind, EmptyText, 0, 0, pw, None) :
                     kind \in {"delete", "capture", "clear"},
                     pw \in Knows[h] \cup {None}}
  <2>1. PICK kind \in {"delete", "capture", "clear"}, pw \in Knows[h] \cup {None} :
           p = Request(h, k, kind, EmptyText, 0, 0, pw, None)
    BY <1>7
  <2>2. kind \in {"save", "ops", "delete", "capture", "clear"} /\ kind # "save"
    OBVIOUS
  <2>3. /\ 0 \in {0, session[h].seen[k].ver} /\ None \in Knows[h] \cup {None}
        /\ 0 \in TTL \cup {0}
    OBVIOUS
  <2>4. QED BY <1>3, <1>4, <2>1, <2>2, <2>3
<1>8. QED BY <1>5, <1>6, <1>7 DEF Requests

LEMMA BeginInv ==
    ASSUME IInv, NEW h \in Handler, NEW k \in Key, NEW p \in Requests(h, k), Begin(h, p)
    PROVE  IInv'
<1> DEFINE lock == LockOf(GetLive(k), k)
           claimSalt == IF p.claim # None THEN salts + 1 ELSE 0
           q == [p EXCEPT !.expected = lock.salt, !.claimSalt = claimSalt]
<1>1. p \in RequestType /\ p.key = k
  BY RequestsType
<1>2. /\ StoreInv(GetLive(k)) /\ GetLive(k) \in StoreType /\ salts \in Nat
      /\ pending \in [Handler -> RequestType \cup {None}]
  BY GetLiveInv DEF IInv, StoreInv, TypeOK
<1>3. lock \in LockType
  BY <1>2, PartsType
<1>4. /\ store' = GetLive(k) /\ UNCHANGED <<now, session>>
      /\ \/ UNCHANGED <<pending, salts>>
         \/ /\ pending' = [pending EXCEPT ![h] = q]
            /\ salts' = IF p.claim # None THEN salts + 1 ELSE salts
  BY <1>1 DEF Begin
<1>5. lock.salt \in Nat /\ claimSalt \in Nat
  BY <1>2, <1>3 DEF LockType
<1> HIDE DEF lock, claimSalt
<1>6. q \in RequestType
  BY <1>1, <1>5 DEF RequestType, AnyRequest
<1> HIDE DEF q
<1>7. pending' \in [Handler -> RequestType \cup {None}] /\ salts' \in Nat
  BY <1>2, <1>4, <1>6
<1>8. QED BY <1>2, <1>4, <1>7 DEF IInv, TypeOK, StoreInv

\* Get and AuthCredential.
LEMMA ReadInv ==
    ASSUME IInv, NEW h \in Handler, NEW k \in Key,
           Get(h, k) \/ \E pw \in Knows[h] : AuthCredential(h, k, pw)
    PROVE  IInv'
<1> DEFINE st == GetLive(k)
           read == IF st.items[k] = None THEN NothingRead
                   ELSE [ver |-> st.items[k].ver, gen |-> st.items[k].gen,
                         text |-> st.items[k].text]
<1>1. /\ StoreInv(st) /\ st \in StoreType /\ session \in [Handler -> SessionType]
  BY GetLiveInv DEF IInv, StoreInv, TypeOK
<1>2. read \in ReadType
  <2>1. NothingRead \in ReadType
    BY ConstantsAssumption DEF NothingRead, ReadType
  <2>2. st.items[k] \in RoomType \cup {None}
    BY <1>1, PartsType
  <2>3. QED BY <2>1, <2>2 DEF ReadType, RoomType
<1>3. store' = st /\ UNCHANGED <<now, pending, salts>>
  BY DEF Get, AuthCredential
<1>4. session' \in [Handler -> SessionType]
  <2>1. CASE Get(h, k)
    <3>1. session' = [session EXCEPT ![h].seen[k] = read]
      BY <2>1 DEF Get
    <3> HIDE DEF read
    <3>2. QED BY <1>1, <1>2, <3>1 DEF SessionType
  <2>2. ASSUME NEW pw \in Knows[h], AuthCredential(h, k, pw)
        PROVE  session' \in [Handler -> SessionType]
    <3>1. session' = [session EXCEPT ![h].cred = LockOf(st, k).salt, ![h].proved = pw]
      BY <2>2 DEF AuthCredential
    <3>2. LockOf(st, k).salt \in Nat
      BY <1>1, PartsType DEF LockType
    <3>3. pw \in Password
      BY ConstantsAssumption
    <3> HIDE DEF st
    <3>4. QED BY <1>1, <3>1, <3>2, <3>3 DEF SessionType
  <2>3. QED BY <2>1, <2>2
<1> HIDE DEF st
<1>5. QED BY <1>1, <1>3, <1>4 DEF IInv, TypeOK, StoreInv

\* The commit of a request.
LEMMA CommitInv ==
    ASSUME IInv, NEW h \in Handler, Commit(h)
    PROVE  IInv'
<1>1. pending[h] # None
  BY DEF Commit, SaveRejected, SaveRefreshes, SaveReplaces, SaveAdmitted, OpsRejected,
         OpsFail, OpsRefresh, OpsCreate, OpsChange, OpsAdmitted, DeleteAuth,
         CaptureHistory, ClearHistory, Committing
<1>2. /\ pending[h].key \in Key /\ StoreInv(store) /\ StoreInv(GetLive(pending[h].key))
      /\ StoreInv(WithGeneration(GetLive(pending[h].key), pending[h].key))
  BY <1>1, CommitParts, WithGenerationInv DEF IInv
<1>3. Answer(h)
  BY DEF Commit, SaveRejected, SaveRefreshes, SaveReplaces, OpsRejected, OpsFail,
         OpsRefresh, OpsCreate, OpsChange, DeleteAuth, CaptureHistory, ClearHistory
<1>4. StoreInv(store')
  <2>1. CASE SaveRejected(h)
    BY <1>2, <2>1 DEF SaveRejected
  <2>2. CASE SaveRefreshes(h)
    BY <2>2, SaveRefreshesInv
  <2>3. CASE SaveReplaces(h)
    BY <2>3, SaveReplacesInv
  <2>4. CASE OpsRejected(h)
    BY <1>2, <2>4 DEF OpsRejected
  <2>5. CASE OpsFail(h)
    BY <1>2, <2>5 DEF OpsFail
  <2>6. CASE OpsRefresh(h)
    BY <2>6, OpsRefreshInv
  <2>7. CASE OpsCreate(h)
    BY <2>7, OpsCreateInv
  <2>8. CASE OpsChange(h)
    BY <2>8, OpsChangeInv
  <2>9. CASE DeleteAuth(h)
    BY <2>9, DeleteAuthInv
  <2>10. CASE CaptureHistory(h)
    BY <2>10, CaptureHistoryInv
  <2>11. CASE ClearHistory(h)
    BY <2>11, ClearHistoryInv
  <2>12. QED BY <2>1, <2>2, <2>3, <2>4, <2>5, <2>6, <2>7, <2>8, <2>9, <2>10, <2>11 DEF Commit
<1>5. pending' \in [Handler -> RequestType \cup {None}] /\ UNCHANGED <<now, session, salts>>
  BY <1>3 DEF Answer, IInv, TypeOK
<1>6. QED BY <1>4, <1>5 DEF IInv, TypeOK, StoreInv

LEMMA InitInv == Init => IInv
<1> SUFFICES ASSUME Init PROVE IInv
  OBVIOUS
<1> DEFINE none == [k \in Key |-> None]
           zero == [k \in Key |-> 0]
<1>1. IsFiniteSet(Key) /\ MaxTotal \in Nat /\ MaxRooms \in Nat /\ EmptyText \in Text
  BY ConstantsAssumption
<1>2. /\ store \in StoreType /\ store.items = none /\ store.sizeBy = zero
      /\ store.total = 0
  BY DEF Init, StoreType
<1>3. Units(zero) = {}
  BY DEF Units
<1>4. SumOf(zero) = 0
  BY <1>3, FS_EmptySet DEF SumOf
<1>5. Present(store) = {}
  BY <1>2 DEF Present
<1>6. Cardinality(Present(store)) = 0
  BY <1>5, FS_EmptySet
<1>7. Charged(store)
  BY <1>2 DEF Charged
<1>8. StoreInv(store)
  BY <1>1, <1>2, <1>4, <1>6, <1>7 DEF StoreInv
<1>9. session \in [Handler -> SessionType]
  <2>1. NothingRead \in ReadType
    BY <1>1 DEF NothingRead, ReadType
  <2>2. QED BY <2>1 DEF Init, SessionType
<1>10. QED BY <1>2, <1>8, <1>9 DEF Init, IInv, TypeOK

LEMMA NextInv == IInv /\ [Next]_vars => IInv'
<1> SUFFICES ASSUME IInv, [Next]_vars PROVE IInv'
  OBVIOUS
<1>1. CASE UNCHANGED vars
  BY <1>1 DEF vars, IInv, TypeOK, StoreInv, Charged, Present
<1>2. ASSUME NEW h \in Handler, Handle(h) PROVE IInv'
  <2>1. CASE h \in Reader /\ \E k \in Key : Get(h, k)
    BY <2>1, ReadInv
  <2>2. CASE \E k \in Key, pw \in Knows[h] : AuthCredential(h, k, pw)
    BY <2>2, ReadInv
  <2>3. CASE \E k \in Key : \E p \in Requests(h, k) : Begin(h, p)
    BY <2>3, BeginInv
  <2>4. CASE Commit(h)
    BY <2>4, CommitInv
  <2>5. QED BY <1>2, <2>1, <2>2, <2>3, <2>4 DEF Handle
<1>3. ASSUME NEW k \in Key, SetPassword(k) PROVE IInv'
  BY <1>3, SetPasswordInv
<1>4. ASSUME NEW k \in Key, Peek(k) PROVE IInv'
  <2>1. StoreInv(GetLive(k))
    BY GetLiveInv DEF IInv
  <2>2. QED BY <1>4, <2>1 DEF Peek, IInv, TypeOK, StoreInv
<1>5. CASE CleanupExpired
  <2>1. StoreInv(Remove(store, Expired(store)))
    <3>1. Expired(store) \in SUBSET Key
      BY DEF Expired, Present
    <3>2. QED BY <3>1, RemoveInv DEF IInv
  <2>2. QED BY <1>5, <2>1 DEF CleanupExpired, IInv, TypeOK, StoreInv
<1>6. CASE Tick
  BY <1>6 DEF Tick, IInv, TypeOK, StoreInv, Charged, Present
<1>7. QED BY <1>1, <1>2, <1>3, <1>4, <1>5, <1>6 DEF Next

\* The store's invariant, for any number of rooms, handlers and texts, any
\* limits and any size estimate.
THEOREM Invariance == Spec => []IInv
<1>1. Init => IInv
  BY InitInv
<1>2. IInv /\ [Next]_vars => IInv'
  BY NextInv
<1>3. QED BY <1>1, <1>2, PTL DEF Spec

\* Type correctness (Store's fields keep their Go types' meaning).
THEOREM TypeCorrect == Spec => []TypeOK
<1>1. IInv => TypeOK
  BY DEF IInv
<1>2. QED BY <1>1, Invariance, PTL

\* Store.total and Store.sizeBy never drift from the rooms they account for,
\* on any path of SaveWithBase, ApplyOps, SetPassword, the history calls,
\* deletion and expiry.
THEOREM AccountingCorrect == Spec => []Accounting
<1>1. IInv => Accounting
  BY DEF IInv, StoreInv, Charged, Accounting
<1>2. QED BY <1>1, Invariance, PTL

\* The caps of WithLimits are never exceeded.
THEOREM LimitsHold == Spec => []Limits
<1>1. IInv => Limits
  BY DEF IInv, StoreInv, Limits
<1>2. QED BY <1>1, Invariance, PTL

-----------------------------------------------------------------------------
(* How a store evolves                                                     *)

\* n is the same incarnation as r, not older, and the same document if it is
\* not newer either.
Follows(r, n) ==
    /\ n.gen = r.gen
    /\ n.ver >= r.ver
    /\ n.ver = r.ver => /\ n.text = r.text /\ n.items = r.items
                        /\ n.ttl = r.ttl /\ n.lock = r.lock

\* n succeeds r (a room or None) while the incarnation counter goes from low
\* to high.
Succeeds(r, n, low, high) ==
    \/ r # None /\ Follows(r, n)
    \/ n.gen > low /\ n.gen <= high

Evolves(st, n) ==
    /\ st.nextGeneration <= n.nextGeneration
    /\ \A k \in Key : n.items[k] # None =>
          Succeeds(st.items[k], n.items[k], st.nextGeneration, n.nextGeneration)

\* What the next lemmas use of a store's type.
LEMMA StoreParts ==
    ASSUME NEW st \in StoreType
    PROVE  /\ st.items \in [Key -> RoomType \cup {None}]
           /\ st.nextGeneration \in Nat
           /\ \A k \in Key : st.items[k] # None =>
                st.items[k] \in RoomType /\ st.items[k].gen \in Nat /\ st.items[k].ver \in Nat
BY DEF StoreType, RoomType

\* A room that stays as it is follows itself.
LEMMA SameEvolves ==
    ASSUME NEW st \in StoreType, NEW n, n.items = st.items,
           n.nextGeneration \in Nat, st.nextGeneration <= n.nextGeneration
    PROVE  Evolves(st, n)
BY StoreParts DEF Evolves, Succeeds, Follows

\* Two evolutions in a row are one.
LEMMA EvolvesTwice ==
    ASSUME NEW a \in StoreType, NEW b \in StoreType, NEW c \in StoreType,
           Evolves(a, b), Evolves(b, c)
    PROVE  Evolves(a, c)
<1>1. /\ a.nextGeneration \in Nat /\ b.nextGeneration \in Nat /\ c.nextGeneration \in Nat
      /\ a.nextGeneration <= b.nextGeneration /\ b.nextGeneration <= c.nextGeneration
  BY StoreParts DEF Evolves
<1>2. ASSUME NEW k \in Key, c.items[k] # None
      PROVE  Succeeds(a.items[k], c.items[k], a.nextGeneration, c.nextGeneration)
  <2>1. c.items[k].gen \in Nat /\ c.items[k].ver \in Nat
    BY <1>2, StoreParts
  <2>2. Succeeds(b.items[k], c.items[k], b.nextGeneration, c.nextGeneration)
    BY <1>2 DEF Evolves
  <2>3. CASE c.items[k].gen > b.nextGeneration /\ c.items[k].gen <= c.nextGeneration
    BY <1>1, <2>1, <2>3 DEF Succeeds
  <2>4. CASE b.items[k] # None /\ Follows(b.items[k], c.items[k])
    <3>1. b.items[k].gen \in Nat /\ b.items[k].ver \in Nat
      BY <2>4, StoreParts
    <3>2. Succeeds(a.items[k], b.items[k], a.nextGeneration, b.nextGeneration)
      BY <2>4 DEF Evolves
    <3>3. CASE b.items[k].gen > a.nextGeneration /\ b.items[k].gen <= b.nextGeneration
      BY <1>1, <2>1, <2>4, <3>1, <3>3 DEF Succeeds, Follows
    <3>4. CASE a.items[k] # None /\ Follows(a.items[k], b.items[k])
      <4>1. a.items[k].gen \in Nat /\ a.items[k].ver \in Nat
        BY <3>4, StoreParts
      <4>2. Follows(a.items[k], c.items[k])
        BY <2>1, <2>4, <3>1, <3>4, <4>1 DEF Follows
      <4>3. QED BY <3>4, <4>2 DEF Succeeds
    <3>5. QED BY <3>2, <3>3, <3>4 DEF Succeeds
  <2>5. QED BY <2>2, <2>3, <2>4 DEF Succeeds
<1>3. QED BY <1>1, <1>2 DEF Evolves

\* One room is written, and the others stay.
LEMMA OneEvolves ==
    ASSUME NEW st \in StoreType, NEW n, NEW k \in Key, NEW r,
           n.items = [st.items EXCEPT ![k] = r],
           n.nextGeneration \in Nat, st.nextGeneration <= n.nextGeneration,
           Succeeds(st.items[k], r, st.nextGeneration, n.nextGeneration)
    PROVE  Evolves(st, n)
<1>1. ASSUME NEW j \in Key, n.items[j] # None
      PROVE  Succeeds(st.items[j], n.items[j], st.nextGeneration, n.nextGeneration)
  <2>1. st.items \in [Key -> RoomType \cup {None}]
    BY StoreParts
  <2>2. CASE j = k
    BY <2>1, <2>2
  <2>3. CASE j # k
    <3>1. n.items[j] = st.items[j]
      BY <2>1, <2>3
    <3>2. st.items[j].ver \in Nat
      BY <1>1, <3>1, StoreParts
    <3>3. QED BY <1>1, <3>1, <3>2 DEF Succeeds, Follows
  <2>4. QED BY <2>2, <2>3
<1>2. QED BY <1>1 DEF Evolves

\* removeLocked takes rooms away and begins no incarnation.
LEMMA RemoveEvolves ==
    ASSUME NEW st \in StoreType, NEW ks \in SUBSET Key
    PROVE  Evolves(st, Remove(st, ks))
<1> DEFINE n == Remove(st, ks)
<1>1. /\ n.items = [k \in Key |-> IF k \in ks THEN None ELSE st.items[k]]
      /\ n.nextGeneration = st.nextGeneration
  BY DEF Remove, StoreType
<1> HIDE DEF n
<1>2. st.nextGeneration \in Nat
  BY StoreParts
<1>3. ASSUME NEW k \in Key, n.items[k] # None
      PROVE  Succeeds(st.items[k], n.items[k], st.nextGeneration, n.nextGeneration)
  <2>1. n.items[k] = st.items[k]
    BY <1>1, <1>3
  <2>2. st.items[k].ver \in Nat
    BY <1>3, <2>1, StoreParts
  <2>3. QED BY <1>3, <2>1, <2>2 DEF Succeeds, Follows
<1>4. QED BY <1>1, <1>2, <1>3 DEF Evolves, n

\* getLiveLocked.
LEMMA GetLiveEvolves ==
    ASSUME StoreInv(store), NEW k \in Key
    PROVE  GetLive(k) \in StoreType /\ Evolves(store, GetLive(k))
<1>1. store \in StoreType /\ store.nextGeneration \in Nat
  BY StoreParts DEF StoreInv
<1>2. Evolves(store, store) /\ Evolves(store, Remove(store, {k}))
  BY <1>1, SameEvolves, RemoveEvolves
<1>3. QED BY <1>2, GetLiveInv DEF GetLive, StoreInv

\* newGenerationLocked and existingGenerationLocked: a room that is not there
\* gets an incarnation no room has had, another keeps its own.
LEMMA WithGenerationStep ==
    ASSUME NEW st \in StoreType, NEW k \in Key
    PROVE  LET n == WithGeneration(st, k)
           IN  /\ n \in StoreType /\ n.items = st.items
               /\ st.nextGeneration <= n.nextGeneration
               /\ st.items[k] = None => /\ Generation(n, k) > st.nextGeneration
                                        /\ Generation(n, k) <= n.nextGeneration
               /\ st.items[k] # None => Generation(n, k) = st.items[k].gen
<1> DEFINE g == IF st.items[k] = None THEN st.nextGeneration + 1
                ELSE IF st.nextGeneration < st.items[k].gen THEN st.items[k].gen
                ELSE st.nextGeneration
           n == [st EXCEPT !.nextGeneration = g]
<1>1. st.nextGeneration \in Nat /\ (st.items[k] # None => st.items[k].gen \in Nat)
  BY StoreParts
<1>2. /\ g \in Nat /\ st.nextGeneration <= g
      /\ st.items[k] = None => g = st.nextGeneration + 1
  BY <1>1
<1>3. WithGeneration(st, k) = n
  BY DEF WithGeneration, StoreType
<1> HIDE DEF g
<1>4. n \in StoreType /\ n.items = st.items /\ n.nextGeneration = g
  BY <1>2 DEF StoreType
<1> HIDE DEF n
<1>5. Generation(n, k) = IF st.items[k] = None THEN g ELSE st.items[k].gen
  BY <1>4 DEF Generation
<1>6. QED BY <1>1, <1>2, <1>3, <1>4, <1>5

\* The writes: putLocked, with and without the budget, and the ones in place.
\* st is the store before the incarnation counter moved, m the one after it.
LEMMA WriteEvolves ==
    ASSUME NEW st \in StoreType, NEW m \in StoreType, NEW k \in Key, NEW r,
           m.items = st.items, st.nextGeneration <= m.nextGeneration,
           Succeeds(st.items[k], r, st.nextGeneration, m.nextGeneration)
    PROVE  /\ Evolves(st, m)
           /\ Evolves(st, Put(m, k, r)) /\ Evolves(st, PutIfAccepted(m, k, r))
           /\ Evolves(st, Refresh(m, k, r)) /\ Evolves(st, Rewrite(m, k, r))
<1>1. m.nextGeneration \in Nat
  BY StoreParts
<1>2. Evolves(st, m)
  BY <1>1, SameEvolves
<1>3. /\ Put(m, k, r).items = [st.items EXCEPT ![k] = r]
      /\ Put(m, k, r).nextGeneration = m.nextGeneration
  BY DEF Put, StoreType
<1>4. /\ Refresh(m, k, r).items = [st.items EXCEPT ![k] = r]
      /\ Refresh(m, k, r).nextGeneration = m.nextGeneration
  BY DEF Refresh, StoreType
<1>5. /\ Rewrite(m, k, r).items = [st.items EXCEPT ![k] = r]
      /\ Rewrite(m, k, r).nextGeneration = m.nextGeneration
  BY DEF Rewrite, Refresh, StoreType
<1>6. Evolves(st, Put(m, k, r))
  BY <1>1, <1>3, OneEvolves
<1>7. Evolves(st, Refresh(m, k, r))
  BY <1>1, <1>4, OneEvolves
<1>8. Evolves(st, Rewrite(m, k, r))
  BY <1>1, <1>5, OneEvolves
<1>9. QED BY <1>2, <1>6, <1>7, <1>8 DEF PutIfAccepted

-----------------------------------------------------------------------------
(* The actions                                                             *)

\* A room with a new version succeeds the one it replaces, or begins an
\* incarnation, when its incarnation is what Generation gives.
LEMMA NextVersion ==
    ASSUME NEW st \in StoreType, NEW k \in Key, NEW r,
           r.gen = Generation(WithGeneration(st, k), k), r.ver = Version(st, k) + 1
    PROVE  Succeeds(st.items[k], r, st.nextGeneration, WithGeneration(st, k).nextGeneration)
<1>1. CASE st.items[k] = None
  BY <1>1, WithGenerationStep DEF Succeeds
<1>2. CASE st.items[k] # None
  <2>1. Version(st, k) = st.items[k].ver /\ st.items[k].ver \in Nat
    BY <1>2, StoreParts DEF Version
  <2>2. r.gen = st.items[k].gen
    BY <1>2, WithGenerationStep
  <2>3. QED BY <1>2, <2>1, <2>2 DEF Succeeds, Follows
<1>3. QED BY <1>1, <1>2

\* What the commits have in common.
LEMMA CommitStart ==
    ASSUME IInv, NEW h \in Handler, pending[h] # None
    PROVE  LET k == pending[h].key
               live == GetLive(k)
           IN  /\ k \in Key /\ live \in StoreType
               /\ WithGeneration(live, k) \in StoreType
               /\ WithGeneration(live, k).items = live.items
               /\ live.nextGeneration <= WithGeneration(live, k).nextGeneration
               /\ Evolves(live, live)
               /\ Evolves(live, WithGeneration(live, k))
<1> DEFINE k == pending[h].key
           live == GetLive(k)
           st == WithGeneration(live, k)
<1>1. k \in Key /\ live \in StoreType
  BY CommitParts
<1> HIDE DEF k, live
<1>2. st \in StoreType /\ st.items = live.items /\ live.nextGeneration <= st.nextGeneration
  BY <1>1, WithGenerationStep
<1> HIDE DEF st
<1>3. live.nextGeneration \in Nat /\ st.nextGeneration \in Nat
  BY <1>1, <1>2, StoreParts
<1>4. Evolves(live, live) /\ Evolves(live, st)
  BY <1>1, <1>2, <1>3, SameEvolves
<1>5. QED BY <1>1, <1>2, <1>4 DEF k, live, st

\* An identical save refreshes its room, or claims it with a new version.
LEMMA SaveRefreshesEvolves ==
    ASSUME IInv, NEW h \in Handler, SaveRefreshes(h)
    PROVE  Evolves(GetLive(pending[h].key), store')
<1> DEFINE p == pending[h]
           k == p.key
           live == GetLive(k)
           st == WithGeneration(live, k)
           r == st.items[k]
           lock == ClaimedLock(r.lock, p)
           fresh == [r EXCEPT !.exp = now + p.ttl]
           claimed == [fresh EXCEPT !.lock = lock, !.ver = @ + 1]
<1>1. p # None /\ SaveIsIdentical(st, p)
  BY DEF SaveRefreshes, SaveAdmitted, Committing
<1>2. /\ k \in Key /\ live \in StoreType /\ st \in StoreType /\ st.items = live.items
      /\ live.nextGeneration <= st.nextGeneration
  BY <1>1, CommitStart
<1>3. store' = IF lock = r.lock THEN Refresh(st, k, fresh) ELSE Rewrite(st, k, claimed)
  BY DEF SaveRefreshes
<1>4. r # None
  BY <1>1 DEF SaveIsIdentical
<1> HIDE DEF k, live, st
<1>5. r = live.items[k] /\ r \in RoomType /\ r.ver \in Nat
  BY <1>2, <1>4, StoreParts
<1> HIDE DEF r, p, lock
<1>6. /\ fresh.gen = r.gen /\ fresh.ver = r.ver /\ fresh.text = r.text
      /\ fresh.items = r.items /\ fresh.ttl = r.ttl /\ fresh.lock = r.lock
      /\ claimed.gen = r.gen /\ claimed.ver = r.ver + 1
  BY <1>5 DEF RoomType
<1> HIDE DEF fresh, claimed
<1>7. Follows(r, fresh) /\ Follows(r, claimed)
  BY <1>5, <1>6 DEF Follows
<1>8. /\ Succeeds(live.items[k], fresh, live.nextGeneration, st.nextGeneration)
      /\ Succeeds(live.items[k], claimed, live.nextGeneration, st.nextGeneration)
  BY <1>4, <1>5, <1>7 DEF Succeeds
<1>9. Evolves(live, Refresh(st, k, fresh)) /\ Evolves(live, Rewrite(st, k, claimed))
  BY <1>2, <1>8, WriteEvolves
<1>10. Evolves(live, store')
  BY <1>3, <1>9
<1>11. QED BY <1>10 DEF live, k, p

\* Any other save moves the version, or begins an incarnation.
LEMMA SaveReplacesEvolves ==
    ASSUME IInv, NEW h \in Handler, SaveReplaces(h)
    PROVE  Evolves(GetLive(pending[h].key), store')
<1> DEFINE p == pending[h]
           k == p.key
           live == GetLive(k)
           st == WithGeneration(live, k)
           ver == VersionAfterReplace(st, k)
           gen == Generation(st, k)
           r == [text |-> p.text, items |-> TextLen[p.text], ttl |-> p.ttl,
                 exp |-> now + p.ttl, ver |-> ver, gen |-> gen,
                 lock |-> ClaimedLock(LockOf(st, k), p),
                 hist |-> Capture(HistoryOf(st, k), p.text, ver, FALSE)]
<1>1. pending[h] # None /\ store' = PutIfAccepted(st, k, r)
  BY DEF SaveReplaces, SaveAdmitted, Committing
<1>2. /\ k \in Key /\ live \in StoreType /\ st \in StoreType /\ st.items = live.items
      /\ live.nextGeneration <= st.nextGeneration
  BY <1>1, CommitStart
<1>3. r.gen = gen /\ r.ver = ver
  OBVIOUS
<1>4. ver = Version(live, k) + 1
  BY <1>2 DEF VersionAfterReplace, Version
<1> HIDE DEF r, ver, k, live
<1>5. Succeeds(live.items[k], r, live.nextGeneration, st.nextGeneration)
  BY <1>2, <1>3, <1>4, NextVersion
<1> HIDE DEF st
<1>6. Evolves(live, PutIfAccepted(st, k, r))
  BY <1>2, <1>5, WriteEvolves
<1>7. QED BY <1>1, <1>6 DEF live, k

\* A batch that changes nothing but perhaps the lifetime.
LEMMA OpsRefreshEvolves ==
    ASSUME IInv, NEW h \in Handler, OpsRefresh(h)
    PROVE  Evolves(GetLive(pending[h].key), store')
<1> DEFINE p == pending[h]
           k == p.key
           live == GetLive(k)
           st == WithGeneration(live, k)
           r == st.items[k]
           ttl == NewTTL(st, p)
           fresh == [r EXCEPT !.ttl = ttl, !.exp = now + ttl]
           moved == [fresh EXCEPT !.ver = @ + 1]
<1>1. /\ pending[h] # None /\ r # None
      /\ store' = IF ttl = r.ttl THEN Refresh(st, k, fresh) ELSE Rewrite(st, k, moved)
  BY DEF OpsRefresh, OpsAdmitted, Committing
<1>2. /\ k \in Key /\ live \in StoreType /\ st \in StoreType /\ st.items = live.items
      /\ live.nextGeneration <= st.nextGeneration
  BY <1>1, CommitStart
<1> HIDE DEF p, k, live, st, ttl
<1>3. r = live.items[k] /\ r \in RoomType /\ r.ver \in Nat
  BY <1>1, <1>2, StoreParts
<1> HIDE DEF r
<1>4. /\ fresh.gen = r.gen /\ fresh.ver = r.ver /\ fresh.text = r.text
      /\ fresh.items = r.items /\ fresh.ttl = ttl /\ fresh.lock = r.lock
      /\ moved.gen = r.gen /\ moved.ver = r.ver + 1
  BY <1>3 DEF RoomType
<1> HIDE DEF fresh, moved
<1>5. Follows(r, moved) /\ (ttl = r.ttl => Follows(r, fresh))
  BY <1>3, <1>4 DEF Follows
<1>6. /\ Succeeds(live.items[k], moved, live.nextGeneration, st.nextGeneration)
      /\ ttl = r.ttl => Succeeds(live.items[k], fresh, live.nextGeneration, st.nextGeneration)
  BY <1>1, <1>3, <1>5 DEF Succeeds
<1>7. CASE ttl = r.ttl
  <2>1. Evolves(live, Refresh(st, k, fresh))
    BY <1>2, <1>6, <1>7, WriteEvolves
  <2>2. QED BY <1>1, <1>7, <2>1 DEF live, k, p
<1>8. CASE ttl # r.ttl
  <2>1. Evolves(live, Rewrite(st, k, moved))
    BY <1>2, <1>6, WriteEvolves
  <2>2. QED BY <1>1, <1>8, <2>1 DEF live, k, p
<1>9. QED BY <1>7, <1>8

\* An empty batch creates a room in a new incarnation.
LEMMA OpsCreateEvolves ==
    ASSUME IInv, NEW h \in Handler, OpsCreate(h)
    PROVE  Evolves(GetLive(pending[h].key), store')
<1> DEFINE p == pending[h]
           k == p.key
           live == GetLive(k)
           st == WithGeneration(live, k)
           gen == Generation(st, k)
           r == [text |-> EmptyText, items |-> 0, ttl |-> p.ttl, exp |-> now + p.ttl,
                 ver |-> 1, gen |-> gen, lock |-> NoLock, hist |-> << >>]
<1>1. pending[h] # None /\ st.items[k] = None /\ store' = PutIfAccepted(st, k, r)
  BY DEF OpsCreate, OpsAdmitted, Committing
<1>2. /\ k \in Key /\ live \in StoreType /\ st \in StoreType /\ st.items = live.items
      /\ live.nextGeneration <= st.nextGeneration
  BY <1>1, CommitStart
<1>3. r.gen = gen /\ r.ver = 1
  OBVIOUS
<1>4. Version(live, k) = 0
  BY <1>1, <1>2 DEF Version
<1> HIDE DEF r, k, live
<1>5. Succeeds(live.items[k], r, live.nextGeneration, st.nextGeneration)
  BY <1>2, <1>3, <1>4, NextVersion
<1> HIDE DEF st
<1>6. Evolves(live, PutIfAccepted(st, k, r))
  BY <1>2, <1>5, WriteEvolves
<1>7. QED BY <1>1, <1>6 DEF live, k

\* A batch that changes the document moves the version.
LEMMA OpsChangeEvolves ==
    ASSUME IInv, NEW h \in Handler, OpsChange(h)
    PROVE  Evolves(GetLive(pending[h].key), store')
<1> DEFINE p == pending[h]
           k == p.key
           live == GetLive(k)
           st == WithGeneration(live, k)
           r == st.items[k]
           ttl == NewTTL(st, p)
           ver == Version(st, k) + 1
           gen == Generation(st, k)
           B == IF r = None THEN Batches(EmptyText, 0) ELSE Batches(r.text, r.items)
           n(d) == [text |-> d.text, items |-> d.items, ttl |-> ttl, exp |-> now + ttl,
                    ver |-> ver, gen |-> gen, lock |-> LockOf(st, k),
                    hist |-> Capture(HistoryOf(st, k), d.text, ver, FALSE)]
<1>1. pending[h] # None /\ \E d \in B : store' = PutIfAccepted(st, k, n(d))
  BY DEF OpsChange, OpsAdmitted, Committing
<1>2. PICK d \in B : store' = PutIfAccepted(st, k, n(d))
  BY <1>1
<1>3. /\ k \in Key /\ live \in StoreType /\ st \in StoreType /\ st.items = live.items
      /\ live.nextGeneration <= st.nextGeneration
  BY <1>1, CommitStart
<1>4. n(d).gen = gen /\ n(d).ver = ver
  OBVIOUS
<1>5. ver = Version(live, k) + 1
  BY <1>3 DEF Version
<1> HIDE DEF n, ver, k, live
<1>6. Succeeds(live.items[k], n(d), live.nextGeneration, st.nextGeneration)
  BY <1>3, <1>4, <1>5, NextVersion
<1> HIDE DEF st
<1>7. Evolves(live, PutIfAccepted(st, k, n(d)))
  BY <1>3, <1>6, WriteEvolves
<1>8. QED BY <1>2, <1>7 DEF live, k

\* The trail is captured or cleared under the room's version.
LEMMA TrailEvolves ==
    ASSUME IInv, NEW h \in Handler, CaptureHistory(h) \/ ClearHistory(h)
    PROVE  Evolves(GetLive(pending[h].key), store')
<1> DEFINE p == pending[h]
           k == p.key
           live == GetLive(k)
           r == live.items[k]
           n(hist) == [r EXCEPT !.hist = hist]
<1>1. pending[h] # None
  BY DEF CaptureHistory, ClearHistory, Committing
<1>2. k \in Key /\ live \in StoreType /\ Evolves(live, live)
  BY <1>1, CommitStart
<1>3. \/ store' = live
      \/ /\ r # None
         /\ \E hist : store' = Put(live, k, n(hist)) \/ store' = PutIfAccepted(live, k, n(hist))
  <2>1. CASE CaptureHistory(h)
    <3>1. \/ store' = live
          \/ /\ r # None
             /\ store' = PutIfAccepted(live, k,
                           [r EXCEPT !.hist = Capture(@, r.text, r.ver, TRUE)])
      BY <2>1 DEF CaptureHistory
    <3>2. CASE store' = live
      BY <3>2
    <3>3. CASE /\ r # None
               /\ store' = PutIfAccepted(live, k,
                             [r EXCEPT !.hist = Capture(@, r.text, r.ver, TRUE)])
      <4>1. r \in RoomType
        BY <1>2, <3>3, StoreParts
      <4>2. [r EXCEPT !.hist = Capture(@, r.text, r.ver, TRUE)]
              = n(Capture(r.hist, r.text, r.ver, TRUE))
        BY <4>1 DEF RoomType
      <4>3. QED BY <3>3, <4>2
    <3>4. QED BY <3>1, <3>2, <3>3
  <2>2. CASE ClearHistory(h)
    <3>1. store' = live \/ (r # None /\ store' = Put(live, k, n(<< >>)))
      BY <2>2 DEF ClearHistory
    <3>2. QED BY <3>1
  <2>3. QED BY <2>1, <2>2
<1> HIDE DEF k, live
<1>4. CASE store' = live
  BY <1>2, <1>4 DEF live, k
<1>5. ASSUME r # None, NEW hist,
             store' = Put(live, k, n(hist)) \/ store' = PutIfAccepted(live, k, n(hist))
      PROVE  Evolves(live, store')
  <2>1. r \in RoomType /\ r.ver \in Nat /\ live.nextGeneration \in Nat
    BY <1>2, <1>5, StoreParts
  <2>2. /\ n(hist).gen = r.gen /\ n(hist).ver = r.ver /\ n(hist).text = r.text
        /\ n(hist).items = r.items /\ n(hist).ttl = r.ttl /\ n(hist).lock = r.lock
    BY <2>1 DEF RoomType
  <2> HIDE DEF n
  <2>3. Succeeds(r, n(hist), live.nextGeneration, live.nextGeneration)
    BY <1>5, <2>1, <2>2 DEF Succeeds, Follows
  <2>4. Evolves(live, Put(live, k, n(hist))) /\ Evolves(live, PutIfAccepted(live, k, n(hist)))
    BY <1>2, <2>1, <2>3, WriteEvolves
  <2>5. QED BY <1>5, <2>4
<1>6. QED BY <1>3, <1>4, <1>5 DEF live, k

\* Setting, changing or removing a password moves the version.
LEMMA RelockEvolves ==
    ASSUME IInv, NEW k \in Key, NEW current, NEW lock, Relock(k, current, lock)
    PROVE  Evolves(GetLive(k), store')
<1> DEFINE live == GetLive(k)
           r == live.items[k]
           n == [r EXCEPT !.lock = lock, !.ver = @ + 1]
<1>1. r # None /\ store' = Rewrite(live, k, n)
  BY DEF Relock
<1>2. live \in StoreType
  BY GetLiveEvolves DEF IInv
<1> HIDE DEF live
<1>3. r \in RoomType /\ r.ver \in Nat /\ live.nextGeneration \in Nat
  BY <1>1, <1>2, StoreParts
<1>4. n.gen = r.gen /\ n.ver = r.ver + 1
  BY <1>3 DEF RoomType
<1> HIDE DEF n
<1>5. Succeeds(r, n, live.nextGeneration, live.nextGeneration)
  BY <1>1, <1>3, <1>4 DEF Succeeds, Follows
<1>6. Evolves(live, Rewrite(live, k, n))
  BY <1>2, <1>3, <1>5, WriteEvolves
<1>7. QED BY <1>1, <1>6 DEF live

LEMMA CommitEvolves ==
    ASSUME IInv, NEW h \in Handler, Commit(h)
    PROVE  pending[h].key \in Key /\ (store' = store \/ Evolves(GetLive(pending[h].key), store'))
<1> DEFINE k == pending[h].key
           live == GetLive(k)
<1>1. pending[h] # None
  BY DEF Commit, SaveRejected, SaveRefreshes, SaveReplaces, SaveAdmitted, OpsRejected,
         OpsFail, OpsRefresh, OpsCreate, OpsChange, OpsAdmitted, DeleteAuth,
         CaptureHistory, ClearHistory, Committing
<1>2. /\ k \in Key /\ live \in StoreType /\ Evolves(live, live)
      /\ Evolves(live, WithGeneration(live, k))
  BY <1>1, CommitStart
<1>3. CASE SaveRejected(h)
  BY <1>2, <1>3 DEF SaveRejected
<1>4. CASE OpsRejected(h)
  BY <1>2, <1>4 DEF OpsRejected
<1>5. CASE OpsFail(h)
  BY <1>2, <1>5 DEF OpsFail
<1>6. CASE DeleteAuth(h)
  <2>1. Evolves(live, Remove(live, {k}))
    BY <1>2, RemoveEvolves
  <2>2. store' = live \/ store' = Remove(live, {k})
    BY <1>6 DEF DeleteAuth
  <2>3. QED BY <1>2, <2>1, <2>2
<1>7. CASE \/ SaveRefreshes(h) \/ SaveReplaces(h) \/ OpsRefresh(h) \/ OpsCreate(h)
           \/ OpsChange(h) \/ CaptureHistory(h) \/ ClearHistory(h)
  BY <1>2, <1>7, SaveRefreshesEvolves, SaveReplacesEvolves, OpsRefreshEvolves,
     OpsCreateEvolves, OpsChangeEvolves, TrailEvolves
<1>8. QED BY <1>3, <1>4, <1>5, <1>6, <1>7 DEF Commit

\* A step that evolves what getLiveLocked left evolves the store.
LEMMA AfterGetLive ==
    ASSUME IInv, IInv', NEW k \in Key, Evolves(GetLive(k), store')
    PROVE  Evolves(store, store')
<1>1. store \in StoreType /\ store' \in StoreType
  BY DEF IInv, TypeOK
<1>2. GetLive(k) \in StoreType /\ Evolves(store, GetLive(k))
  BY GetLiveEvolves DEF IInv
<1>3. QED BY <1>1, <1>2, EvolvesTwice

LEMMA NextEvolves ==
    ASSUME IInv, [Next]_vars
    PROVE  Evolves(store, store')
<1>1. IInv' /\ store \in StoreType /\ StoreInv(store)
  BY NextInv DEF IInv, TypeOK
<1>2. ASSUME store' = store PROVE Evolves(store, store')
  <2>1. store.nextGeneration \in Nat /\ store'.nextGeneration = store.nextGeneration
    BY <1>1, <1>2, StoreParts
  <2>2. QED BY <1>1, <1>2, <2>1, SameEvolves
<1>3. ASSUME NEW k \in Key, store' = GetLive(k) PROVE Evolves(store, store')
  BY <1>1, <1>3, GetLiveEvolves
<1>4. ASSUME NEW h \in Handler, Handle(h) PROVE Evolves(store, store')
  <2>1. CASE h \in Reader /\ \E k \in Key : Get(h, k)
    BY <1>3, <2>1 DEF Get
  <2>2. CASE \E k \in Key, pw \in Knows[h] : AuthCredential(h, k, pw)
    BY <1>3, <2>2 DEF AuthCredential
  <2>3. CASE \E k \in Key : \E p \in Requests(h, k) : Begin(h, p)
    <3>1. PICK k \in Key : \E p \in Requests(h, k) : Begin(h, p)
      BY <2>3
    <3>2. PICK p \in Requests(h, k) : Begin(h, p)
      BY <3>1
    <3>3. p.key = k
      BY <3>2, RequestsType
    <3>4. QED BY <1>3, <3>2, <3>3 DEF Begin
  <2>4. CASE Commit(h)
    BY <1>1, <1>2, <2>4, CommitEvolves, AfterGetLive
  <2>5. QED BY <1>4, <2>1, <2>2, <2>3, <2>4 DEF Handle
<1>5. ASSUME NEW k \in Key, SetPassword(k) PROVE Evolves(store, store')
  <2>1. \E current, lock : Relock(k, current, lock)
    BY <1>5 DEF SetPassword, Unlock, Rescope, Rotate
  <2>2. QED BY <1>1, <2>1, RelockEvolves, AfterGetLive
<1>6. ASSUME NEW k \in Key, Peek(k) PROVE Evolves(store, store')
  BY <1>3, <1>6 DEF Peek
<1>7. CASE CleanupExpired
  <2>1. Expired(store) \in SUBSET Key
    BY DEF Expired, Present
  <2>2. QED BY <1>1, <1>7, <2>1, RemoveEvolves DEF CleanupExpired
<1>8. CASE Tick
  BY <1>2, <1>8 DEF Tick
<1>9. CASE UNCHANGED vars
  BY <1>2, <1>9 DEF vars
<1>10. QED BY <1>4, <1>5, <1>6, <1>7, <1>8, <1>9 DEF Next

\* Snapshots of a room can be ordered by incarnation and version, and two with
\* the same of both hold the same document, lifetime and lock, whatever
\* SaveWithBase, ApplyOps, SetPassword, the history calls, deletion and expiry
\* do between them.
THEOREM VersionsIdentify == Spec => VersionIdentifiesDocument
<1> DEFINE Step == \A k \in Key :
                     LET r == store.items[k]
                         n == store'.items[k]
                     IN  n # None =>
                           \/ /\ r # None /\ n.gen = r.gen
                              /\ n.ver >= r.ver
                              /\ n.ver = r.ver => /\ n.text = r.text /\ n.items = r.items
                                                  /\ n.ttl = r.ttl /\ n.lock = r.lock
                           \/ n.gen > store.nextGeneration /\ n.gen <= store'.nextGeneration
<1>1. IInv /\ [Next]_vars => [Step]_vars
  BY NextEvolves DEF Evolves, Succeeds, Follows
<1>2. VersionIdentifiesDocument <=> [][Step]_vars
  BY DEF VersionIdentifiesDocument
<1>3. QED BY <1>1, <1>2, Invariance, PTL DEF Spec

-----------------------------------------------------------------------------
(* What clients have read                                                  *)

\* A room's incarnation was begun: none is 0, the one of NothingRead.
Begun == \A k \in Key : store.items[k] # None =>
            store.items[k].gen > 0 /\ store.items[k].gen <= store.nextGeneration

\* What was read of a room is of an incarnation begun, and if it is the
\* room's, it is not newer, and the room's text if it has the room's version.
StillTrue(read, r, high) ==
    /\ read.gen <= high
    /\ r # None /\ r.gen = read.gen => /\ read.ver <= r.ver
                                       /\ read.ver = r.ver => read.text = r.text

SeenTrue ==
    \A h \in Handler, k \in Key :
        StillTrue(session[h].seen[k], store.items[k], store.nextGeneration)

\* A conditional save carries the version its client read.
PendingTrue ==
    \A h \in Handler :
        pending[h] # None /\ pending[h].base > 0 =>
            /\ pending[h].read.ver = pending[h].base
            /\ StillTrue(pending[h].read, store.items[pending[h].key], store.nextGeneration)

\* NoLostUpdate needs what was read to stay true of the room until the commit,
\* and that needs an incarnation to be new when it begins.
ReadsInv == IInv /\ Begun /\ SeenTrue /\ PendingTrue

\* What is true of a store stays true of what it evolves into.
LEMMA StillTrueEvolves ==
    ASSUME NEW st \in StoreType, NEW n \in StoreType, Evolves(st, n), NEW k \in Key,
           NEW read \in ReadType, StillTrue(read, st.items[k], st.nextGeneration)
    PROVE  StillTrue(read, n.items[k], n.nextGeneration)
<1>1. /\ read.gen \in Nat /\ read.ver \in Nat
      /\ st.nextGeneration \in Nat /\ n.nextGeneration \in Nat
      /\ read.gen <= st.nextGeneration /\ st.nextGeneration <= n.nextGeneration
  BY StoreParts DEF ReadType, Evolves, StillTrue
<1>2. ASSUME n.items[k] # None, n.items[k].gen = read.gen
      PROVE  /\ read.ver <= n.items[k].ver
             /\ read.ver = n.items[k].ver => read.text = n.items[k].text
  <2>1. Succeeds(st.items[k], n.items[k], st.nextGeneration, n.nextGeneration)
    BY <1>2 DEF Evolves
  <2>2. st.items[k] # None /\ Follows(st.items[k], n.items[k])
    BY <1>1, <1>2, <2>1 DEF Succeeds
  <2>3. st.items[k].ver \in Nat /\ n.items[k].ver \in Nat
    BY <1>2, <2>2, StoreParts
  <2>4. QED BY <1>1, <1>2, <2>2, <2>3 DEF Follows, StillTrue
<1>3. QED BY <1>1, <1>2 DEF StillTrue

LEMMA BegunNext ==
    ASSUME IInv, IInv', Begun, Evolves(store, store')
    PROVE  Begun'
<1>1. store \in StoreType /\ store' \in StoreType
  BY DEF IInv, TypeOK
<1>2. /\ store.nextGeneration \in Nat /\ store'.nextGeneration \in Nat
      /\ store.nextGeneration <= store'.nextGeneration
  BY <1>1, StoreParts DEF Evolves
<1>3. ASSUME NEW k \in Key, store'.items[k] # None
      PROVE  store'.items[k].gen > 0 /\ store'.items[k].gen <= store'.nextGeneration
  <2>1. store'.items[k].gen \in Nat
    BY <1>1, <1>3, StoreParts
  <2>2. Succeeds(store.items[k], store'.items[k], store.nextGeneration, store'.nextGeneration)
    BY <1>3 DEF Evolves
  <2>3. CASE store.items[k] # None /\ Follows(store.items[k], store'.items[k])
    BY <1>2, <2>1, <2>3 DEF Follows, Begun
  <2>4. CASE /\ store'.items[k].gen > store.nextGeneration
             /\ store'.items[k].gen <= store'.nextGeneration
    BY <1>2, <2>1, <2>4
  <2>5. QED BY <2>2, <2>3, <2>4 DEF Succeeds
<1>4. QED BY <1>3 DEF Begun

\* A step leaves what a client has read alone, or is that client's Get.
LEMMA SessionStep ==
    ASSUME [Next]_vars
    PROVE  \/ session' = session
           \/ \E h \in Handler, k \in Key : Get(h, k)
           \/ \E h \in Handler, k \in Key, pw \in Password : AuthCredential(h, k, pw)
<1>1. CASE UNCHANGED vars
  BY <1>1 DEF vars
<1>2. ASSUME NEW h \in Handler, Commit(h) PROVE session' = session
  BY <1>2 DEF Commit, SaveRejected, SaveRefreshes, SaveReplaces, OpsRejected, OpsFail,
              OpsRefresh, OpsCreate, OpsChange, DeleteAuth, CaptureHistory, ClearHistory,
              Answer
<1>3. ASSUME NEW h \in Handler, Handle(h)
      PROVE  \/ session' = session
             \/ \E k \in Key : Get(h, k)
             \/ \E k \in Key, pw \in Password : AuthCredential(h, k, pw)
  <2>1. Knows[h] \subseteq Password
    BY ConstantsAssumption
  <2>2. QED BY <1>2, <1>3, <2>1 DEF Handle, Begin
<1>4. ASSUME NEW k \in Key, SetPassword(k) PROVE session' = session
  BY <1>4 DEF SetPassword, Unlock, Rescope, Rotate, Relock
<1>5. QED BY <1>1, <1>3, <1>4 DEF Next, Peek, CleanupExpired, Tick

LEMMA SeenNext ==
    ASSUME ReadsInv, IInv', Begun', [Next]_vars, Evolves(store, store')
    PROVE  SeenTrue'
<1>1. /\ store \in StoreType /\ store' \in StoreType
      /\ session \in [Handler -> SessionType]
  BY DEF ReadsInv, IInv, TypeOK
<1>2. ASSUME NEW h \in Handler, NEW k \in Key
      PROVE  /\ session[h].seen[k] \in ReadType
             /\ StillTrue(session[h].seen[k], store'.items[k], store'.nextGeneration)
  <2>1. session[h].seen[k] \in ReadType
    BY <1>1 DEF SessionType
  <2>2. StillTrue(session[h].seen[k], store.items[k], store.nextGeneration)
    BY DEF ReadsInv, SeenTrue
  <2>3. QED BY <1>1, <2>1, <2>2, StillTrueEvolves
<1>3. CASE session' = session
  BY <1>2, <1>3 DEF SeenTrue
<1>4. ASSUME NEW g \in Handler, NEW j \in Key, Get(g, j) PROVE SeenTrue'
  <2> DEFINE r == store'.items[j]
             read == IF r = None THEN NothingRead
                     ELSE [ver |-> r.ver, gen |-> r.gen, text |-> r.text]
  <2>1. session' = [session EXCEPT ![g].seen[j] = read]
    BY <1>4 DEF Get
  <2>2. StillTrue(read, r, store'.nextGeneration)
    <3>1. store'.nextGeneration \in Nat
      BY <1>1, StoreParts
    <3>2. CASE r = None
      BY <3>1, <3>2 DEF StillTrue, NothingRead
    <3>3. CASE r # None
      <4>1. r.ver \in Nat /\ r.gen <= store'.nextGeneration
        BY <1>1, <3>3, StoreParts DEF Begun
      <4>2. QED BY <3>3, <4>1 DEF StillTrue
    <3>4. QED BY <3>2, <3>3
  <2> HIDE DEF read
  <2>3. ASSUME NEW h \in Handler, NEW k \in Key
        PROVE  session'[h].seen[k] = IF h = g /\ k = j THEN read ELSE session[h].seen[k]
    BY <1>1, <2>1 DEF SessionType
  <2>4. QED BY <1>2, <2>2, <2>3 DEF SeenTrue
<1>5. ASSUME NEW g \in Handler, NEW j \in Key, NEW pw \in Password, AuthCredential(g, j, pw)
      PROVE  SeenTrue'
  <2>1. ASSUME NEW h \in Handler PROVE session'[h].seen = session[h].seen
    BY <1>1, <1>5 DEF AuthCredential, SessionType
  <2>2. QED BY <1>2, <2>1 DEF SeenTrue
<1>6. QED BY <1>3, <1>4, <1>5, SessionStep

\* A step leaves a pending request alone, ends it, or begins it.
LEMMA PendingStep ==
    ASSUME [Next]_vars, TypeOK, NEW h \in Handler
    PROVE  \/ pending'[h] \in {pending[h], None}
           \/ \E k \in Key : \E p \in Requests(h, k) : Begin(h, p) /\ pending' # pending
<1>1. CASE UNCHANGED vars
  BY <1>1 DEF vars
<1>2. pending \in [Handler -> RequestType \cup {None}]
  BY DEF TypeOK
<1>3. ASSUME NEW g \in Handler, Commit(g) PROVE pending'[h] \in {pending[h], None}
  <2>1. pending' = [pending EXCEPT ![g] = None]
    BY <1>3 DEF Commit, SaveRejected, SaveRefreshes, SaveReplaces, OpsRejected, OpsFail,
                OpsRefresh, OpsCreate, OpsChange, DeleteAuth, CaptureHistory, ClearHistory,
                Answer
  <2>2. QED BY <1>2, <2>1
<1>4. ASSUME NEW g \in Handler, NEW k \in Key, NEW p \in Requests(g, k), Begin(g, p)
      PROVE  \/ pending'[h] \in {pending[h], None}
             \/ g = h /\ pending' # pending
  BY <1>2, <1>4 DEF Begin
<1>5. ASSUME NEW g \in Handler, Handle(g)
      PROVE  \/ pending'[h] \in {pending[h], None}
             \/ \E k \in Key : \E p \in Requests(h, k) : Begin(h, p) /\ pending' # pending
  BY <1>3, <1>4, <1>5 DEF Handle, Get, AuthCredential
<1>6. ASSUME NEW k \in Key, SetPassword(k) PROVE pending' = pending
  BY <1>6 DEF SetPassword, Unlock, Rescope, Rotate, Relock
<1>7. QED BY <1>1, <1>5, <1>6 DEF Next, Peek, CleanupExpired, Tick

\* A request with a base carries what its client last read.
LEMMA RequestReads ==
    ASSUME IInv, NEW h \in Handler, NEW k \in Key, NEW p \in Requests(h, k), p.base > 0
    PROVE  p.read = session[h].seen[k] /\ p.base = session[h].seen[k].ver
<1>1. session[h].seen[k].ver \in Nat
  BY DEF IInv, TypeOK, SessionType, ReadType
<1>2. ASSUME NEW kind, NEW text, NEW ttl, NEW base \in {0, session[h].seen[k].ver},
             NEW pw, NEW claim, p = Request(h, k, kind, text, ttl, base, pw, claim)
      PROVE  p.read = session[h].seen[k] /\ p.base = session[h].seen[k].ver
  BY <1>1, <1>2 DEF Request
<1>3. QED BY <1>2 DEF Requests

LEMMA PendingNext ==
    ASSUME ReadsInv, IInv', [Next]_vars, Evolves(store, store')
    PROVE  PendingTrue'
<1>1. /\ store \in StoreType /\ store' \in StoreType /\ IInv
      /\ session \in [Handler -> SessionType]
      /\ pending \in [Handler -> RequestType \cup {None}]
  BY DEF ReadsInv, IInv, TypeOK
<1> SUFFICES ASSUME NEW h \in Handler, pending'[h] # None, pending'[h].base > 0
             PROVE  /\ pending'[h].read.ver = pending'[h].base
                    /\ StillTrue(pending'[h].read, store'.items[pending'[h].key],
                                 store'.nextGeneration)
  BY DEF PendingTrue
<1>2. CASE pending'[h] = pending[h]
  <2>1. /\ pending[h].read.ver = pending[h].base
        /\ StillTrue(pending[h].read, store.items[pending[h].key], store.nextGeneration)
    BY <1>2 DEF ReadsInv, PendingTrue
  <2>2. pending[h] \in RequestType
    BY <1>1, <1>2
  <2>3. pending[h].key \in Key /\ pending[h].read \in ReadType
    BY <2>2 DEF RequestType, AnyRequest
  <2>4. QED BY <1>1, <1>2, <2>1, <2>3, StillTrueEvolves
<1>3. ASSUME NEW k \in Key, NEW p \in Requests(h, k), Begin(h, p), pending' # pending
      PROVE  /\ pending'[h].read.ver = pending'[h].base
             /\ StillTrue(pending'[h].read, store'.items[pending'[h].key],
                          store'.nextGeneration)
  <2>1. p \in RequestType /\ p.key = k
    BY <1>1, RequestsType
  <2>2. /\ pending'[h].key = p.key /\ pending'[h].read = p.read
        /\ pending'[h].base = p.base
    <3> DEFINE expected == LockOf(GetLive(p.key), p.key).salt
               claimSalt == IF p.claim # None THEN salts + 1 ELSE 0
               q == [p EXCEPT !.expected = expected, !.claimSalt = claimSalt]
    <3>1. pending' = [pending EXCEPT ![h] = q]
      BY <1>3 DEF Begin
    <3> HIDE DEF expected, claimSalt
    <3>2. q.key = p.key /\ q.read = p.read /\ q.base = p.base
      BY <2>1 DEF RequestType, AnyRequest
    <3> HIDE DEF q
    <3>3. QED BY <1>1, <3>1, <3>2
  <2>3. p.read = session[h].seen[k] /\ p.base = session[h].seen[k].ver
    BY <1>1, <2>2, RequestReads
  <2>4. session[h].seen[k] \in ReadType
    BY <1>1 DEF SessionType
  <2>5. StillTrue(session[h].seen[k], store.items[k], store.nextGeneration)
    BY DEF ReadsInv, SeenTrue
  <2>6. StillTrue(p.read, store'.items[k], store'.nextGeneration)
    BY <1>1, <2>3, <2>4, <2>5, StillTrueEvolves
  <2>7. QED BY <2>1, <2>2, <2>3, <2>6
<1>4. QED BY <1>1, <1>2, <1>3, PendingStep DEF IInv

LEMMA ReadsInit == Init => ReadsInv
<1> SUFFICES ASSUME Init PROVE ReadsInv
  OBVIOUS
<1>1. IInv
  BY InitInv
<1>2. \A k \in Key : store.items[k] = None
  BY DEF Init
<1>3. \A h \in Handler, k \in Key : session[h].seen[k] = NothingRead
  BY DEF Init
<1>4. store.nextGeneration = 0 /\ \A h \in Handler : pending[h] = None
  BY DEF Init
<1>5. QED BY <1>1, <1>2, <1>3, <1>4
          DEF ReadsInv, Begun, SeenTrue, PendingTrue, StillTrue, NothingRead

LEMMA ReadsNext == ReadsInv /\ [Next]_vars => ReadsInv'
<1> SUFFICES ASSUME ReadsInv, [Next]_vars PROVE ReadsInv'
  OBVIOUS
<1>1. IInv' /\ Evolves(store, store')
  BY NextInv, NextEvolves DEF ReadsInv
<1>2. Begun'
  BY <1>1, BegunNext DEF ReadsInv
<1>3. SeenTrue' /\ PendingTrue'
  BY <1>1, <1>2, SeenNext, PendingNext
<1>4. QED BY <1>1, <1>2, <1>3 DEF ReadsInv

\* A conditional save on the incarnation its client read replaces the very
\* text the client read: SaveWithBase compares the version again under the
\* lock, and a version of an incarnation has one text.
THEOREM NoUpdateLost == Spec => NoLostUpdate
<1> DEFINE Step == \A h \in Handler :
                     LET p == pending[h]
                         r == store.items[p.key]
                     IN  /\ SaveReplaces(h) /\ p.base > 0
                         /\ r # None /\ r.gen = p.read.gen
                         /\ store'.items[p.key] # r
                         => r.text = p.read.text
<1>1. Spec => []ReadsInv
  BY ReadsInit, ReadsNext, PTL DEF Spec
<1>2. ReadsInv /\ [Next]_vars => [Step]_vars
  <2> SUFFICES ASSUME ReadsInv, NEW h \in Handler, SaveReplaces(h), pending[h].base > 0,
                      store.items[pending[h].key] # None,
                      store.items[pending[h].key].gen = pending[h].read.gen
               PROVE  store.items[pending[h].key].text = pending[h].read.text
    OBVIOUS
  <2> DEFINE p == pending[h]
             k == p.key
             r == store.items[k]
  <2>1. p # None /\ VersionMatches(GetLive(k), p)
    BY DEF SaveReplaces, SaveAdmitted, Committing
  <2>2. k \in Key /\ store \in StoreType /\ p.base \in Nat
    BY <2>1, CommitParts DEF ReadsInv, IInv, TypeOK, RequestType, AnyRequest
  <2>3. GetLive(k).items[k] \in {r, None}
    BY <2>2 DEF GetLive, Remove, StoreType
  <2>4. Version(GetLive(k), k) = p.base
    BY <2>1 DEF VersionMatches
  <2>5. r.ver = p.base
    BY <2>2, <2>3, <2>4 DEF Version
  <2>6. p.read.ver = p.base /\ StillTrue(p.read, r, store.nextGeneration)
    BY <2>1 DEF ReadsInv, PendingTrue
  <2>7. QED BY <2>5, <2>6 DEF StillTrue
<1>3. NoLostUpdate <=> [][Step]_vars
  BY DEF NoLostUpdate
<1>4. QED BY <1>1, <1>2, <1>3, PTL DEF Spec


-----------------------------------------------------------------------------
(* Trails                                                                  *)

\* A trail whose room has this text and version, at this time.
InOrder(hist, text, ver, time) ==
    \A i \in 1 .. Len(hist) :
        /\ hist[i].text # EmptyText
        /\ hist[i].ver <= ver
        /\ hist[i].ver = ver => hist[i].text = text
        /\ hist[i].at <= time
        /\ i > 1 => /\ hist[i].text # hist[i - 1].text
                    /\ hist[i].ver > hist[i - 1].ver
                    /\ hist[i].at >= hist[i - 1].at

\* The cap may be exceeded by the entry just appended.
Trail(hist, text, ver, time) ==
    /\ hist \in Seq(EntryType)
    /\ InOrder(hist, text, ver, time)

RoomTrail(r, time) == Trail(r.hist, r.text, r.ver, time) /\ Len(r.hist) <= MaxHistory

Trails(st, time) == \A k \in Key : st.items[k] # None => RoomTrail(st.items[k], time)

\* The entries of a trail have natural versions and times.
LEMMA EntryParts ==
    ASSUME NEW hist \in Seq(EntryType), NEW i \in 1 .. Len(hist)
    PROVE  hist[i].ver \in Nat /\ hist[i].at \in Nat
<1>1. hist[i] \in EntryType
  BY ElementOfSeq
<1>2. QED BY <1>1 DEF EntryType

\* A trail stays in order while time passes and when its room gets a greater
\* version.
LEMMA TrailLater ==
    ASSUME NEW hist, NEW text, NEW ver \in Nat, NEW time \in Nat, NEW later \in Nat,
           Trail(hist, text, ver, time), time <= later, NEW any
    PROVE  Trail(hist, text, ver, later) /\ Trail(hist, any, ver + 1, later)
<1>1. \A i \in 1 .. Len(hist) : hist[i].ver \in Nat /\ hist[i].at \in Nat
  BY EntryParts DEF Trail
<1>2. InOrder(hist, text, ver, later)
  BY <1>1 DEF Trail, InOrder
<1>3. InOrder(hist, any, ver + 1, later)
  BY <1>1 DEF Trail, InOrder
<1>4. QED BY <1>2, <1>3 DEF Trail

\* The newest entries of a trail are a trail, and within the cap.
LEMMA NewestTrail ==
    ASSUME NEW hist, NEW text, NEW ver, NEW time, Trail(hist, text, ver, time)
    PROVE  Trail(Newest(hist), text, ver, time) /\ Len(Newest(hist)) <= MaxHistory
<1>1. hist \in Seq(EntryType) /\ Len(hist) \in Nat /\ MaxHistory \in Nat
  BY ConstantsAssumption, LenProperties DEF Trail
<1>2. CASE Len(hist) <= MaxHistory
  BY <1>2 DEF Newest
<1>3. CASE Len(hist) > MaxHistory
  <2> DEFINE first == Len(hist) - MaxHistory + 1
             n == SubSeq(hist, first, Len(hist))
  <2>1. Newest(hist) = n
    BY <1>1, <1>3 DEF Newest
  <2>2. first \in 1 .. Len(hist) + 1 /\ Len(hist) - first + 1 = MaxHistory
    BY <1>1, <1>3
  <2>3. ASSUME NEW i \in first .. Len(hist) PROVE hist[i] \in EntryType
    BY <1>1, <2>2, ElementOfSeq
  <2>4. /\ n \in Seq(EntryType) /\ Len(n) = MaxHistory
        /\ \A i \in 1 .. MaxHistory : n[i] = hist[first + i - 1]
    BY <1>1, <2>2, <2>3, SubSeqProperties
  <2> HIDE DEF n
  <2>5. InOrder(n, text, ver, time)
    <3> SUFFICES ASSUME NEW i \in 1 .. MaxHistory
                 PROVE  /\ n[i].text # EmptyText
                        /\ n[i].ver <= ver
                        /\ n[i].ver = ver => n[i].text = text
                        /\ n[i].at <= time
                        /\ i > 1 => /\ n[i].text # n[i - 1].text
                                    /\ n[i].ver > n[i - 1].ver
                                    /\ n[i].at >= n[i - 1].at
      BY <2>4 DEF InOrder
    <3> DEFINE j == first + i - 1
    <3>1. j \in 1 .. Len(hist) /\ n[i] = hist[j]
      BY <1>1, <2>2, <2>4
    <3>2. i > 1 => j > 1 /\ n[i - 1] = hist[j - 1]
      BY <1>1, <2>2, <2>4
    <3> HIDE DEF j
    <3>3. QED BY <3>1, <3>2 DEF Trail, InOrder
  <2>6. QED BY <1>1, <2>1, <2>4, <2>5 DEF Trail
<1>4. QED BY <1>1, <1>2, <1>3

\* maybeCaptureHistoryLocked: a capture of a new version, or of the room as it
\* is (the entry of a version already there holds the same text, so it is not
\* captured twice).
LEMMA CaptureTrail ==
    ASSUME NEW hist, NEW old, NEW was \in Nat, NEW text \in Text, NEW ver \in Nat,
           NEW manual \in BOOLEAN, now \in Nat,
           Trail(hist, old, was, now), Len(hist) <= MaxHistory,
           ver = was + 1 \/ (ver = was /\ text = old)
    PROVE  LET n == Capture(hist, text, ver, manual)
           IN  Trail(n, text, ver, now) /\ Len(n) <= MaxHistory
<1>1. hist \in Seq(EntryType) /\ Len(hist) \in Nat
  BY LenProperties DEF Trail
<1>2. Trail(hist, text, ver, now)
  BY TrailLater
<1>3. CASE ~Captures(hist, text, manual)
  BY <1>2, <1>3 DEF Capture
<1>4. CASE Captures(hist, text, manual)
  <2> DEFINE e == [text |-> text, ver |-> ver, at |-> now]
             longer == Append(hist, e)
  <2>1. e \in EntryType
    BY DEF EntryType
  <2>2. /\ longer \in Seq(EntryType) /\ Len(longer) = Len(hist) + 1
        /\ longer[Len(hist) + 1] = e
        /\ \A i \in 1 .. Len(hist) : longer[i] = hist[i]
    BY <1>1, <2>1, AppendProperties
  <2>3. text # EmptyText
    BY <1>4 DEF Captures
  <2>4. ASSUME Len(hist) > 0
        PROVE  LET last == hist[Len(hist)]
               IN  last.text # text /\ last.ver < ver /\ last.at <= now
    <3>1. hist # << >>
      BY <1>1, <2>4
    <3>2. hist[Len(hist)].text # text
      BY <1>4, <3>1 DEF Captures
    <3>3. Len(hist) \in 1 .. Len(hist)
      BY <1>1, <2>4
    <3>4. hist[Len(hist)].ver \in Nat
      BY <1>1, <3>3, EntryParts
    <3>5. /\ hist[Len(hist)].ver <= ver /\ hist[Len(hist)].at <= now
          /\ hist[Len(hist)].ver = ver => hist[Len(hist)].text = text
      BY <1>2, <3>3 DEF Trail, InOrder
    <3>6. QED BY <3>2, <3>4, <3>5
  <2> HIDE DEF longer
  <2>5. InOrder(longer, text, ver, now)
    <3> SUFFICES ASSUME NEW i \in 1 .. Len(hist) + 1
                 PROVE  /\ longer[i].text # EmptyText
                        /\ longer[i].ver <= ver
                        /\ longer[i].ver = ver => longer[i].text = text
                        /\ longer[i].at <= now
                        /\ i > 1 => /\ longer[i].text # longer[i - 1].text
                                    /\ longer[i].ver > longer[i - 1].ver
                                    /\ longer[i].at >= longer[i - 1].at
      BY <2>2 DEF InOrder
    <3>1. CASE i <= Len(hist)
      <4>1. i \in 1 .. Len(hist) /\ longer[i] = hist[i]
        BY <1>1, <2>2, <3>1
      <4>2. i > 1 => longer[i - 1] = hist[i - 1]
        BY <1>1, <2>2, <4>1
      <4>3. QED BY <1>2, <4>1, <4>2 DEF Trail, InOrder
    <3>2. CASE i = Len(hist) + 1
      <4>1. longer[i] = e
        BY <2>2, <3>2
      <4>2. i > 1 => Len(hist) > 0 /\ longer[i - 1] = hist[Len(hist)]
        BY <1>1, <2>2, <3>2
      <4>3. QED BY <2>3, <2>4, <4>1, <4>2
    <3>3. QED BY <1>1, <3>1, <3>2
  <2>6. Trail(longer, text, ver, now)
    BY <2>2, <2>5 DEF Trail
  <2>7. Capture(hist, text, ver, manual) = Newest(longer)
    BY <1>4 DEF Capture, longer
  <2>8. QED BY <2>6, <2>7, NewestTrail
<1>5. QED BY <1>3, <1>4

-----------------------------------------------------------------------------
(* The actions keep the trails                                             *)

HistoryInv == IInv /\ Trails(store, now)

\* Whoever writes a room with its trail in order keeps all of them so.
LEMMA WriteTrails ==
    ASSUME NEW st \in StoreType, NEW k \in Key, NEW r, Trails(st, now), RoomTrail(r, now)
    PROVE  /\ Trails(Put(st, k, r), now) /\ Trails(PutIfAccepted(st, k, r), now)
           /\ Trails(Refresh(st, k, r), now) /\ Trails(Rewrite(st, k, r), now)
<1>1. /\ Put(st, k, r).items = [st.items EXCEPT ![k] = r]
      /\ Refresh(st, k, r).items = [st.items EXCEPT ![k] = r]
      /\ Rewrite(st, k, r).items = [st.items EXCEPT ![k] = r]
  BY DEF Put, Rewrite, Refresh, StoreType
<1>2. ASSUME NEW n, n.items = [st.items EXCEPT ![k] = r] PROVE Trails(n, now)
  BY <1>2 DEF Trails, StoreType
<1>3. QED BY <1>1, <1>2 DEF PutIfAccepted

LEMMA RemoveTrails ==
    ASSUME NEW st \in StoreType, Trails(st, now), NEW ks \in SUBSET Key
    PROVE  Trails(Remove(st, ks), now)
<1>1. Remove(st, ks).items = [k \in Key |-> IF k \in ks THEN None ELSE st.items[k]]
  BY DEF Remove, StoreType
<1>2. QED BY <1>1 DEF Trails

LEMMA GetLiveTrails ==
    ASSUME HistoryInv, NEW k \in Key
    PROVE  Trails(GetLive(k), now)
BY RemoveTrails DEF GetLive, HistoryInv, IInv, TypeOK

\* What the commits have in common.
LEMMA CommitTrails ==
    ASSUME HistoryInv, NEW h \in Handler, pending[h] # None
    PROVE  LET k == pending[h].key
               live == GetLive(k)
               st == WithGeneration(live, k)
           IN  /\ IInv /\ k \in Key /\ now \in Nat /\ pending[h] \in RequestType
               /\ live \in StoreType /\ Trails(live, now)
               /\ st \in StoreType /\ Trails(st, now)
<1> DEFINE k == pending[h].key
           live == GetLive(k)
           st == WithGeneration(live, k)
<1>1. /\ IInv /\ k \in Key /\ now \in Nat /\ pending[h] \in RequestType
      /\ StoreInv(live) /\ live \in StoreType
  BY CommitParts DEF HistoryInv
<1>2. Trails(live, now)
  BY <1>1, GetLiveTrails
<1> HIDE DEF live
<1>3. StoreInv(st) /\ st.items = live.items
  BY <1>1, WithGenerationInv
<1>4. Trails(st, now)
  BY <1>2, <1>3 DEF Trails
<1>5. QED BY <1>1, <1>2, <1>3, <1>4 DEF StoreInv, live

\* The trail of the room at a key, empty if there is none.
LEMMA TrailOf ==
    ASSUME NEW st \in StoreType, NEW k \in Key, Trails(st, now), now \in Nat
    PROVE  \E old : /\ Trail(HistoryOf(st, k), old, Version(st, k), now)
                    /\ Len(HistoryOf(st, k)) <= MaxHistory
<1>1. CASE st.items[k] = None
  <2>1. HistoryOf(st, k) = << >> /\ MaxHistory \in Nat
    BY <1>1, ConstantsAssumption DEF HistoryOf
  <2>2. << >> \in Seq(EntryType) /\ Len(<< >>) = 0
    BY EmptySeq
  <2>3. QED BY <2>1, <2>2 DEF Trail, InOrder
<1>2. CASE st.items[k] # None
  BY <1>2 DEF Trails, RoomTrail, HistoryOf, Version
<1>3. QED BY <1>1, <1>2

\* A refreshed room keeps its text and trail, and its version or a later one.
LEMMA RefreshedTrail ==
    ASSUME NEW r \in RoomType, RoomTrail(r, now), now \in Nat, NEW n,
           n.text = r.text, n.hist = r.hist, n.ver \in {r.ver, r.ver + 1}
    PROVE  RoomTrail(n, now)
<1>1. r.ver \in Nat
  BY DEF RoomType
<1>2. Trail(r.hist, r.text, r.ver, now) /\ Trail(r.hist, r.text, r.ver + 1, now)
  BY <1>1, TrailLater DEF RoomTrail
<1>3. QED BY <1>2 DEF RoomTrail

LEMMA SaveRefreshesTrails ==
    ASSUME HistoryInv, NEW h \in Handler, SaveRefreshes(h)
    PROVE  Trails(store', now)
<1> DEFINE p == pending[h]
           k == p.key
           st == WithGeneration(GetLive(k), k)
           r == st.items[k]
           lock == ClaimedLock(r.lock, p)
           fresh == [r EXCEPT !.exp = now + p.ttl]
           claimed == [fresh EXCEPT !.lock = lock, !.ver = @ + 1]
<1>1. /\ p # None /\ SaveIsIdentical(st, p)
      /\ store' = IF lock = r.lock THEN Refresh(st, k, fresh) ELSE Rewrite(st, k, claimed)
  BY DEF SaveRefreshes, SaveAdmitted, Committing
<1>2. k \in Key /\ now \in Nat /\ st \in StoreType /\ Trails(st, now)
  BY <1>1, CommitTrails
<1>3. r # None
  BY <1>1 DEF SaveIsIdentical
<1> HIDE DEF p, k, st, lock
<1>4. r \in RoomType /\ RoomTrail(r, now)
  BY <1>2, <1>3, PartsType DEF Trails
<1> HIDE DEF r
<1>5. /\ fresh.text = r.text /\ fresh.hist = r.hist /\ fresh.ver = r.ver
      /\ claimed.text = r.text /\ claimed.hist = r.hist /\ claimed.ver = r.ver + 1
  BY <1>4 DEF RoomType
<1> HIDE DEF fresh, claimed
<1>6. RoomTrail(fresh, now) /\ RoomTrail(claimed, now)
  BY <1>2, <1>4, <1>5, RefreshedTrail
<1>7. Trails(Refresh(st, k, fresh), now) /\ Trails(Rewrite(st, k, claimed), now)
  BY <1>2, <1>6, WriteTrails
<1>8. QED BY <1>1, <1>7

LEMMA SaveReplacesTrails ==
    ASSUME HistoryInv, NEW h \in Handler, SaveReplaces(h)
    PROVE  Trails(store', now)
<1> DEFINE p == pending[h]
           k == p.key
           st == WithGeneration(GetLive(k), k)
           ver == VersionAfterReplace(st, k)
           hist == Capture(HistoryOf(st, k), p.text, ver, FALSE)
           r == [text |-> p.text, items |-> TextLen[p.text], ttl |-> p.ttl,
                 exp |-> now + p.ttl, ver |-> ver, gen |-> Generation(st, k),
                 lock |-> ClaimedLock(LockOf(st, k), p), hist |-> hist]
<1>1. p # None /\ store' = PutIfAccepted(st, k, r)
  BY DEF SaveReplaces, SaveAdmitted, Committing
<1>2. k \in Key /\ now \in Nat /\ st \in StoreType /\ Trails(st, now) /\ p \in RequestType
  BY <1>1, CommitTrails
<1>3. p.text \in Text
  BY <1>2 DEF RequestType, AnyRequest
<1> HIDE DEF p, k, st
<1>4. Version(st, k) \in Nat /\ ver = Version(st, k) + 1 /\ ver \in Nat
  BY <1>2, PartsType DEF VersionAfterReplace
<1>5. Trail(hist, p.text, ver, now) /\ Len(hist) <= MaxHistory
  BY <1>2, <1>3, <1>4, TrailOf, CaptureTrail
<1>6. r.hist = hist /\ r.text = p.text /\ r.ver = ver
  OBVIOUS
<1> HIDE DEF r, hist, ver
<1>7. RoomTrail(r, now)
  BY <1>5, <1>6 DEF RoomTrail
<1>8. QED BY <1>1, <1>2, <1>7, WriteTrails

LEMMA OpsRefreshTrails ==
    ASSUME HistoryInv, NEW h \in Handler, OpsRefresh(h)
    PROVE  Trails(store', now)
<1> DEFINE p == pending[h]
           k == p.key
           st == WithGeneration(GetLive(k), k)
           r == st.items[k]
           ttl == NewTTL(st, p)
           fresh == [r EXCEPT !.ttl = ttl, !.exp = now + ttl]
           moved == [fresh EXCEPT !.ver = @ + 1]
<1>1. /\ p # None /\ r # None
      /\ store' = IF ttl = r.ttl THEN Refresh(st, k, fresh) ELSE Rewrite(st, k, moved)
  BY DEF OpsRefresh, OpsAdmitted, Committing
<1>2. k \in Key /\ now \in Nat /\ st \in StoreType /\ Trails(st, now)
  BY <1>1, CommitTrails
<1> HIDE DEF p, k, st, ttl
<1>3. r \in RoomType /\ RoomTrail(r, now)
  BY <1>1, <1>2, PartsType DEF Trails
<1> HIDE DEF r
<1>4. /\ fresh.text = r.text /\ fresh.hist = r.hist /\ fresh.ver = r.ver
      /\ moved.text = r.text /\ moved.hist = r.hist /\ moved.ver = r.ver + 1
  BY <1>3 DEF RoomType
<1> HIDE DEF fresh, moved
<1>5. RoomTrail(fresh, now) /\ RoomTrail(moved, now)
  BY <1>2, <1>3, <1>4, RefreshedTrail
<1>6. Trails(Refresh(st, k, fresh), now) /\ Trails(Rewrite(st, k, moved), now)
  BY <1>2, <1>5, WriteTrails
<1>7. QED BY <1>1, <1>6

LEMMA OpsCreateTrails ==
    ASSUME HistoryInv, NEW h \in Handler, OpsCreate(h)
    PROVE  Trails(store', now)
<1> DEFINE p == pending[h]
           k == p.key
           st == WithGeneration(GetLive(k), k)
           r == [text |-> EmptyText, items |-> 0, ttl |-> p.ttl, exp |-> now + p.ttl,
                 ver |-> 1, gen |-> Generation(st, k), lock |-> NoLock, hist |-> << >>]
<1>1. p # None /\ store' = PutIfAccepted(st, k, r)
  BY DEF OpsCreate, OpsAdmitted, Committing
<1>2. k \in Key /\ st \in StoreType /\ Trails(st, now)
  BY <1>1, CommitTrails
<1>3. << >> \in Seq(EntryType) /\ Len(<< >>) = 0 /\ MaxHistory \in Nat
  BY EmptySeq, ConstantsAssumption
<1>4. r.hist = << >>
  OBVIOUS
<1> HIDE DEF r, k, st
<1>5. RoomTrail(r, now)
  BY <1>3, <1>4 DEF RoomTrail, Trail, InOrder
<1>6. QED BY <1>1, <1>2, <1>5, WriteTrails

LEMMA OpsChangeTrails ==
    ASSUME HistoryInv, NEW h \in Handler, OpsChange(h)
    PROVE  Trails(store', now)
<1> DEFINE p == pending[h]
           k == p.key
           st == WithGeneration(GetLive(k), k)
           r == st.items[k]
           ttl == NewTTL(st, p)
           ver == Version(st, k) + 1
           B == IF r = None THEN Batches(EmptyText, 0) ELSE Batches(r.text, r.items)
           hist(d) == Capture(HistoryOf(st, k), d.text, ver, FALSE)
           n(d) == [text |-> d.text, items |-> d.items, ttl |-> ttl, exp |-> now + ttl,
                    ver |-> ver, gen |-> Generation(st, k), lock |-> LockOf(st, k),
                    hist |-> hist(d)]
<1>1. p # None /\ \E d \in B : store' = PutIfAccepted(st, k, n(d))
  BY DEF OpsChange, OpsAdmitted, Committing
<1>2. PICK d \in B : store' = PutIfAccepted(st, k, n(d))
  BY <1>1
<1>3. k \in Key /\ now \in Nat /\ st \in StoreType /\ Trails(st, now)
  BY <1>1, CommitTrails
<1> HIDE DEF p, k, st, ttl
<1>4. d.text \in Text
  <2>1. ASSUME NEW text, NEW items, d \in Batches(text, items) PROVE d.text \in Text
    BY <2>1 DEF Batches
  <2>2. QED BY <2>1
<1>5. Version(st, k) \in Nat /\ ver \in Nat
  BY <1>3, PartsType
<1>6. Trail(hist(d), d.text, ver, now) /\ Len(hist(d)) <= MaxHistory
  BY <1>3, <1>4, <1>5, TrailOf, CaptureTrail
<1>7. n(d).hist = hist(d) /\ n(d).text = d.text /\ n(d).ver = ver
  OBVIOUS
<1> HIDE DEF n, hist, ver
<1>8. RoomTrail(n(d), now)
  BY <1>6, <1>7 DEF RoomTrail
<1>9. QED BY <1>2, <1>3, <1>8, WriteTrails

LEMMA CaptureHistoryTrails ==
    ASSUME HistoryInv, NEW h \in Handler, CaptureHistory(h) \/ ClearHistory(h)
    PROVE  Trails(store', now)
<1> DEFINE k == pending[h].key
           live == GetLive(k)
           r == live.items[k]
           hist == Capture(r.hist, r.text, r.ver, TRUE)
           captured == [r EXCEPT !.hist = Capture(@, r.text, r.ver, TRUE)]
           cleared == [r EXCEPT !.hist = << >>]
<1>1. pending[h] # None
  BY DEF CaptureHistory, ClearHistory, Committing
<1>2. k \in Key /\ now \in Nat /\ live \in StoreType /\ Trails(live, now)
  BY <1>1, CommitTrails
<1>3. \/ store' = live
      \/ r # None /\ store' = PutIfAccepted(live, k, captured)
      \/ r # None /\ store' = Put(live, k, cleared)
  BY DEF CaptureHistory, ClearHistory
<1> HIDE DEF k, live
<1>4. CASE r # None
  <2>1. r \in RoomType /\ RoomTrail(r, now)
    BY <1>2, <1>4, PartsType DEF Trails
  <2>2. r.ver \in Nat /\ r.text \in Text
    BY <2>1 DEF RoomType
  <2>3. Trail(hist, r.text, r.ver, now) /\ Len(hist) <= MaxHistory
    BY <1>2, <2>1, <2>2, CaptureTrail DEF RoomTrail
  <2>4. << >> \in Seq(EntryType) /\ Len(<< >>) = 0 /\ MaxHistory \in Nat
    BY EmptySeq, ConstantsAssumption
  <2>5. /\ captured.hist = hist /\ captured.text = r.text /\ captured.ver = r.ver
        /\ cleared.hist = << >>
    BY <2>1 DEF RoomType
  <2> HIDE DEF captured, cleared, hist
  <2>6. RoomTrail(captured, now) /\ RoomTrail(cleared, now)
    BY <2>3, <2>4, <2>5 DEF RoomTrail, Trail, InOrder
  <2>7. Trails(PutIfAccepted(live, k, captured), now) /\ Trails(Put(live, k, cleared), now)
    BY <1>2, <2>6, WriteTrails
  <2>8. QED BY <1>2, <1>3, <2>7
<1>5. QED BY <1>2, <1>3, <1>4

\* SetPassword moves the version and keeps the trail.
LEMMA RelockTrails ==
    ASSUME HistoryInv, NEW k \in Key, NEW current, NEW lock, Relock(k, current, lock)
    PROVE  Trails(store', now)
<1> DEFINE live == GetLive(k)
           r == live.items[k]
           n == [r EXCEPT !.lock = lock, !.ver = @ + 1]
<1>1. r # None /\ store' = Rewrite(live, k, n)
  BY DEF Relock
<1>2. live \in StoreType /\ Trails(live, now) /\ now \in Nat
  BY GetLiveInv, GetLiveTrails DEF HistoryInv, IInv, StoreInv, TypeOK
<1> HIDE DEF live
<1>3. r \in RoomType /\ RoomTrail(r, now)
  BY <1>1, <1>2, PartsType DEF Trails
<1>4. n.text = r.text /\ n.hist = r.hist /\ n.ver = r.ver + 1
  BY <1>3 DEF RoomType
<1> HIDE DEF n
<1>5. RoomTrail(n, now)
  BY <1>2, <1>3, <1>4, RefreshedTrail
<1>6. QED BY <1>1, <1>2, <1>5, WriteTrails

LEMMA HistoryInit == Init => HistoryInv
<1> SUFFICES ASSUME Init PROVE HistoryInv
  OBVIOUS
<1>1. \A k \in Key : store.items[k] = None
  BY DEF Init
<1>2. QED BY <1>1, InitInv DEF HistoryInv, Trails

LEMMA HistoryNext == HistoryInv /\ [Next]_vars => HistoryInv'
<1> SUFFICES ASSUME HistoryInv, [Next]_vars PROVE HistoryInv'
  OBVIOUS
<1>1. IInv /\ IInv' /\ Trails(store, now) /\ store \in StoreType /\ now \in Nat
  BY NextInv DEF HistoryInv, IInv, TypeOK
<1>2. ASSUME Trails(store', now), now' = now PROVE HistoryInv'
  BY <1>1, <1>2 DEF HistoryInv
<1>3. ASSUME NEW h \in Handler, Commit(h) PROVE HistoryInv'
  <2>1. pending[h] # None /\ Answer(h)
    BY <1>3 DEF Commit, SaveRejected, SaveRefreshes, SaveReplaces, SaveAdmitted,
       OpsRejected, OpsFail, OpsRefresh, OpsCreate, OpsChange, OpsAdmitted, DeleteAuth,
       CaptureHistory, ClearHistory, Committing
  <2>2. LET k == pending[h].key
            live == GetLive(k)
        IN  /\ k \in Key /\ live \in StoreType /\ Trails(live, now)
            /\ Trails(WithGeneration(live, k), now)
            /\ Trails(Remove(live, {k}), now)
    BY <2>1, CommitTrails, RemoveTrails
  <2>3. ASSUME SaveRejected(h) PROVE Trails(store', now)
    BY <1>1, <2>2, <2>3 DEF SaveRejected
  <2>4. ASSUME SaveRefreshes(h) \/ SaveReplaces(h) PROVE Trails(store', now)
    BY <2>4, SaveRefreshesTrails, SaveReplacesTrails
  <2>5. ASSUME OpsRejected(h) \/ OpsFail(h) PROVE Trails(store', now)
    BY <2>2, <2>5 DEF OpsRejected, OpsFail
  <2>6. ASSUME OpsRefresh(h) \/ OpsCreate(h) \/ OpsChange(h) PROVE Trails(store', now)
    BY <2>6, OpsRefreshTrails, OpsCreateTrails, OpsChangeTrails
  <2>7. ASSUME DeleteAuth(h) PROVE Trails(store', now)
    BY <2>2, <2>7 DEF DeleteAuth
  <2>8. ASSUME CaptureHistory(h) \/ ClearHistory(h) PROVE Trails(store', now)
    BY <2>8, CaptureHistoryTrails
  <2>9. Trails(store', now)
    BY <1>3, <2>3, <2>4, <2>5, <2>6, <2>7, <2>8 DEF Commit
  <2>10. QED BY <1>2, <2>1, <2>9 DEF Answer
<1>4. ASSUME NEW k \in Key, store' = GetLive(k), now' = now PROVE HistoryInv'
  BY <1>2, <1>4, GetLiveTrails
<1>5. ASSUME NEW h \in Handler, Handle(h) PROVE HistoryInv'
  <2>1. ASSUME NEW k \in Key, NEW p \in Requests(h, k), Begin(h, p)
        PROVE  store' = GetLive(k) /\ now' = now
    BY <1>1, <2>1, RequestsType DEF Begin
  <2>2. QED BY <1>3, <1>4, <1>5, <2>1 DEF Handle, Get, AuthCredential
<1>6. ASSUME NEW k \in Key, SetPassword(k) PROVE HistoryInv'
  <2>1. PICK current \in Password \cup {None}, lock \in LockType : Relock(k, current, lock)
    BY <1>1, <1>6, SetPasswordRelocks
  <2>2. QED BY <1>2, <2>1, RelockTrails DEF Relock
<1>7. ASSUME NEW k \in Key, Peek(k) PROVE HistoryInv'
  BY <1>4, <1>7 DEF Peek
<1>8. CASE CleanupExpired
  <2>1. Expired(store) \in SUBSET Key
    BY DEF Expired, Present
  <2>2. QED BY <1>1, <1>2, <1>8, <2>1, RemoveTrails DEF CleanupExpired
<1>9. CASE Tick
  <2>1. now' = now + 1 /\ store' = store
    BY <1>9 DEF Tick
  <2>2. ASSUME NEW k \in Key, store.items[k] # None PROVE RoomTrail(store.items[k], now + 1)
    <3>1. RoomTrail(store.items[k], now) /\ store.items[k].ver \in Nat
      BY <1>1, <2>2 DEF Trails, StoreType, RoomType
    <3> DEFINE r == store.items[k]
               later == now + 1
    <3>2. later \in Nat /\ now <= later
      BY <1>1
    <3> HIDE DEF later
    <3>3. Trail(r.hist, r.text, r.ver, later)
      BY <1>1, <3>1, <3>2, TrailLater DEF RoomTrail
    <3>4. QED BY <3>1, <3>3 DEF RoomTrail, later
  <2>3. QED BY <1>1, <2>1, <2>2 DEF HistoryInv, Trails
<1>10. CASE UNCHANGED vars
  BY <1>1, <1>2, <1>10 DEF vars
<1>11. QED BY <1>5, <1>6, <1>7, <1>8, <1>9, <1>10 DEF Next

\* The trail of every room is capped and in order, and an entry of the room's
\* version holds its text, whatever saves, batches, captures and password
\* changes do to versions between two entries.
THEOREM HistoryInOrder == Spec => []HistoryOrdered
<1>1. Spec => []HistoryInv
  BY HistoryInit, HistoryNext, PTL DEF Spec
<1>2. HistoryInv => HistoryOrdered
  <2> SUFFICES ASSUME HistoryInv, NEW k \in Key, store.items[k] # None
               PROVE  LET r == store.items[k]
                      IN  /\ Len(r.hist) <= MaxHistory
                          /\ \A i \in DOMAIN r.hist :
                               /\ r.hist[i].text # EmptyText
                               /\ r.hist[i].ver <= r.ver
                               /\ r.hist[i].ver = r.ver => r.hist[i].text = r.text
                               /\ i > 1 => /\ r.hist[i].text # r.hist[i - 1].text
                                           /\ r.hist[i].ver > r.hist[i - 1].ver
                                           /\ r.hist[i].at >= r.hist[i - 1].at
    BY DEF HistoryOrdered, Present
  <2>1. RoomTrail(store.items[k], now)
    BY DEF HistoryInv, Trails
  <2>2. DOMAIN store.items[k].hist = 1 .. Len(store.items[k].hist)
    BY <2>1, LenProperties DEF RoomTrail, Trail
  <2>3. QED BY <2>1, <2>2 DEF RoomTrail, Trail, InOrder
<1>3. QED BY <1>1, <1>2, PTL

-----------------------------------------------------------------------------
(* What a commit writes                                                    *)

\* n is st with at most the room of request p written or removed; the lock
\* stays, or is what p claimed.
WritesRoom(st, p, n) ==
    \/ n.items = st.items
    \/ n.items = [st.items EXCEPT ![p.key] = None]
    \/ \E r : /\ n.items = [st.items EXCEPT ![p.key] = r]
              /\ r.lock \in {LockOf(st, p.key), ClaimedLock(LockOf(st, p.key), p)}

\* newGenerationLocked and existingGenerationLocked touch no room.
LEMMA SameRooms ==
    ASSUME NEW st, StoreInv(st), NEW k \in Key
    PROVE  LET m == WithGeneration(st, k)
           IN  m \in StoreType /\ m.items = st.items /\ LockOf(m, k) = LockOf(st, k)
BY WithGenerationInv DEF StoreInv, LockOf

\* The writes of one room.
LEMMA WritesOne ==
    ASSUME NEW st, NEW m \in StoreType, m.items = st.items, NEW p, NEW r,
           r.lock \in {LockOf(st, p.key), ClaimedLock(LockOf(st, p.key), p)}
    PROVE  /\ WritesRoom(st, p, Put(m, p.key, r))
           /\ WritesRoom(st, p, PutIfAccepted(m, p.key, r))
           /\ WritesRoom(st, p, Refresh(m, p.key, r))
           /\ WritesRoom(st, p, Rewrite(m, p.key, r))
<1>1. Put(m, p.key, r).items = [st.items EXCEPT ![p.key] = r]
  BY DEF Put, StoreType
<1>2. Refresh(m, p.key, r).items = [st.items EXCEPT ![p.key] = r]
  BY DEF Refresh, StoreType
<1>3. Rewrite(m, p.key, r).items = [st.items EXCEPT ![p.key] = r]
  BY DEF Rewrite, Refresh, StoreType
<1>4. WritesRoom(st, p, m) /\ WritesRoom(st, p, Put(m, p.key, r))
  BY <1>1 DEF WritesRoom
<1>5. WritesRoom(st, p, Refresh(m, p.key, r)) /\ WritesRoom(st, p, Rewrite(m, p.key, r))
  BY <1>2, <1>3 DEF WritesRoom
<1>6. QED BY <1>4, <1>5 DEF PutIfAccepted

LEMMA SaveWrites ==
    ASSUME IInv, NEW h \in Handler, SaveRefreshes(h) \/ SaveReplaces(h)
    PROVE  WritesRoom(GetLive(pending[h].key), pending[h], store')
<1> DEFINE p == pending[h]
           k == p.key
           live == GetLive(k)
           st == WithGeneration(live, k)
<1>1. p # None
  BY DEF SaveRefreshes, SaveReplaces, SaveAdmitted, Committing
<1>2. k \in Key /\ StoreInv(live) /\ live \in StoreType
  BY <1>1, CommitParts
<1>3. st \in StoreType /\ st.items = live.items /\ LockOf(st, k) = LockOf(live, k)
  BY <1>2, SameRooms
<1>4. CASE SaveRefreshes(h)
  <2> DEFINE r == st.items[k]
             lock == ClaimedLock(r.lock, p)
             fresh == [r EXCEPT !.exp = now + p.ttl]
             claimed == [fresh EXCEPT !.lock = lock, !.ver = @ + 1]
  <2>1. /\ SaveIsIdentical(st, p)
        /\ store' = IF lock = r.lock THEN Refresh(st, k, fresh) ELSE Rewrite(st, k, claimed)
    BY <1>4 DEF SaveRefreshes
  <2>2. r # None /\ r \in RoomType /\ LockOf(live, k) = r.lock
    BY <1>2, <1>3, <2>1, PartsType DEF SaveIsIdentical, LockOf
  <2> HIDE DEF r, st, live, lock
  <2>3. fresh.lock = r.lock /\ claimed.lock = lock
    BY <2>2 DEF RoomType
  <2> HIDE DEF fresh, claimed
  <2>4. WritesRoom(live, p, Refresh(st, k, fresh)) /\ WritesRoom(live, p, Rewrite(st, k, claimed))
    BY <1>3, <2>2, <2>3, WritesOne DEF lock
  <2>5. QED BY <2>1, <2>4 DEF live
<1>5. CASE SaveReplaces(h)
  <2> DEFINE ver == VersionAfterReplace(st, k)
             lock == ClaimedLock(LockOf(st, k), p)
             r == [text |-> p.text, items |-> TextLen[p.text], ttl |-> p.ttl,
                   exp |-> now + p.ttl, ver |-> ver, gen |-> Generation(st, k),
                   lock |-> lock,
                   hist |-> Capture(HistoryOf(st, k), p.text, ver, FALSE)]
  <2>1. store' = PutIfAccepted(st, k, r)
    BY <1>5 DEF SaveReplaces
  <2>2. r.lock = ClaimedLock(LockOf(live, k), p)
    BY <1>3
  <2> HIDE DEF r, st, live
  <2>3. WritesRoom(live, p, PutIfAccepted(st, k, r))
    BY <1>3, <2>2, WritesOne
  <2>4. QED BY <2>1, <2>3 DEF live
<1>6. QED BY <1>4, <1>5

LEMMA OpsWrites ==
    ASSUME IInv, NEW h \in Handler, OpsFail(h) \/ OpsRefresh(h) \/ OpsCreate(h) \/ OpsChange(h)
    PROVE  WritesRoom(GetLive(pending[h].key), pending[h], store')
<1> DEFINE p == pending[h]
           k == p.key
           live == GetLive(k)
           st == WithGeneration(live, k)
           r == st.items[k]
           ttl == NewTTL(st, p)
<1>1. p # None
  BY DEF OpsFail, OpsRefresh, OpsCreate, OpsChange, OpsAdmitted, Committing
<1>2. k \in Key /\ StoreInv(live) /\ live \in StoreType
  BY <1>1, CommitParts
<1>3. st \in StoreType /\ st.items = live.items /\ LockOf(st, k) = LockOf(live, k)
  BY <1>2, SameRooms
<1>4. CASE OpsFail(h)
  <2>1. store' = st
    BY <1>4 DEF OpsFail
  <2>2. QED BY <1>3, <2>1 DEF WritesRoom
<1>5. CASE OpsRefresh(h)
  <2> DEFINE fresh == [r EXCEPT !.ttl = ttl, !.exp = now + ttl]
             moved == [fresh EXCEPT !.ver = @ + 1]
  <2>1. /\ r # None
        /\ store' = IF ttl = r.ttl THEN Refresh(st, k, fresh) ELSE Rewrite(st, k, moved)
    BY <1>5 DEF OpsRefresh
  <2>2. r \in RoomType /\ LockOf(live, k) = r.lock
    BY <1>2, <1>3, <2>1, PartsType DEF LockOf
  <2> HIDE DEF r, st, live, ttl
  <2>3. fresh.lock = r.lock /\ moved.lock = r.lock
    BY <2>2 DEF RoomType
  <2> HIDE DEF fresh, moved
  <2>4. WritesRoom(live, p, Refresh(st, k, fresh)) /\ WritesRoom(live, p, Rewrite(st, k, moved))
    BY <1>3, <2>2, <2>3, WritesOne
  <2>5. QED BY <2>1, <2>4 DEF live
<1>6. CASE OpsCreate(h)
  <2> DEFINE n == [text |-> EmptyText, items |-> 0, ttl |-> p.ttl, exp |-> now + p.ttl,
                   ver |-> 1, gen |-> Generation(st, k), lock |-> NoLock, hist |-> << >>]
  <2>1. r = None /\ store' = PutIfAccepted(st, k, n)
    BY <1>6 DEF OpsCreate
  <2>2. n.lock = LockOf(live, k)
    BY <1>3, <2>1 DEF LockOf
  <2> HIDE DEF n, st, live
  <2>3. WritesRoom(live, p, PutIfAccepted(st, k, n))
    BY <1>3, <2>2, WritesOne
  <2>4. QED BY <2>1, <2>3 DEF live
<1>7. CASE OpsChange(h)
  <2> DEFINE ver == Version(st, k) + 1
             B == IF r = None THEN Batches(EmptyText, 0) ELSE Batches(r.text, r.items)
             n(d) == [text |-> d.text, items |-> d.items, ttl |-> ttl, exp |-> now + ttl,
                      ver |-> ver, gen |-> Generation(st, k), lock |-> LockOf(st, k),
                      hist |-> Capture(HistoryOf(st, k), d.text, ver, FALSE)]
  <2>1. \E d \in B : store' = PutIfAccepted(st, k, n(d))
    BY <1>7 DEF OpsChange
  <2>2. PICK d \in B : store' = PutIfAccepted(st, k, n(d))
    BY <2>1
  <2>3. n(d).lock = LockOf(live, k)
    BY <1>3
  <2> HIDE DEF n, st, live
  <2>4. WritesRoom(live, p, PutIfAccepted(st, k, n(d)))
    BY <1>3, <2>3, WritesOne
  <2>5. QED BY <2>2, <2>4 DEF live
<1>8. QED BY <1>4, <1>5, <1>6, <1>7

LEMMA TrailWrites ==
    ASSUME IInv, NEW h \in Handler, CaptureHistory(h) \/ ClearHistory(h)
    PROVE  WritesRoom(GetLive(pending[h].key), pending[h], store')
<1> DEFINE p == pending[h]
           k == p.key
           live == GetLive(k)
           r == live.items[k]
           captured == [r EXCEPT !.hist = Capture(@, r.text, r.ver, TRUE)]
           cleared == [r EXCEPT !.hist = << >>]
<1>1. p # None
  BY DEF CaptureHistory, ClearHistory, Committing
<1>2. k \in Key /\ live \in StoreType
  BY <1>1, CommitParts
<1>3. \/ store' = live
      \/ r # None /\ store' = PutIfAccepted(live, k, captured)
      \/ r # None /\ store' = Put(live, k, cleared)
  BY DEF CaptureHistory, ClearHistory
<1> HIDE DEF live
<1>4. CASE store' = live
  BY <1>4 DEF live, WritesRoom
<1>5. CASE r # None
  <2>1. r \in RoomType /\ LockOf(live, k) = r.lock
    BY <1>2, <1>5, PartsType DEF LockOf
  <2>2. captured.lock = r.lock /\ cleared.lock = r.lock
    BY <2>1 DEF RoomType
  <2> HIDE DEF captured, cleared, r
  <2>3. /\ WritesRoom(live, p, PutIfAccepted(live, k, captured))
        /\ WritesRoom(live, p, Put(live, k, cleared))
    BY <1>2, <2>1, <2>2, WritesOne
  <2>4. QED BY <1>3, <1>4, <2>3 DEF live
<1>6. QED BY <1>3, <1>4, <1>5

\* A commit writes the room of its request and only when confirmAuthLocked
\* has let it, or it changes no more than getLiveLocked.
LEMMA CommitWrites ==
    ASSUME IInv, NEW h \in Handler, Commit(h)
    PROVE  LET p == pending[h]
               live == GetLive(p.key)
           IN  /\ p # None /\ pending' = [pending EXCEPT ![h] = None]
               /\ UNCHANGED <<now, session, salts>>
               /\ \/ store' \in {store, live}
                  \/ Confirmed(live, p) /\ WritesRoom(live, p, store')
<1> DEFINE p == pending[h]
           live == GetLive(p.key)
<1>1. p # None
  <2>1. CASE SaveRejected(h) \/ SaveRefreshes(h) \/ SaveReplaces(h)
    BY <2>1 DEF SaveRejected, SaveRefreshes, SaveReplaces, SaveAdmitted, Committing
  <2>2. CASE OpsRejected(h) \/ OpsFail(h) \/ OpsRefresh(h)
    BY <2>2 DEF OpsRejected, OpsFail, OpsRefresh, OpsAdmitted, Committing
  <2>3. CASE OpsCreate(h) \/ OpsChange(h)
    BY <2>3 DEF OpsCreate, OpsChange, OpsAdmitted, Committing
  <2>4. CASE DeleteAuth(h) \/ CaptureHistory(h) \/ ClearHistory(h)
    BY <2>4 DEF DeleteAuth, CaptureHistory, ClearHistory, Committing
  <2>5. QED BY <2>1, <2>2, <2>3, <2>4 DEF Commit
<1>2. Answer(h)
  BY DEF Commit, SaveRejected, SaveRefreshes, SaveReplaces, OpsRejected, OpsFail,
         OpsRefresh, OpsCreate, OpsChange, DeleteAuth, CaptureHistory, ClearHistory
<1>3. CASE SaveRejected(h) \/ OpsRejected(h)
  <2>1. store' \in {store, live}
    BY <1>3 DEF SaveRejected, OpsRejected
  <2>2. QED BY <1>1, <1>2, <2>1 DEF Answer
<1>4. CASE SaveRefreshes(h) \/ SaveReplaces(h)
  <2>1. Confirmed(live, p)
    BY <1>4 DEF SaveRefreshes, SaveReplaces, SaveAdmitted
  <2>2. QED BY <1>1, <1>2, <1>4, <2>1, SaveWrites DEF Answer
<1>5. CASE OpsFail(h) \/ OpsRefresh(h) \/ OpsCreate(h) \/ OpsChange(h)
  <2>1. Confirmed(live, p)
    BY <1>5 DEF OpsFail, OpsRefresh, OpsCreate, OpsChange, OpsAdmitted
  <2>2. QED BY <1>1, <1>2, <1>5, <2>1, OpsWrites DEF Answer
<1>6. CASE DeleteAuth(h)
  <2>1. live \in StoreType
    BY <1>1, CommitParts
  <2>2. CASE Confirmed(live, p)
    <3>1. store' = Remove(live, {p.key})
      BY <1>6, <2>2 DEF DeleteAuth
    <3>2. store'.items = [live.items EXCEPT ![p.key] = None]
      BY <2>1, <3>1 DEF Remove, StoreType
    <3>3. QED BY <1>1, <1>2, <2>2, <3>2 DEF Answer, WritesRoom
  <2>3. CASE ~Confirmed(live, p)
    BY <1>1, <1>2, <1>6, <2>3 DEF DeleteAuth, Answer
  <2>4. QED BY <2>2, <2>3
<1>7. CASE CaptureHistory(h) \/ ClearHistory(h)
  <2>1. store' = live \/ Confirmed(live, p)
    BY <1>7 DEF CaptureHistory, ClearHistory
  <2>2. QED BY <1>1, <1>2, <1>7, <2>1, TrailWrites DEF Answer
<1>8. QED BY <1>3, <1>4, <1>5, <1>6, <1>7 DEF Commit

-----------------------------------------------------------------------------
(* The salts                                                               *)

\* f gives the password each salt was taken with; n salts are taken.
Named(f, n, salt, passwords) == salt # 0 => salt <= n /\ f[salt] \in passwords

RoomsNamed(f, n, st) ==
    \A k \in Key : Named(f, n, LockOf(st, k).salt, {LockOf(st, k).pw})

\* A pre-check left the salt of the lock whose password the caller presented.
RequestNamed(f, n, p) ==
    p # None => /\ Named(f, n, p.cred, {p.proved})
                /\ Named(f, n, p.claimSalt, {p.claim})
                /\ Named(f, n, p.expected, {p.password, p.proved})

AllNamed(f) ==
    /\ RoomsNamed(f, salts, store)
    /\ \A h \in Handler : /\ Named(f, salts, session[h].cred, {session[h].proved})
                          /\ RequestNamed(f, salts, pending[h])

Naming == [Nat -> Password \cup {None}]

\* AuthorizedWrites is about passwords and the code compares salts: it holds
\* because every salt has one password, wherever it is kept.
SaltsInv == IInv /\ \E f \in Naming : AllNamed(f)

\* A fresh salt takes no other's name.
LEMMA NamedFresh ==
    ASSUME NEW f \in Naming, NEW n \in Nat, NEW pw \in Password \cup {None},
           NEW salt \in Nat, NEW passwords, Named(f, n, salt, passwords)
    PROVE  Named([f EXCEPT ![n + 1] = pw], n + 1, salt, passwords)
BY DEF Named, Naming

LEMMA FreshName ==
    ASSUME NEW f \in Naming, NEW n \in Nat, NEW pw \in Password \cup {None}
    PROVE  LET g == [f EXCEPT ![n + 1] = pw]
           IN  g \in Naming /\ \A passwords : pw \in passwords => Named(g, n + 1, n + 1, passwords)
BY DEF Named, Naming

\* Types of what carries a salt.
LEMMA SaltTypes ==
    ASSUME IInv
    PROVE  /\ salts \in Nat
           /\ \A k \in Key : LockOf(store, k) \in LockType /\ LockOf(store, k).salt \in Nat
           /\ \A h \in Handler : session[h].cred \in Nat
           /\ \A h \in Handler : pending[h] # None =>
                /\ pending[h] \in RequestType /\ pending[h].cred \in Nat
                /\ pending[h].claimSalt \in Nat /\ pending[h].expected \in Nat
<1>1. /\ store \in StoreType /\ salts \in Nat /\ session \in [Handler -> SessionType]
      /\ pending \in [Handler -> RequestType \cup {None}]
  BY DEF IInv, TypeOK
<1>2. \A k \in Key : LockOf(store, k) \in LockType
  BY <1>1, PartsType
<1>3. QED BY <1>1, <1>2 DEF LockType, SessionType, RequestType, AnyRequest

\* getLiveLocked and CleanupExpired only take locks away.
LEMMA RemoveNamed ==
    ASSUME NEW f, NEW n, NEW st \in StoreType, RoomsNamed(f, n, st), NEW ks \in SUBSET Key
    PROVE  RoomsNamed(f, n, Remove(st, ks))
<1>1. Remove(st, ks).items = [k \in Key |-> IF k \in ks THEN None ELSE st.items[k]]
  BY DEF Remove, StoreType
<1>2. QED BY <1>1 DEF RoomsNamed, LockOf, NoLock, Named

LEMMA GetLiveNamed ==
    ASSUME IInv, NEW f, NEW n, RoomsNamed(f, n, store), NEW k \in Key
    PROVE  RoomsNamed(f, n, GetLive(k))
BY RemoveNamed DEF GetLive, IInv, TypeOK

\* A commit keeps the locks, or adds the one its request claimed.
LEMMA CommitNamed ==
    ASSUME IInv, NEW h \in Handler, Commit(h), NEW f, AllNamed(f)
    PROVE  AllNamed(f)'
<1> DEFINE p == pending[h]
           k == p.key
           live == GetLive(k)
           lock == LockOf(live, k)
<1>1. /\ p # None /\ pending' = [pending EXCEPT ![h] = None]
      /\ UNCHANGED <<now, session, salts>>
      /\ store' \in {store, live} \/ WritesRoom(live, p, store')
  BY CommitWrites
<1>2. k \in Key /\ live \in StoreType /\ RoomsNamed(f, salts, store)
  BY <1>1, CommitParts DEF AllNamed
<1>3. RoomsNamed(f, salts, live)
  BY <1>2, GetLiveNamed
<1>4. RequestNamed(f, salts, p)
  BY DEF AllNamed
<1> HIDE DEF live
<1>5. /\ Named(f, salts, lock.salt, {lock.pw})
      /\ Named(f, salts, ClaimedLock(lock, p).salt, {ClaimedLock(lock, p).pw})
  BY <1>1, <1>2, <1>3, <1>4 DEF RoomsNamed, RequestNamed, ClaimedLock
<1>6. RoomsNamed(f, salts, store')
  <2>1. CASE store' \in {store, live}
    BY <1>2, <1>3, <2>1
  <2>2. CASE WritesRoom(live, p, store')
    <3>1. live.items \in [Key -> RoomType \cup {None}]
      BY <1>2 DEF StoreType
    <3>2. CASE store'.items = live.items
      BY <1>3, <3>2 DEF RoomsNamed, LockOf
    <3>3. CASE store'.items = [live.items EXCEPT ![k] = None]
      BY <1>3, <3>1, <3>3 DEF RoomsNamed, LockOf, NoLock, Named
    <3>4. ASSUME NEW r, store'.items = [live.items EXCEPT ![k] = r],
                 r.lock \in {lock, ClaimedLock(lock, p)}
          PROVE  RoomsNamed(f, salts, store')
      <4>1. ASSUME NEW j \in Key
            PROVE  Named(f, salts, LockOf(store', j).salt, {LockOf(store', j).pw})
        <5>1. CASE j = k
          <6>1. store'.items[j] = r /\ (r.lock = lock \/ r.lock = ClaimedLock(lock, p))
            BY <3>1, <3>4, <5>1
          <6>2. LockOf(store', j) = NoLock \/ LockOf(store', j) = r.lock
            BY <6>1 DEF LockOf
          <6>3. Named(f, salts, NoLock.salt, {NoLock.pw})
            BY DEF NoLock, Named
          <6> HIDE DEF lock, p
          <6>4. QED BY <1>5, <6>1, <6>2, <6>3
        <5>2. CASE j # k
          <6>1. LockOf(store', j) = LockOf(live, j)
            BY <3>1, <3>4, <5>2 DEF LockOf
          <6>2. QED BY <1>3, <6>1 DEF RoomsNamed
        <5>3. QED BY <5>1, <5>2
      <4>2. QED BY <4>1 DEF RoomsNamed
    <3>5. QED BY <2>2, <3>2, <3>3, <3>4 DEF WritesRoom
  <2>3. QED BY <1>1, <2>1, <2>2
<1>7. ASSUME NEW g \in Handler PROVE RequestNamed(f, salts, pending'[g])
  <2>1. pending \in [Handler -> RequestType \cup {None}]
    BY DEF IInv, TypeOK
  <2>2. pending'[g] \in {pending[g], None}
    BY <1>1, <2>1
  <2>3. QED BY <2>2 DEF AllNamed, RequestNamed
<1>8. QED BY <1>1, <1>6, <1>7 DEF AllNamed

\* One more salt taken: all names stay.
LEMMA AllNamedFresh ==
    ASSUME IInv, NEW f \in Naming, AllNamed(f), NEW pw \in Password \cup {None}
    PROVE  LET g == [f EXCEPT ![salts + 1] = pw]
           IN  /\ g \in Naming
               /\ RoomsNamed(g, salts + 1, store)
               /\ \A h \in Handler :
                    /\ Named(g, salts + 1, session[h].cred, {session[h].proved})
                    /\ RequestNamed(g, salts + 1, pending[h])
<1> DEFINE g == [f EXCEPT ![salts + 1] = pw]
<1>1. g \in Naming /\ salts \in Nat
  BY FreshName, SaltTypes
<1>2. RoomsNamed(g, salts + 1, store)
  BY <1>1, SaltTypes, NamedFresh DEF AllNamed, RoomsNamed
<1>3. ASSUME NEW h \in Handler
      PROVE  Named(g, salts + 1, session[h].cred, {session[h].proved})
  BY <1>1, SaltTypes, NamedFresh DEF AllNamed
<1>4. ASSUME NEW h \in Handler PROVE RequestNamed(g, salts + 1, pending[h])
  <2>1. CASE pending[h] = None
    BY <2>1 DEF RequestNamed
  <2>2. CASE pending[h] # None
    BY <1>1, <2>2, SaltTypes, NamedFresh DEF AllNamed, RequestNamed
  <2>3. QED BY <2>1, <2>2
<1>5. QED BY <1>1, <1>2, <1>3, <1>4

\* The pre-check: the caller presented the password of the lock, itself or
\* when its credential was issued; a claim takes a fresh salt.
LEMMA BeginNamed ==
    ASSUME IInv, NEW h \in Handler, NEW k \in Key, NEW p \in Requests(h, k), Begin(h, p),
           NEW f \in Naming, AllNamed(f)
    PROVE  \E g \in Naming : AllNamed(g)'
<1> DEFINE live == GetLive(k)
           lock == LockOf(live, k)
           claimSalt == IF p.claim # None THEN salts + 1 ELSE 0
           q == [p EXCEPT !.expected = lock.salt, !.claimSalt = claimSalt]
<1>1. p \in RequestType /\ p.key = k
  BY RequestsType
<1>2. p.cred = session[h].cred /\ p.proved = session[h].proved /\ p.claim \in Password \cup {None}
  <2>1. ASSUME NEW kind, NEW text, NEW ttl, NEW base, NEW pw, NEW claim,
               p = Request(h, k, kind, text, ttl, base, pw, claim)
        PROVE  p.cred = session[h].cred /\ p.proved = session[h].proved
    BY <2>1 DEF Request
  <2>2. QED BY <1>1, <2>1 DEF Requests, RequestType, AnyRequest
<1>3. /\ store' = live /\ UNCHANGED <<now, session>>
      /\ \/ UNCHANGED <<pending, salts>>
         \/ /\ Locked(lock) => Presents(lock, p)
            /\ pending' = [pending EXCEPT ![h] = q]
            /\ salts' = IF p.claim # None THEN salts + 1 ELSE salts
  BY <1>1 DEF Begin
<1>4. RoomsNamed(f, salts, live)
  BY GetLiveNamed DEF AllNamed
<1>5. CASE UNCHANGED <<pending, salts>>
  BY <1>3, <1>4, <1>5 DEF AllNamed
<1>6. CASE /\ Locked(lock) => Presents(lock, p)
           /\ pending' = [pending EXCEPT ![h] = q]
           /\ salts' = IF p.claim # None THEN salts + 1 ELSE salts
  <2>1. PICK g \in Naming :
           /\ RoomsNamed(g, salts', store)
           /\ \A i \in Handler : /\ Named(g, salts', session[i].cred, {session[i].proved})
                                 /\ RequestNamed(g, salts', pending[i])
           /\ Named(g, salts', claimSalt, {p.claim})
    <3>1. CASE p.claim # None
      <4> DEFINE g == [f EXCEPT ![salts + 1] = p.claim]
      <4>1. salts' = salts + 1 /\ claimSalt = salts + 1 /\ salts \in Nat
        BY <1>6, <3>1, SaltTypes
      <4>2. Named(g, salts + 1, salts + 1, {p.claim})
        BY <1>2, <4>1, FreshName
      <4>3. /\ g \in Naming /\ RoomsNamed(g, salts + 1, store)
            /\ \A i \in Handler :
                 /\ Named(g, salts + 1, session[i].cred, {session[i].proved})
                 /\ RequestNamed(g, salts + 1, pending[i])
        BY <1>2, AllNamedFresh
      <4> HIDE DEF g, claimSalt
      <4>4. QED BY <4>1, <4>2, <4>3
    <3>2. CASE p.claim = None
      <4>1. salts' = salts /\ claimSalt = 0
        BY <1>6, <3>2
      <4>2. QED BY <4>1 DEF AllNamed, Named
    <3>3. QED BY <3>1, <3>2
  <2> HIDE DEF claimSalt
  <2>2. RoomsNamed(g, salts', live)
    BY <2>1, GetLiveNamed
  <2> HIDE DEF live
  <2>3. Named(g, salts', lock.salt, {lock.pw})
    BY <2>2 DEF RoomsNamed
  <2>4. Named(g, salts', p.cred, {p.proved})
    BY <1>2, <2>1
  <2>5. Named(g, salts', lock.salt, {p.password, p.proved})
    BY <1>6, <2>3, <2>4 DEF Locked, Presents, Verify, Named
  <2> HIDE DEF lock
  <2>6. /\ q.cred = p.cred /\ q.proved = p.proved /\ q.claim = p.claim
        /\ q.password = p.password
        /\ q.expected = lock.salt /\ q.claimSalt = claimSalt
    BY <1>1 DEF RequestType, AnyRequest
  <2> HIDE DEF q
  <2>7. RequestNamed(g, salts', q)
    BY <2>1, <2>4, <2>5, <2>6 DEF RequestNamed
  <2>8. ASSUME NEW i \in Handler PROVE RequestNamed(g, salts', pending'[i])
    <3>1. pending \in [Handler -> RequestType \cup {None}]
      BY DEF IInv, TypeOK
    <3>2. pending'[i] \in {q, pending[i]}
      BY <1>6, <3>1
    <3>3. QED BY <2>1, <2>7, <3>2
  <2>9. AllNamed(g)'
    BY <1>3, <2>1, <2>2, <2>8 DEF AllNamed
  <2>10. QED BY <2>1, <2>9
<1>7. QED BY <1>3, <1>5, <1>6

\* SetPassword: no lock, the same salt, or a fresh one for the new password.
LEMMA RelockNamed ==
    ASSUME IInv, NEW k \in Key, NEW current, NEW lock, Relock(k, current, lock),
           NEW f, NEW n, RoomsNamed(f, n, store), Named(f, n, lock.salt, {lock.pw})
    PROVE  RoomsNamed(f, n, store')
<1> DEFINE live == GetLive(k)
           r == live.items[k]
           m == [r EXCEPT !.lock = lock, !.ver = @ + 1]
<1>1. r # None /\ store' = Rewrite(live, k, m)
  BY DEF Relock
<1>2. StoreInv(live) /\ live \in StoreType
  BY GetLiveInv DEF IInv, StoreInv
<1>3. r \in RoomType
  BY <1>1, <1>2, PartsType
<1>4. RoomsNamed(f, n, live)
  BY GetLiveNamed
<1> HIDE DEF live, r
<1>5. m.lock = lock
  BY <1>3 DEF RoomType
<1> HIDE DEF m
<1>6. store'.items = [live.items EXCEPT ![k] = m] /\ live.items \in [Key -> RoomType \cup {None}]
  BY <1>1, <1>2 DEF Rewrite, Refresh, StoreType
<1>7. ASSUME NEW j \in Key
      PROVE  Named(f, n, LockOf(store', j).salt, {LockOf(store', j).pw})
  <2>1. CASE j = k
    BY <1>5, <1>6, <2>1 DEF LockOf, NoLock, Named
  <2>2. CASE j # k
    <3>1. LockOf(store', j) = LockOf(live, j)
      BY <1>6, <2>2 DEF LockOf
    <3>2. QED BY <1>4, <3>1 DEF RoomsNamed
  <2>3. QED BY <2>1, <2>2
<1>8. QED BY <1>7 DEF RoomsNamed

LEMMA SetPasswordNamed ==
    ASSUME IInv, NEW k \in Key, SetPassword(k), NEW f \in Naming, AllNamed(f)
    PROVE  \E g \in Naming : AllNamed(g)'
<1> DEFINE lock == LockOf(GetLive(k), k)
<1>1. RoomsNamed(f, salts, GetLive(k)) /\ GetLive(k) \in StoreType
  BY GetLiveNamed, GetLiveInv DEF AllNamed, IInv, StoreInv
<1>2. lock \in LockType /\ Named(f, salts, lock.salt, {lock.pw})
  BY <1>1, PartsType DEF RoomsNamed
<1> HIDE DEF lock
<1>3. PICK current \in Password \cup {None} :
        \/ Unlock(k, current)
        \/ \E scope \in Scope : Rescope(k, current, scope)
        \/ \E next \in Password, scope \in Scope \cup {None} : Rotate(k, current, next, scope)
  BY DEF SetPassword
<1>4. ASSUME NEW new, Relock(k, current, new), salts' = salts,
             Named(f, salts, new.salt, {new.pw})
      PROVE  AllNamed(f)'
  <2>1. RoomsNamed(f, salts, store')
    BY <1>4, RelockNamed DEF AllNamed
  <2>2. QED BY <1>4, <2>1 DEF AllNamed, Relock
<1>5. CASE Unlock(k, current)
  <2>1. Named(f, salts, NoLock.salt, {NoLock.pw})
    BY DEF NoLock, Named
  <2>2. QED BY <1>4, <1>5, <2>1 DEF Unlock
<1>6. ASSUME NEW scope \in Scope, Rescope(k, current, scope)
      PROVE  \E g \in Naming : AllNamed(g)'
  <2> DEFINE new == [lock EXCEPT !.scope = scope]
  <2>1. new.salt = lock.salt /\ new.pw = lock.pw
    BY <1>2 DEF LockType
  <2>2. Relock(k, current, new) /\ salts' = salts
    BY <1>6 DEF Rescope, lock
  <2> HIDE DEF new
  <2>3. QED BY <1>2, <1>4, <2>1, <2>2
<1>7. ASSUME NEW next \in Password, NEW scope \in Scope \cup {None},
             Rotate(k, current, next, scope)
      PROVE  \E g \in Naming : AllNamed(g)'
  <2> DEFINE kept == IF Locked(lock) THEN lock.scope ELSE "edit"
             new == [pw |-> next, salt |-> salts + 1,
                     scope |-> IF scope = None THEN kept ELSE scope]
  <2>1. Relock(k, current, new) /\ salts' = salts + 1 /\ new.pw = next /\ new.salt = salts + 1
    BY <1>7 DEF Rotate, lock
  <2> HIDE DEF new
  <2>2. PICK g \in Naming :
           /\ RoomsNamed(g, salts + 1, store)
           /\ \A h \in Handler :
                /\ Named(g, salts + 1, session[h].cred, {session[h].proved})
                /\ RequestNamed(g, salts + 1, pending[h])
           /\ Named(g, salts + 1, salts + 1, {next})
    BY SaltTypes, FreshName, AllNamedFresh
  <2>3. Named(g, salts + 1, new.salt, {new.pw})
    BY <2>1, <2>2
  <2>4. RoomsNamed(g, salts + 1, store')
    BY <2>1, <2>2, <2>3, RelockNamed
  <2>5. AllNamed(g)'
    BY <2>1, <2>2, <2>4 DEF AllNamed, Relock
  <2>6. QED BY <2>2, <2>5
<1>8. QED BY <1>3, <1>5, <1>6, <1>7

\* The reads: AuthCredential gives out the salt of the lock it verified.
LEMMA ReadNamed ==
    ASSUME IInv, NEW h \in Handler, NEW k \in Key, NEW f, AllNamed(f),
           Get(h, k) \/ \E pw \in Knows[h] : AuthCredential(h, k, pw)
    PROVE  AllNamed(f)'
<1> DEFINE live == GetLive(k)
           lock == LockOf(live, k)
<1>1. RoomsNamed(f, salts, live) /\ session \in [Handler -> SessionType]
  BY GetLiveNamed DEF AllNamed, IInv, TypeOK
<1>2. store' = live /\ UNCHANGED <<now, pending, salts>>
  BY DEF Get, AuthCredential
<1>3. CASE Get(h, k)
  <2>1. ASSUME NEW g \in Handler
        PROVE  session'[g].cred = session[g].cred /\ session'[g].proved = session[g].proved
    BY <1>1, <1>3 DEF Get, SessionType
  <2>2. QED BY <1>1, <1>2, <2>1 DEF AllNamed
<1>4. ASSUME NEW pw \in Knows[h], AuthCredential(h, k, pw) PROVE AllNamed(f)'
  <2>1. pw = lock.pw
    BY <1>4 DEF AuthCredential, Verify
  <2>2. Named(f, salts, lock.salt, {pw})
    BY <1>1, <2>1 DEF RoomsNamed
  <2>3. session' = [session EXCEPT ![h].cred = lock.salt, ![h].proved = pw]
    BY <1>4 DEF AuthCredential
  <2> HIDE DEF lock
  <2>4. ASSUME NEW g \in Handler
        PROVE  \/ session'[g].cred = session[g].cred /\ session'[g].proved = session[g].proved
               \/ session'[g].cred = lock.salt /\ session'[g].proved = pw
    BY <1>1, <2>3 DEF SessionType
  <2>5. QED BY <1>1, <1>2, <2>2, <2>4 DEF AllNamed
<1>5. QED BY <1>3, <1>4

LEMMA SaltsInit == Init => SaltsInv
<1> SUFFICES ASSUME Init PROVE SaltsInv
  OBVIOUS
<1> DEFINE f == [n \in Nat |-> None]
<1>1. f \in Naming
  BY DEF Naming
<1>2. AllNamed(f)
  BY DEF Init, AllNamed, RoomsNamed, RequestNamed, Named, LockOf, NoLock
<1>3. QED BY <1>1, <1>2, InitInv DEF SaltsInv

LEMMA SaltsNext == SaltsInv /\ [Next]_vars => SaltsInv'
<1> SUFFICES ASSUME SaltsInv, [Next]_vars PROVE SaltsInv'
  OBVIOUS
<1>1. IInv /\ IInv'
  BY NextInv DEF SaltsInv
<1>2. PICK f \in Naming : AllNamed(f)
  BY DEF SaltsInv
<1>3. CASE UNCHANGED vars
  BY <1>1, <1>2, <1>3 DEF vars, AllNamed, SaltsInv
<1>4. ASSUME NEW h \in Handler, Handle(h) PROVE SaltsInv'
  BY <1>1, <1>2, <1>4, ReadNamed, BeginNamed, CommitNamed DEF Handle, SaltsInv
<1>5. ASSUME NEW k \in Key, SetPassword(k) PROVE SaltsInv'
  BY <1>1, <1>2, <1>5, SetPasswordNamed DEF SaltsInv
<1>6. ASSUME NEW k \in Key, Peek(k) PROVE SaltsInv'
  <2>1. RoomsNamed(f, salts, GetLive(k))
    BY <1>1, <1>2, GetLiveNamed DEF AllNamed
  <2>2. AllNamed(f)'
    BY <1>2, <1>6, <2>1 DEF Peek, AllNamed
  <2>3. QED BY <1>1, <1>2, <2>2 DEF SaltsInv
<1>7. CASE CleanupExpired
  <2>1. Expired(store) \in SUBSET Key /\ store \in StoreType
    BY <1>1 DEF Expired, Present, IInv, TypeOK
  <2>2. RoomsNamed(f, salts, Remove(store, Expired(store)))
    BY <1>2, <2>1, RemoveNamed DEF AllNamed
  <2>3. AllNamed(f)'
    BY <1>2, <1>7, <2>2 DEF CleanupExpired, AllNamed
  <2>4. QED BY <1>1, <1>2, <2>3 DEF SaltsInv
<1>8. CASE Tick
  BY <1>1, <1>2, <1>8 DEF Tick, AllNamed, SaltsInv
<1>9. QED BY <1>3, <1>4, <1>5, <1>6, <1>7, <1>8 DEF Next

-----------------------------------------------------------------------------
(* Authorized writes                                                       *)

\* The room at k was changed or removed.
Changed(r, n) == n # None => <<n.text, n.items, n.hist>> # <<r.text, r.items, r.hist>>

\* The lock that confirmAuthLocked compares salts with is the one whose
\* password the caller presented.
LEMMA ConfirmedPresented ==
    ASSUME NEW f, AllNamed(f), NEW h \in Handler, pending[h] # None,
           NEW st, RoomsNamed(f, salts, st), pending[h].key \in Key,
           Locked(LockOf(st, pending[h].key)), Confirmed(st, pending[h])
    PROVE  LockOf(st, pending[h].key).pw \in {pending[h].password, pending[h].proved}
BY DEF AllNamed, RoomsNamed, RequestNamed, Named, Locked, Confirmed, Presents, Verify

\* getLiveLocked leaves a live room alone.
LEMMA LiveStays ==
    ASSUME NEW k \in Key, NEW j \in Key, store \in StoreType, store.items[k] # None,
           now \in Nat, store.items[k].exp > now
    PROVE  GetLive(j).items[k] = store.items[k]
<1>1. store.items[k].exp \in Nat
  BY DEF StoreType, RoomType
<1>2. k \notin Expired(store)
  BY <1>1 DEF Expired
<1>3. QED BY <1>2 DEF GetLive, Remove, StoreType

LEMMA CommitAuthorized ==
    ASSUME SaltsInv, NEW g \in Handler, Commit(g), NEW k \in Key,
           store.items[k] # None, Locked(store.items[k].lock), store.items[k].exp > now,
           Changed(store.items[k], store'.items[k])
    PROVE  /\ pending[g] # None /\ pending'[g] = None /\ pending[g].key = k
           /\ store.items[k].lock.pw \in {pending[g].password, pending[g].proved}
<1> DEFINE p == pending[g]
           live == GetLive(p.key)
           r == store.items[k]
<1>1. /\ IInv /\ store \in StoreType /\ now \in Nat
      /\ pending \in [Handler -> RequestType \cup {None}]
  BY DEF SaltsInv, IInv, TypeOK
<1>2. PICK f \in Naming : AllNamed(f)
  BY DEF SaltsInv
<1>3. /\ p # None /\ pending' = [pending EXCEPT ![g] = None]
      /\ store' \in {store, live} \/ (Confirmed(live, p) /\ WritesRoom(live, p, store'))
  BY <1>1, CommitWrites
<1>4. p.key \in Key /\ live \in StoreType
  BY <1>1, <1>3, CommitParts
<1>5. live.items[k] = r
  BY <1>1, <1>4, LiveStays
<1>6. RoomsNamed(f, salts, live)
  BY <1>1, <1>2, <1>4, GetLiveNamed DEF AllNamed
<1> HIDE DEF live
<1>7. store' \notin {store, live}
  BY <1>5 DEF Changed
<1>8. p.key = k
  <2>1. live.items \in [Key -> RoomType \cup {None}]
    BY <1>4 DEF StoreType
  <2>2. ASSUME p.key # k PROVE store'.items[k] = r
    BY <1>3, <1>4, <1>5, <1>7, <2>1, <2>2 DEF WritesRoom
  <2>3. QED BY <2>2 DEF Changed
<1>9. LockOf(live, k) = r.lock
  BY <1>5 DEF LockOf
<1>10. r.lock.pw \in {p.password, p.proved}
  BY <1>2, <1>3, <1>4, <1>6, <1>7, <1>8, <1>9, ConfirmedPresented
<1>11. QED BY <1>1, <1>3, <1>8, <1>10

\* Every other step leaves the contents of a live room alone.
LEMMA OthersKeep ==
    ASSUME IInv, [Next]_vars, \A g \in Handler : ~Commit(g), NEW k \in Key,
           store.items[k] # None, store.items[k].exp > now
    PROVE  ~Changed(store.items[k], store'.items[k])
<1> DEFINE r == store.items[k]
<1>1. store \in StoreType /\ now \in Nat /\ r \in RoomType /\ r.exp \in Nat
  BY DEF IInv, TypeOK, StoreType, RoomType
<1>2. ASSUME store'.items[k] = r PROVE ~Changed(r, store'.items[k])
  BY <1>2 DEF Changed
<1>3. ASSUME NEW j \in Key, store' = GetLive(j) PROVE ~Changed(r, store'.items[k])
  BY <1>1, <1>2, <1>3, LiveStays
<1>4. ASSUME NEW h \in Handler, Handle(h) PROVE ~Changed(r, store'.items[k])
  <2>1. ASSUME NEW j \in Key, NEW p \in Requests(h, j), Begin(h, p) PROVE store' = GetLive(j)
    BY <2>1, RequestsType DEF Begin
  <2>2. QED BY <1>3, <1>4, <2>1 DEF Handle, Get, AuthCredential
<1>5. ASSUME NEW j \in Key, SetPassword(j) PROVE ~Changed(r, store'.items[k])
  <2>1. PICK current \in Password \cup {None}, lock \in LockType : Relock(j, current, lock)
    BY <1>5, SetPasswordRelocks
  <2> DEFINE live == GetLive(j)
             m == [live.items[j] EXCEPT !.lock = lock, !.ver = @ + 1]
  <2>2. live \in StoreType /\ live.items[k] = r
    BY <1>1, LiveStays, GetLiveInv DEF IInv, StoreInv
  <2>3. store' = Rewrite(live, j, m)
    BY <2>1 DEF Relock
  <2> HIDE DEF live
  <2>4. live.items \in [Key -> RoomType \cup {None}] /\ store'.items = [live.items EXCEPT ![j] = m]
    BY <2>2, <2>3 DEF Rewrite, Refresh, StoreType
  <2>5. CASE j # k
    BY <1>2, <2>2, <2>4, <2>5
  <2>6. CASE j = k
    <3>1. store'.items[k] = m
      BY <2>4, <2>6
    <3>2. live.items[j] = r
      BY <2>2, <2>6
    <3>3. m.text = r.text /\ m.items = r.items /\ m.hist = r.hist
      BY <1>1, <3>2 DEF RoomType
    <3>4. m # None
      <4> DEFINE ver == r.ver + 1
      <4>1. ver \in Nat /\ m = [r EXCEPT !.lock = lock, !.ver = ver]
        BY <1>1, <3>2 DEF RoomType
      <4> HIDE DEF m, ver
      <4>2. m \in RoomType
        BY <1>1, <4>1 DEF RoomType
      <4>3. QED BY <4>2, ConstantsAssumption
    <3>5. QED BY <3>1, <3>3, <3>4 DEF Changed
  <2>7. QED BY <2>5, <2>6
<1>6. ASSUME NEW j \in Key, Peek(j) PROVE ~Changed(r, store'.items[k])
  BY <1>3, <1>6 DEF Peek
<1>7. CASE CleanupExpired
  <2>1. k \notin Expired(store)
    BY <1>1 DEF Expired
  <2>2. store'.items[k] = r
    BY <1>1, <1>7, <2>1 DEF CleanupExpired, Remove, StoreType
  <2>3. QED BY <1>2, <2>2
<1>8. CASE Tick
  BY <1>2, <1>8 DEF Tick
<1>9. CASE UNCHANGED vars
  BY <1>2, <1>9 DEF vars
<1>10. QED BY <1>4, <1>5, <1>6, <1>7, <1>8, <1>9 DEF Next

\* A live locked room changes its text, its items or its trail, or disappears,
\* only on behalf of a caller who has presented the password in force at that
\* moment: confirmAuthLocked compares credentials, that is salts, again under
\* the lock, in SaveWithBase, ApplyOps, DeleteAuth and the history calls.
THEOREM WritesAuthorized == Spec => AuthorizedWrites
<1> DEFINE Step == \A k \in Key :
                     LET r == store.items[k]
                         n == store'.items[k]
                     IN  /\ r # None /\ Locked(r.lock) /\ r.exp > now
                         /\ n # None => <<n.text, n.items, n.hist>> # <<r.text, r.items, r.hist>>
                         => \E h \in Handler :
                              /\ pending[h] # None /\ pending'[h] = None
                              /\ pending[h].key = k
                              /\ r.lock.pw \in {pending[h].password, pending[h].proved}
<1>1. Spec => []SaltsInv
  BY SaltsInit, SaltsNext, PTL DEF Spec
<1>2. SaltsInv /\ [Next]_vars => [Step]_vars
  <2> SUFFICES ASSUME SaltsInv, [Next]_vars, NEW k \in Key,
                      store.items[k] # None, Locked(store.items[k].lock),
                      store.items[k].exp > now, Changed(store.items[k], store'.items[k])
               PROVE  \E h \in Handler :
                        /\ pending[h] # None /\ pending'[h] = None
                        /\ pending[h].key = k
                        /\ store.items[k].lock.pw \in {pending[h].password, pending[h].proved}
    BY DEF Changed
  <2>1. IInv
    BY DEF SaltsInv
  <2>2. PICK h \in Handler : Commit(h)
    BY <2>1, OthersKeep
  <2>3. QED BY <2>2, CommitAuthorized
<1>3. AuthorizedWrites <=> [][Step]_vars
  BY DEF AuthorizedWrites
<1>4. QED BY <1>1, <1>2, <1>3, PTL DEF Spec


-----------------------------------------------------------------------------
(* What the store's methods leave in the two sets of flags                 *)

Marked(st) == st.dirty \cup st.deleted

\* From st to n: a room whose file has to follow is flagged, a flag to write
\* gives way only to one to remove, and a room with a flag to remove that is
\* there again is to be written too.
Tracks(st, n) ==
    \A k \in Key :
        /\ Lasting(n.items[k]) = Lasting(st.items[k]) \/ k \in Marked(n)
        /\ k \in st.dirty => k \in n.dirty \/ (n.items[k] = None /\ k \in n.deleted)
        /\ k \in st.deleted => k \in n.deleted
        /\ n.items[k] # None => st.items[k] # None \/ k \in n.dirty
        /\ k \in n.deleted => k \in st.deleted \/ n.items[k] = None \/ k \in n.dirty

LEMMA SameTracks ==
    ASSUME NEW st, NEW n, n.items = st.items, n.dirty = st.dirty, n.deleted = st.deleted
    PROVE  Tracks(st, n)
BY DEF Tracks, Marked

LEMMA TracksTwice ==
    ASSUME NEW a, NEW b, NEW c, Tracks(a, b), Tracks(b, c)
    PROVE  Tracks(a, c)
<1> SUFFICES ASSUME NEW k \in Key
             PROVE  /\ Lasting(c.items[k]) = Lasting(a.items[k]) \/ k \in Marked(c)
                    /\ k \in a.dirty => k \in c.dirty \/ (c.items[k] = None /\ k \in c.deleted)
                    /\ k \in a.deleted => k \in c.deleted
                    /\ c.items[k] # None => a.items[k] # None \/ k \in c.dirty
                    /\ k \in c.deleted => k \in a.deleted \/ c.items[k] = None \/ k \in c.dirty
  BY DEF Tracks
<1>1. /\ Lasting(b.items[k]) = Lasting(a.items[k]) \/ k \in b.dirty \/ k \in b.deleted
      /\ k \in a.dirty => k \in b.dirty \/ (b.items[k] = None /\ k \in b.deleted)
      /\ k \in a.deleted => k \in b.deleted
      /\ b.items[k] # None => a.items[k] # None \/ k \in b.dirty
      /\ k \in b.deleted => k \in a.deleted \/ b.items[k] = None \/ k \in b.dirty
  BY DEF Tracks, Marked
<1>2. /\ Lasting(c.items[k]) = Lasting(b.items[k]) \/ k \in c.dirty \/ k \in c.deleted
      /\ k \in b.dirty => k \in c.dirty \/ (c.items[k] = None /\ k \in c.deleted)
      /\ k \in b.deleted => k \in c.deleted
      /\ c.items[k] # None => b.items[k] # None \/ k \in c.dirty
      /\ k \in c.deleted => k \in b.deleted \/ c.items[k] = None \/ k \in c.dirty
  BY DEF Tracks, Marked
<1>3. QED BY <1>1, <1>2 DEF Marked

\* removeLocked
LEMMA RemoveTracks ==
    ASSUME NEW st \in StoreType, NEW ks \in SUBSET Key
    PROVE  Tracks(st, Remove(st, ks))
<1>1. /\ Remove(st, ks).items = [k \in Key |-> IF k \in ks THEN None ELSE st.items[k]]
      /\ Remove(st, ks).dirty = st.dirty \ ks
      /\ Remove(st, ks).deleted = st.deleted \cup ks
  BY DEF Remove, StoreType
<1>2. QED BY <1>1 DEF Tracks, Marked

LEMMA GetLiveTracks ==
    ASSUME IInv, NEW k \in Key
    PROVE  GetLive(k) \in StoreType /\ StoreInv(GetLive(k)) /\ Tracks(store, GetLive(k))
<1>1. store \in StoreType /\ StoreInv(store)
  BY DEF IInv, StoreInv
<1>2. Tracks(store, store) /\ Tracks(store, Remove(store, {k}))
  BY <1>1, SameTracks, RemoveTracks
<1>3. QED BY <1>1, <1>2, GetLiveInv DEF GetLive, StoreInv

LEMMA WithGenerationTracks ==
    ASSUME NEW st, StoreInv(st), NEW k \in Key
    PROVE  LET m == WithGeneration(st, k)
           IN  m \in StoreType /\ m.items = st.items /\ Tracks(st, m)
<1> DEFINE m == WithGeneration(st, k)
<1>1. m \in StoreType /\ m.items = st.items /\ st \in StoreType
  BY WithGenerationInv DEF StoreInv
<1>2. m.dirty = st.dirty /\ m.deleted = st.deleted
  BY <1>1 DEF WithGeneration, StoreType
<1>3. QED BY <1>1, <1>2, SameTracks

\* putLocked and the writes in place that flag the room.
LEMMA WriteTracks ==
    ASSUME NEW st \in StoreType, NEW k \in Key, NEW r
    PROVE  /\ Tracks(st, Put(st, k, r)) /\ Tracks(st, PutIfAccepted(st, k, r))
           /\ Tracks(st, Rewrite(st, k, r))
<1>1. /\ Put(st, k, r).items = [st.items EXCEPT ![k] = r]
      /\ Put(st, k, r).dirty = st.dirty \cup {k} /\ Put(st, k, r).deleted = st.deleted
  BY DEF Put, StoreType
<1>2. /\ Rewrite(st, k, r).items = [st.items EXCEPT ![k] = r]
      /\ Rewrite(st, k, r).dirty = st.dirty \cup {k} /\ Rewrite(st, k, r).deleted = st.deleted
  BY DEF Rewrite, Refresh, StoreType
<1>3. ASSUME NEW n, n.items = [st.items EXCEPT ![k] = r],
             n.dirty = st.dirty \cup {k}, n.deleted = st.deleted
      PROVE  Tracks(st, n)
  BY <1>3 DEF Tracks, Marked, StoreType
<1>4. Tracks(st, st)
  BY SameTracks
<1>5. QED BY <1>1, <1>2, <1>3, <1>4 DEF PutIfAccepted

\* A write in place without a flag: only the expiry may change.
LEMMA RefreshTracks ==
    ASSUME NEW st \in StoreType, NEW k \in Key, NEW r, st.items[k] # None,
           Lasting(r) = Lasting(st.items[k])
    PROVE  Tracks(st, Refresh(st, k, r))
<1>1. /\ Refresh(st, k, r).items = [st.items EXCEPT ![k] = r]
      /\ Refresh(st, k, r).dirty = st.dirty /\ Refresh(st, k, r).deleted = st.deleted
  BY DEF Refresh, StoreType
<1>2. QED BY <1>1 DEF Tracks, Marked, StoreType

-----------------------------------------------------------------------------
(* The store's actions                                                     *)

LEMMA CommitTracks ==
    ASSUME IInv, NEW h \in Handler, pending[h] # None
    PROVE  LET k == pending[h].key
               live == GetLive(k)
               st == WithGeneration(live, k)
           IN  /\ k \in Key /\ live \in StoreType /\ Tracks(store, live)
               /\ st \in StoreType /\ Tracks(store, st)
<1> DEFINE k == pending[h].key
           live == GetLive(k)
           st == WithGeneration(live, k)
<1>1. k \in Key
  BY CommitParts
<1>2. live \in StoreType /\ StoreInv(live) /\ Tracks(store, live)
  BY <1>1, GetLiveTracks
<1> HIDE DEF k, live
<1>3. st \in StoreType /\ Tracks(live, st)
  BY <1>1, <1>2, WithGenerationTracks
<1>4. Tracks(store, st)
  BY <1>2, <1>3, TracksTwice
<1>5. QED BY <1>1, <1>2, <1>3, <1>4 DEF k, live

LEMMA SaveTracks ==
    ASSUME IInv, NEW h \in Handler, SaveRefreshes(h) \/ SaveReplaces(h)
    PROVE  Tracks(store, store')
<1> DEFINE p == pending[h]
           k == p.key
           st == WithGeneration(GetLive(k), k)
           r == st.items[k]
           lock == ClaimedLock(r.lock, p)
           exp == now + p.ttl
           fresh == [r EXCEPT !.exp = exp]
           claimed == [fresh EXCEPT !.lock = lock, !.ver = @ + 1]
<1>1. p # None
  BY DEF SaveRefreshes, SaveReplaces, SaveAdmitted, Committing
<1>2. k \in Key /\ st \in StoreType /\ Tracks(store, st)
  BY <1>1, CommitTracks
<1>3. CASE SaveRefreshes(h)
  <2>1. /\ SaveIsIdentical(st, p)
        /\ store' = IF lock = r.lock THEN Refresh(st, k, fresh) ELSE Rewrite(st, k, claimed)
    BY <1>3 DEF SaveRefreshes
  <2>2. r # None
    BY <2>1 DEF SaveIsIdentical
  <2>0. exp \in Nat
    <3>1. p \in RequestType /\ now \in Nat
      BY <1>1, CommitParts
    <3> HIDE DEF p
    <3>2. p \in AnyRequest
      BY <3>1 DEF RequestType
    <3>3. p.ttl \in TTL \cup {0}
      BY <3>2 DEF AnyRequest
    <3>4. TTL \cup {0} \subseteq Nat
      BY ConstantsAssumption
    <3>5. QED BY <3>1, <3>3, <3>4
  <2> HIDE DEF k, st, lock, exp
  <2>3. r \in RoomType
    BY <1>2, <2>2, PartsType
  <2>4. Lasting(fresh) = Lasting(r)
    <3> HIDE DEF r
    <3>1. fresh # None => Lasting(fresh) = [fresh EXCEPT !.exp = 0]
      BY DEF Lasting
    <3>2. [fresh EXCEPT !.exp = 0] = [r EXCEPT !.exp = 0]
      BY <2>3 DEF RoomType
    <3>3. fresh # None
      <4>1. fresh \in RoomType
        BY <2>0, <2>3 DEF RoomType
      <4>2. QED BY <4>1, ConstantsAssumption
    <3>4. QED BY <2>2, <3>1, <3>2, <3>3 DEF Lasting
  <2> HIDE DEF fresh, claimed
  <2>5. Tracks(st, Refresh(st, k, fresh)) /\ Tracks(st, Rewrite(st, k, claimed))
    BY <1>2, <2>2, <2>4, RefreshTracks, WriteTracks
  <2>6. QED BY <1>2, <2>1, <2>5, TracksTwice
<1>4. CASE SaveReplaces(h)
  <2>1. \E n : store' = PutIfAccepted(st, k, n)
    BY <1>4 DEF SaveReplaces
  <2> HIDE DEF k, st
  <2>2. QED BY <1>2, <2>1, WriteTracks, TracksTwice
<1>5. QED BY <1>3, <1>4

LEMMA OpsTracks ==
    ASSUME IInv, NEW h \in Handler, OpsRefresh(h) \/ OpsCreate(h) \/ OpsChange(h) \/ OpsFail(h)
    PROVE  Tracks(store, store')
<1> DEFINE p == pending[h]
           k == p.key
           st == WithGeneration(GetLive(k), k)
           r == st.items[k]
           ttl == NewTTL(st, p)
           exp == now + ttl
           fresh == [r EXCEPT !.ttl = ttl, !.exp = exp]
           moved == [fresh EXCEPT !.ver = @ + 1]
<1>1. OpsAdmitted(h) /\ p # None
  BY DEF OpsRefresh, OpsCreate, OpsChange, OpsFail, OpsAdmitted, Committing
<1>2. k \in Key /\ st \in StoreType /\ Tracks(store, st)
  BY <1>1, CommitTracks
<1>3. ttl \in TTL /\ exp \in Nat
  <2>1. now \in Nat /\ ttl \in TTL /\ ttl \in Nat
    BY <1>1, OpsAdmittedParts
  <2>2. QED BY <2>1
<1>4. CASE OpsRefresh(h)
  <2>1. /\ r # None
        /\ store' = IF ttl = r.ttl THEN Refresh(st, k, fresh) ELSE Rewrite(st, k, moved)
    BY <1>4 DEF OpsRefresh
  <2> HIDE DEF k, st, ttl, exp
  <2>2. r \in RoomType
    BY <1>2, <2>1, PartsType
  <2>3. ttl = r.ttl => Lasting(fresh) = Lasting(r)
    <3> HIDE DEF r
    <3> SUFFICES ASSUME ttl = r.ttl PROVE Lasting(fresh) = Lasting(r)
      OBVIOUS
    <3>1. fresh \in RoomType
      BY <1>3, <2>2 DEF RoomType
    <3>2. [fresh EXCEPT !.exp = 0] = [r EXCEPT !.exp = 0]
      BY <2>2 DEF RoomType
    <3>3. fresh # None
      BY <3>1, ConstantsAssumption
    <3> HIDE DEF fresh
    <3>4. QED BY <2>1, <3>2, <3>3 DEF Lasting
  <2> HIDE DEF fresh, moved
  <2>4. /\ ttl = r.ttl => Tracks(st, Refresh(st, k, fresh))
        /\ Tracks(st, Rewrite(st, k, moved))
    BY <1>2, <2>1, <2>3, RefreshTracks, WriteTracks
  <2>5. QED BY <1>2, <2>1, <2>4, TracksTwice
<1>5. CASE OpsCreate(h) \/ OpsChange(h)
  <2>1. \E n : store' = PutIfAccepted(st, k, n)
    BY <1>5 DEF OpsCreate, OpsChange
  <2> HIDE DEF k, st
  <2>2. QED BY <1>2, <2>1, WriteTracks, TracksTwice
<1>6. CASE OpsFail(h)
  BY <1>2, <1>6 DEF OpsFail
<1>7. QED BY <1>4, <1>5, <1>6

LEMMA OtherCommitsTrack ==
    ASSUME IInv, NEW h \in Handler,
           \/ SaveRejected(h) \/ OpsRejected(h) \/ DeleteAuth(h)
           \/ CaptureHistory(h) \/ ClearHistory(h)
    PROVE  Tracks(store, store')
<1> DEFINE k == pending[h].key
           live == GetLive(k)
<1>1. pending[h] # None
  BY DEF SaveRejected, OpsRejected, DeleteAuth, CaptureHistory, ClearHistory, Committing
<1>2. k \in Key /\ live \in StoreType /\ Tracks(store, live) /\ Tracks(store, store)
  BY <1>1, CommitTracks, SameTracks
<1>3. CASE SaveRejected(h) \/ OpsRejected(h)
  BY <1>2, <1>3 DEF SaveRejected, OpsRejected
<1>4. CASE DeleteAuth(h)
  <2>1. store' = live \/ store' = Remove(live, {k})
    BY <1>4 DEF DeleteAuth
  <2> HIDE DEF k, live
  <2>2. Tracks(live, Remove(live, {k}))
    BY <1>2, RemoveTracks
  <2>3. QED BY <1>2, <2>1, <2>2, TracksTwice
<1>5. CASE CaptureHistory(h) \/ ClearHistory(h)
  <2>1. \/ store' = live
        \/ \E r : store' = Put(live, k, r) \/ store' = PutIfAccepted(live, k, r)
    BY <1>5 DEF CaptureHistory, ClearHistory
  <2> HIDE DEF k, live
  <2>2. QED BY <1>2, <2>1, WriteTracks, TracksTwice
<1>6. QED BY <1>3, <1>4, <1>5

\* Every action of the store flags what it changes.
LEMMA NextTracks ==
    ASSUME IInv, [Next]_vars
    PROVE  Tracks(store, store')
<1>1. Tracks(store, store) /\ store \in StoreType
  BY SameTracks DEF IInv, TypeOK
<1>2. ASSUME NEW k \in Key, store' = GetLive(k) PROVE Tracks(store, store')
  BY <1>2, GetLiveTracks
<1>3. ASSUME NEW h \in Handler, Handle(h) PROVE Tracks(store, store')
  <2>1. ASSUME NEW k \in Key, NEW p \in Requests(h, k), Begin(h, p) PROVE store' = GetLive(k)
    BY <2>1, RequestsType DEF Begin
  <2>2. CASE Commit(h)
    BY <2>2, SaveTracks, OpsTracks, OtherCommitsTrack DEF Commit
  <2>3. QED BY <1>2, <1>3, <2>1, <2>2 DEF Handle, Get, AuthCredential
<1>4. ASSUME NEW k \in Key, SetPassword(k) PROVE Tracks(store, store')
  <2>1. PICK current \in Password \cup {None}, lock \in LockType : Relock(k, current, lock)
    BY <1>4, SetPasswordRelocks
  <2>2. GetLive(k) \in StoreType /\ Tracks(store, GetLive(k))
    BY GetLiveTracks
  <2>3. \E r : store' = Rewrite(GetLive(k), k, r)
    BY <2>1 DEF Relock
  <2>4. QED BY <2>2, <2>3, WriteTracks, TracksTwice
<1>5. ASSUME NEW k \in Key, Peek(k) PROVE Tracks(store, store')
  BY <1>2, <1>5 DEF Peek
<1>6. CASE CleanupExpired
  <2>1. Expired(store) \in SUBSET Key
    BY DEF Expired, Present
  <2>2. QED BY <1>1, <1>6, <2>1, RemoveTracks DEF CleanupExpired
<1>7. CASE Tick
  BY <1>1, <1>7 DEF Tick
<1>8. CASE UNCHANGED vars
  BY <1>1, <1>8 DEF vars
<1>9. QED BY <1>3, <1>4, <1>5, <1>6, <1>7, <1>8 DEF Next

-----------------------------------------------------------------------------
(* The flusher                                                             *)

\* A room with a flag to remove that is there again is to be written.
RemovalsFirst ==
    /\ \A k \in store.deleted : store.items[k] = None \/ k \in store.dirty
    /\ \A k \in flusher.removing :
          store.items[k] = None \/ k \in store.dirty \cup flusher.writing

\* Since it was copied, the room has stayed, or has been flagged again.
CopyInv ==
    /\ flusher.at = "files" => flusher.key = None
    /\ flusher.at \in {"rename", "recheck"} =>
          /\ flusher.key \in Key /\ flusher.removing = {}
          /\ \/ Lasting(store.items[flusher.key]) = Lasting(flusher.snap)
             \/ flusher.key \in Marked(store)
    /\ flusher.at = "recheck" => disk[flusher.key] = flusher.snap

\* NoLostWrite is not inductive: a file is right after its rename only because
\* a room changed since its copy is flagged, and after its removal only because
\* a room created again is.
DiskInv ==
    /\ IInv
    /\ disk \in [Key -> RoomType \cup {None}]
    /\ flusher \in FlusherType
    /\ RemovalsFirst
    /\ CopyInv
    /\ NoLostWrite

\* A step of the store, with the flusher and the files as they are.
LEMMA StoreStep ==
    ASSUME DiskInv, [Next]_vars, UNCHANGED diskVars
    PROVE  DiskInv'
<1>1. IInv' /\ Tracks(store, store')
  BY NextInv, NextTracks DEF DiskInv
<1>2. /\ disk' = disk /\ flusher' = flusher /\ behind' = behind
      /\ store.deleted \in SUBSET Key /\ flusher \in FlusherType
      /\ store'.deleted \in SUBSET Key
  BY <1>1 DEF diskVars, DiskInv, IInv, TypeOK, StoreType
<1>3. RemovalsFirst'
  <2>1. ASSUME NEW k \in store'.deleted
        PROVE  store'.items[k] = None \/ k \in store'.dirty
    BY <1>1, <1>2 DEF Tracks, DiskInv, RemovalsFirst
  <2>2. ASSUME NEW k \in flusher.removing
        PROVE  store'.items[k] = None \/ k \in store'.dirty \cup flusher.writing
    <3>1. k \in Key
      BY <1>2 DEF FlusherType
    <3>2. store.items[k] = None \/ k \in store.dirty \cup flusher.writing
      BY DEF DiskInv, RemovalsFirst
    <3>3. QED BY <1>1, <3>1, <3>2 DEF Tracks
  <2>3. QED BY <1>2, <2>1, <2>2 DEF RemovalsFirst
<1>4. ASSUME NEW k \in Key, k \in Marked(store) PROVE k \in Marked(store')
  BY <1>1, <1>4 DEF Tracks, Marked
<1>5. CopyInv'
  BY <1>1, <1>2, <1>4 DEF DiskInv, CopyInv, Tracks
<1>6. NoLostWrite'
  <2> SUFFICES ASSUME NEW k \in Key
               PROVE  \/ Lasting(store'.items[k]) = Lasting(disk[k])
                      \/ k \in Marked(store') \cup flusher.removing \cup flusher.writing
                                 \cup ({flusher.key} \ {None}) \cup behind
    BY <1>2 DEF NoLostWrite, InFlight, Marked
  <2>1. \/ Lasting(store.items[k]) = Lasting(disk[k])
        \/ k \in Marked(store) \cup flusher.removing \cup flusher.writing
                   \cup ({flusher.key} \ {None}) \cup behind
    BY DEF DiskInv, NoLostWrite, InFlight, Marked
  <2>2. Lasting(store'.items[k]) = Lasting(store.items[k]) \/ k \in Marked(store')
    BY <1>1 DEF Tracks
  <2>3. QED BY <1>4, <2>1, <2>2
<1>7. QED BY <1>1, <1>2, <1>3, <1>5, <1>6 DEF DiskInv

\* The flusher's steps touch the store's flags only, or remove an expired room
\* as any read does.
LEMMA FlagsInv ==
    ASSUME StoreInv(store), NEW n \in StoreType,
           n.items = store.items, n.sizeBy = store.sizeBy, n.total = store.total
    PROVE  StoreInv(n)
BY DEF StoreInv, Charged, Present

\* Taking the flags moves them into the round.
LEMMA TakeFlagsStep ==
    ASSUME DiskInv, flusher = Waiting, TakeFlags
    PROVE  DiskInv'
<1>1. /\ IInv /\ StoreInv(store) /\ store \in StoreType
      /\ store.dirty \in SUBSET Key /\ store.deleted \in SUBSET Key
  BY DEF DiskInv, IInv, TypeOK, StoreType
<1>2. /\ store' = [store EXCEPT !.dirty = {}, !.deleted = {}]
      /\ UNCHANGED <<now, pending, session, salts, disk, behind>>
      /\ flusher' = [flusher EXCEPT !.removing = store.deleted, !.writing = store.dirty]
  BY DEF TakeFlags, Take
<1>3. StoreInv(store') /\ store'.items = store.items /\ Marked(store') = {}
  <2>1. /\ store' \in StoreType /\ store'.items = store.items
        /\ store'.sizeBy = store.sizeBy /\ store'.total = store.total
        /\ store'.dirty = {} /\ store'.deleted = {}
    BY <1>1, <1>2 DEF StoreType
  <2>2. QED BY <1>1, <2>1, FlagsInv DEF Marked
<1>4. IInv'
  BY <1>1, <1>2, <1>3 DEF IInv, TypeOK, StoreInv
<1>5. /\ flusher'.at = "files" /\ flusher'.key = None
      /\ flusher'.removing = store.deleted /\ flusher'.writing = store.dirty
      /\ flusher' \in FlusherType
  BY <1>1, <1>2 DEF Waiting, FlusherType
<1>6. RemovalsFirst' /\ CopyInv'
  BY <1>3, <1>5 DEF DiskInv, RemovalsFirst, CopyInv, Marked
<1>7. NoLostWrite'
  <2>1. InFlight \subseteq InFlight'
    BY <1>5 DEF InFlight, Waiting
  <2>2. QED BY <1>2, <1>3, <2>1 DEF DiskInv, NoLostWrite
<1>8. QED BY <1>2, <1>4, <1>5, <1>6, <1>7 DEF DiskInv

\* A removal, done or failed: if the room is there again it is to be written.
LEMMA RemoveFileStep ==
    ASSUME DiskInv, NEW k \in Key, RemoveFile(k)
    PROVE  DiskInv'
<1>1. /\ flusher.at = "files" /\ k \in flusher.removing /\ flusher \in FlusherType
      /\ UNCHANGED vars /\ flusher.key = None
      /\ disk \in [Key -> RoomType \cup {None}]
  BY DEF RemoveFile, DiskInv, CopyInv
<1>2. IInv' /\ store' = store
  BY <1>1 DEF vars, DiskInv, IInv, TypeOK, StoreInv, Charged, Present
<1>3. /\ flusher' \in FlusherType /\ flusher'.at = "files" /\ flusher'.key = None
      /\ flusher'.removing = flusher.removing \ {k} /\ flusher'.writing = flusher.writing
  BY <1>1 DEF RemoveFile, FlusherType
<1>4. /\ disk' \in [Key -> RoomType \cup {None}]
      /\ \A j \in Key \ {k} : disk'[j] = disk[j] /\ (j \in behind => j \in behind')
      /\ disk'[k] = None \/ k \in behind'
  BY <1>1 DEF RemoveFile, Removed, Failed
<1>5. RemovalsFirst' /\ CopyInv'
  BY <1>2, <1>3 DEF DiskInv, RemovalsFirst, CopyInv
<1>6. NoLostWrite'
  <2> SUFFICES ASSUME NEW j \in Key
               PROVE  Lasting(store.items[j]) = Lasting(disk'[j]) \/ j \in InFlight' \cup behind'
    BY <1>2 DEF NoLostWrite
  <2>1. CASE j = k
    <3>1. store.items[k] = None \/ k \in store.dirty \cup flusher.writing
      BY <1>1 DEF DiskInv, RemovalsFirst
    <3>2. QED BY <1>2, <1>3, <1>4, <2>1, <3>1 DEF InFlight
  <2>2. CASE j # k
    <3>1. Lasting(store.items[j]) = Lasting(disk[j]) \/ j \in InFlight \cup behind
      BY DEF DiskInv, NoLostWrite
    <3>2. QED BY <1>1, <1>2, <1>3, <1>4, <2>2, <3>1 DEF InFlight
  <2>3. QED BY <2>1, <2>2
<1>7. QED BY <1>2, <1>3, <1>4, <1>5, <1>6 DEF DiskInv

\* The copy of a room is the room, until something flags it.
LEMMA SnapshotStep ==
    ASSUME DiskInv, NEW k \in Key, Snapshot(k)
    PROVE  DiskInv'
<1> DEFINE live == GetLive(k)
<1>1. /\ IInv /\ live \in StoreType /\ StoreInv(live) /\ Tracks(store, live)
      /\ flusher.at = "files" /\ flusher.removing = {} /\ k \in flusher.writing
      /\ flusher \in FlusherType /\ store' = live
      /\ UNCHANGED <<now, pending, session, salts, disk, behind>>
  BY GetLiveTracks DEF Snapshot, DiskInv
<1>2. IInv'
  BY <1>1 DEF IInv, TypeOK, StoreInv
<1>3. live.items[k] \in RoomType \cup {None}
  BY <1>1, PartsType
<1>4. flusher' = [flusher EXCEPT !.at = "rename", !.key = k, !.writing = @ \ {k},
                                 !.snap = live.items[k]]
  BY DEF Snapshot
<1> HIDE DEF live
<1>5. /\ flusher' \in FlusherType /\ flusher'.at = "rename" /\ flusher'.key = k
      /\ flusher'.removing = {} /\ flusher'.writing = flusher.writing \ {k}
      /\ flusher'.snap = live.items[k]
  BY <1>1, <1>3, <1>4 DEF FlusherType
<1>6. RemovalsFirst'
  <2>1. \A j \in live.deleted : j \in Key
    BY <1>1 DEF StoreType
  <2>2. QED BY <1>1, <1>5, <2>1 DEF DiskInv, RemovalsFirst, Tracks
<1>7. CopyInv'
  BY <1>1, <1>5 DEF CopyInv
<1>8. NoLostWrite'
  <2> SUFFICES ASSUME NEW j \in Key
               PROVE  Lasting(live.items[j]) = Lasting(disk[j]) \/ j \in InFlight' \cup behind
    BY <1>1 DEF NoLostWrite
  <2>1. Lasting(store.items[j]) = Lasting(disk[j]) \/ j \in InFlight \cup behind
    BY DEF DiskInv, NoLostWrite
  <2>2. /\ Lasting(live.items[j]) = Lasting(store.items[j]) \/ j \in Marked(live)
        /\ j \in Marked(store) => j \in Marked(live)
    BY <1>1 DEF Tracks, Marked
  <2>3. flusher.key = None
    BY <1>1 DEF DiskInv, CopyInv
  <2>4. CASE j = k
    BY <1>5, <2>4, PersistenceAssumption DEF InFlight
  <2>5. CASE j # k
    BY <1>1, <1>5, <2>1, <2>2, <2>3, <2>5 DEF InFlight, Marked
  <2>6. QED BY <2>4, <2>5
<1>9. QED BY <1>1, <1>2, <1>5, <1>6, <1>7, <1>8 DEF DiskInv

\* The room behind the file in hand, and what is known of the others.
LEMMA Others ==
    ASSUME DiskInv, NEW j \in Key, j # flusher.key
    PROVE  \/ Lasting(store.items[j]) = Lasting(disk[j])
           \/ j \in Marked(store) \cup flusher.removing \cup flusher.writing \cup behind
BY DEF DiskInv, NoLostWrite, InFlight, Marked

\* NextFile puts the file in hand away.
LEMMA NextFileParts ==
    ASSUME flusher \in FlusherType, flusher' = NextFile
    PROVE  /\ flusher' \in FlusherType /\ flusher'.at = "files" /\ flusher'.key = None
           /\ flusher'.removing = flusher.removing /\ flusher'.writing = flusher.writing
BY DEF NextFile, FlusherType

\* The end of a file: the store is as it was, but for a flag to write on the
\* file in hand, and the file follows its room, is flagged or has failed.
LEMMA PutAway ==
    ASSUME DiskInv, flusher.at \in {"rename", "recheck"}, flusher' = NextFile,
           IInv', UNCHANGED <<store.items, store.deleted>>,
           store'.dirty \in {store.dirty, store.dirty \cup {flusher.key}},
           disk' \in [Key -> RoomType \cup {None}],
           \A j \in Key \ {flusher.key} :
              disk'[j] = disk[j] /\ (j \in behind => j \in behind'),
           \/ Lasting(store.items[flusher.key]) = Lasting(disk'[flusher.key])
           \/ flusher.key \in Marked(store') \cup behind'
    PROVE  DiskInv'
<1>1. /\ flusher.key \in Key /\ flusher.removing = {} /\ flusher \in FlusherType
  BY DEF DiskInv, CopyInv
<1>2. /\ flusher' \in FlusherType /\ flusher'.at = "files" /\ flusher'.key = None
      /\ flusher'.removing = {} /\ flusher'.writing = flusher.writing
  BY <1>1, NextFileParts
<1>3. store.dirty \subseteq store'.dirty
  OBVIOUS
<1>4. RemovalsFirst' /\ CopyInv'
  BY <1>2, <1>3 DEF DiskInv, RemovalsFirst, CopyInv
<1>5. NoLostWrite'
  <2> SUFFICES ASSUME NEW j \in Key
               PROVE  \/ Lasting(store.items[j]) = Lasting(disk'[j])
                      \/ j \in Marked(store') \cup flusher'.writing \cup behind'
    BY DEF NoLostWrite, InFlight, Marked
  <2>1. CASE j = flusher.key
    BY <2>1
  <2>2. CASE j # flusher.key
    BY <1>1, <1>2, <1>3, <2>2, Others DEF Marked
  <2>3. QED BY <2>1, <2>2
<1>6. QED BY <1>2, <1>4, <1>5 DEF DiskInv

\* The flusher's steps without the lock leave the store alone.
LEMMA StoreAlone ==
    ASSUME IInv, UNCHANGED vars
    PROVE  IInv' /\ store' = store
BY DEF vars, IInv, TypeOK, StoreInv, Charged, Present

LEMMA RemovedOrFailed ==
    ASSUME disk \in [Key -> RoomType \cup {None}], NEW k \in Key, Removed(k) \/ Failed(k)
    PROVE  /\ disk' \in [Key -> RoomType \cup {None}]
           /\ \A j \in Key \ {k} : disk'[j] = disk[j] /\ (j \in behind => j \in behind')
           /\ disk'[k] = None \/ k \in behind'
BY DEF Removed, Failed

\* The copy found no room: if there is one by now, it has been flagged since.
LEMMA RemoveMissingStep ==
    ASSUME DiskInv, RemoveMissing
    PROVE  DiskInv'
<1>1. /\ flusher.at = "rename" /\ flusher.snap = None /\ flusher' = NextFile
      /\ Removed(flusher.key) \/ Failed(flusher.key)
      /\ flusher.key \in Key /\ disk \in [Key -> RoomType \cup {None}]
      /\ \/ Lasting(store.items[flusher.key]) = Lasting(None)
         \/ flusher.key \in Marked(store)
  BY DEF RemoveMissing, DiskInv, CopyInv
<1>2. IInv' /\ store' = store
  BY StoreAlone DEF RemoveMissing, DiskInv
<1>3. /\ disk' \in [Key -> RoomType \cup {None}]
      /\ \A j \in Key \ {flusher.key} :
            disk'[j] = disk[j] /\ (j \in behind => j \in behind')
      /\ disk'[flusher.key] = None \/ flusher.key \in behind'
  BY <1>1, RemovedOrFailed
<1>4. QED BY <1>1, <1>2, <1>3, PutAway

LEMMA WriteFailsStep ==
    ASSUME DiskInv, WriteFails
    PROVE  DiskInv'
<1>1. /\ flusher.at = "rename" /\ flusher' = NextFile /\ Failed(flusher.key)
      /\ flusher.key \in Key /\ disk \in [Key -> RoomType \cup {None}]
  BY DEF WriteFails, DiskInv, CopyInv
<1>2. IInv' /\ store' = store
  BY StoreAlone DEF WriteFails, DiskInv
<1>3. disk' = disk /\ behind' = behind \cup {flusher.key}
  BY <1>1 DEF Failed
<1>4. QED BY <1>1, <1>2, <1>3, PutAway

\* The file holds the copy from here to the check.
LEMMA RenameStep ==
    ASSUME DiskInv, Rename
    PROVE  DiskInv'
<1>1. /\ flusher.at = "rename" /\ flusher.snap # None /\ flusher \in FlusherType
      /\ flusher.key \in Key /\ disk \in [Key -> RoomType \cup {None}]
      /\ flusher' = [flusher EXCEPT !.at = "recheck"]
      /\ disk' = [disk EXCEPT ![flusher.key] = flusher.snap]
      /\ behind' = behind \ {flusher.key}
  BY DEF Rename, DiskInv, CopyInv
<1>2. IInv' /\ store' = store
  BY StoreAlone DEF Rename, DiskInv
<1>3. /\ flusher' \in FlusherType /\ flusher'.at = "recheck"
      /\ flusher'.key = flusher.key /\ flusher'.snap = flusher.snap
      /\ flusher'.removing = flusher.removing /\ flusher'.writing = flusher.writing
  BY <1>1 DEF FlusherType
<1>4. /\ flusher.snap \in RoomType \cup {None}
      /\ disk' \in [Key -> RoomType \cup {None}]
      /\ \A j \in Key \ {flusher.key} : disk'[j] = disk[j]
      /\ disk'[flusher.key] = flusher.snap
  BY <1>1 DEF FlusherType
<1>5. RemovalsFirst' /\ CopyInv'
  BY <1>1, <1>2, <1>3, <1>4 DEF DiskInv, RemovalsFirst, CopyInv
<1>6. NoLostWrite'
  <2> SUFFICES ASSUME NEW j \in Key
               PROVE  Lasting(store.items[j]) = Lasting(disk'[j]) \/ j \in InFlight' \cup behind'
    BY <1>2 DEF NoLostWrite
  <2>1. CASE j = flusher.key
    BY <1>3, <2>1, PersistenceAssumption DEF InFlight
  <2>2. CASE j # flusher.key
    BY <1>1, <1>2, <1>3, <1>4, <2>2, Others DEF InFlight, Marked
  <2>3. QED BY <2>1, <2>2
<1>7. QED BY <1>2, <1>3, <1>4, <1>5, <1>6 DEF DiskInv

\* A room that has gone takes its file with it, one that has not followed its
\* copy was flagged when it changed.
LEMMA RecheckStep ==
    ASSUME DiskInv, Recheck
    PROVE  DiskInv'
<1> DEFINE k == flusher.key
           r == store.items[k]
<1>1. /\ flusher.at = "recheck" /\ flusher' = NextFile /\ k \in Key
      /\ disk \in [Key -> RoomType \cup {None}] /\ disk[k] = flusher.snap
      /\ Lasting(r) = Lasting(flusher.snap) \/ k \in Marked(store)
      /\ IInv /\ store \in StoreType /\ StoreInv(store)
      /\ UNCHANGED <<now, pending, session, salts>>
  BY DEF Recheck, DiskInv, CopyInv, IInv, TypeOK
<1>2. CASE r = None
  <2>1. (Removed(k) \/ Failed(k)) /\ store' = store
    BY <1>2 DEF Recheck
  <2>2. IInv'
    BY <1>1, <2>1, StoreAlone DEF vars
  <2>3. /\ disk' \in [Key -> RoomType \cup {None}]
        /\ \A j \in Key \ {k} : disk'[j] = disk[j] /\ (j \in behind => j \in behind')
        /\ disk'[k] = None \/ k \in behind'
    BY <1>1, <2>1, RemovedOrFailed
  <2>4. QED BY <1>1, <1>2, <2>1, <2>2, <2>3, PutAway
<1>3. CASE r # None
  <2>1. /\ store' = IF Stale(r, flusher.snap)
                    THEN [store EXCEPT !.dirty = @ \cup {k}] ELSE store
        /\ disk' = disk /\ behind' = behind
    BY <1>3 DEF Recheck
  <2> HIDE DEF r, k
  <2>2. /\ store' \in StoreType /\ store'.items = store.items
        /\ store'.sizeBy = store.sizeBy /\ store'.total = store.total
        /\ store'.deleted = store.deleted
        /\ store'.dirty \in {store.dirty, store.dirty \cup {k}}
    BY <1>1, <2>1 DEF StoreType
  <2>3. IInv'
    BY <1>1, <2>2, FlagsInv DEF IInv, TypeOK, StoreInv
  <2>4. Marked(store) \subseteq Marked(store')
    BY <2>2 DEF Marked
  <2>5. QED BY <1>1, <2>1, <2>2, <2>3, <2>4, PutAway DEF r, k
<1>4. QED BY <1>2, <1>3

-----------------------------------------------------------------------------
(* loadPersisted                                                           *)

Loading == [st : StoreType, gone : SUBSET Key, full : BOOLEAN]

\* What has been loaded, and what has been removed as expired, after n files.
LoadedInv(acc, n) ==
    /\ StoreInv(acc.st)
    /\ acc.st.dirty = {} /\ acc.st.deleted = {}
    /\ \A k \in Key : acc.st.items[k] = None \/ acc.st.items[k] = disk[k]
    /\ \A k \in acc.gone :
          acc.st.items[k] = None /\ disk[k] # None /\ disk[k].exp <= now
    /\ \A k \in Key :
          acc.st.items[k] # None \/ k \in acc.gone => \E i \in 1 .. n : KeyOrder[i] = k

Taken(st, k, snap, g) ==
    [st EXCEPT !.items[k] = snap, !.sizeBy[k] = Bytes(snap),
               !.total = @ + Bytes(snap), !.nextGeneration = g]

\* A room that has not been loaded yet, and fits.
LEMMA TakeRoom ==
    ASSUME NEW st, StoreInv(st), NEW k \in Key, NEW snap \in RoomType,
           st.items[k] = None, Cardinality(Present(st)) < MaxRooms, FitsBudget(st, snap),
           NEW g \in Nat
    PROVE  /\ StoreInv(Taken(st, k, snap, g))
           /\ Taken(st, k, snap, g).items = [st.items EXCEPT ![k] = snap]
           /\ Taken(st, k, snap, g).dirty = st.dirty
           /\ Taken(st, k, snap, g).deleted = st.deleted
<1> DEFINE m == Put(st, k, snap)
           n == Taken(st, k, snap, g)
           rooms == [st.items EXCEPT ![k] = snap]
           sizes == [st.sizeBy EXCEPT ![k] = Bytes(snap)]
           total == st.total + Bytes(snap)
<1>1. /\ st \in StoreType /\ st.sizeBy[k] = 0 /\ st.total \in Int
      /\ st.total + Bytes(snap) <= MaxTotal /\ Bytes(snap) \in Nat
  BY BytesType DEF StoreInv, Charged, StoreType, FitsBudget
<1>2. st.total + Bytes(snap) - st.sizeBy[k] <= MaxTotal
  BY <1>1
<1>3. StoreInv(m)
  BY <1>2, PutInv
<1>4. m.items = rooms /\ m.sizeBy = sizes
  BY <1>1 DEF Put, StoreType
<1>5. m.total = total
  <2>1. m.total = st.total - st.sizeBy[k] + Bytes(snap)
    BY <1>1 DEF Put, StoreType
  <2>2. QED BY <1>1, <2>1
<1>6. rooms \in [Key -> RoomType \cup {None}] /\ sizes \in [Key -> Nat] /\ total \in Int
  BY <1>1 DEF StoreType
<1>7. n = [st EXCEPT !.items = rooms, !.sizeBy = sizes, !.total = total, !.nextGeneration = g]
  BY <1>1 DEF Taken, StoreType
<1> HIDE DEF m, n, rooms, sizes, total
<1>8. /\ n \in StoreType /\ n.items = rooms /\ n.sizeBy = sizes /\ n.total = total
      /\ n.dirty = st.dirty /\ n.deleted = st.deleted
  BY <1>1, <1>6, <1>7 DEF StoreType
<1>9. StoreInv(n)
  BY <1>3, <1>4, <1>5, <1>8 DEF StoreInv, Charged, Present
<1>10. QED BY <1>8, <1>9 DEF n, rooms

\* One turn of the loop.
LEMMA LoadFileInv ==
    ASSUME DiskInv, NEW n \in 1 .. Len(KeyOrder), NEW acc \in Loading, LoadedInv(acc, n - 1)
    PROVE  LoadedInv(LoadFile(acc, KeyOrder[n]), n)
<1> DEFINE k == KeyOrder[n]
           snap == disk[k]
           st == acc.st
           g == IF st.nextGeneration < snap.gen THEN snap.gen ELSE st.nextGeneration
           more == Taken(st, k, snap, g)
           next == LoadFile(acc, k)
<1> SUFFICES LoadedInv(next, n)
  OBVIOUS
<1>0. Len(KeyOrder) \in Nat /\ DOMAIN KeyOrder = 1 .. Len(KeyOrder) /\ KeyOrder \in Seq(Key)
  BY PersistenceAssumption
<1>1. k \in Key /\ snap \in RoomType \cup {None} /\ StoreInv(st) /\ st \in StoreType
  BY <1>0 DEF DiskInv, Loading, LoadedInv
<1>2. \A i \in 1 .. n - 1 : i \in 1 .. n /\ KeyOrder[i] # k
  <2>1. \A i \in 1 .. n - 1 : i \in DOMAIN KeyOrder /\ n \in DOMAIN KeyOrder /\ i # n /\ i \in 1 .. n
    BY <1>0
  <2>2. QED BY <2>1, PersistenceAssumption
<1>3. st.items[k] = None /\ k \notin acc.gone
  BY <1>1, <1>2 DEF LoadedInv
<1>4. ASSUME next.st = st, next.gone = acc.gone PROVE LoadedInv(next, n)
  BY <1>2, <1>4 DEF LoadedInv
<1>5. CASE snap = None \/ acc.full
  BY <1>4, <1>5 DEF LoadFile
<1>6. CASE ~(snap = None \/ acc.full) /\ snap.exp <= now
  <2>1. next.st = st /\ next.gone = acc.gone \cup {k}
    BY <1>6 DEF LoadFile, Loading
  <2>2. n \in 1 .. n  BY <1>0
  <2> HIDE DEF next, st, snap
  <2>3. QED BY <1>1, <1>2, <1>3, <1>6, <2>1, <2>2 DEF LoadedInv, snap, st
<1>7. CASE /\ ~(snap = None \/ acc.full) /\ ~(snap.exp <= now)
           /\ Cardinality(Present(st)) >= MaxRooms
  <2>1. next.st = st /\ next.gone = acc.gone
    BY <1>7 DEF LoadFile, Loading
  <2>2. QED BY <1>4, <2>1
<1>8. CASE /\ ~(snap = None \/ acc.full) /\ ~(snap.exp <= now)
           /\ ~(Cardinality(Present(st)) >= MaxRooms) /\ ~FitsBudget(st, snap)
  BY <1>4, <1>8 DEF LoadFile
<1>9. CASE /\ ~(snap = None \/ acc.full) /\ ~(snap.exp <= now)
           /\ ~(Cardinality(Present(st)) >= MaxRooms) /\ FitsBudget(st, snap)
  <2>1. next.st = more /\ next.gone = acc.gone
    BY <1>9 DEF LoadFile, Loading, Taken
  <2>2. snap \in RoomType /\ g \in Nat
    BY <1>1, <1>9 DEF RoomType, StoreType
  <2>3. Cardinality(Present(st)) < MaxRooms
    <3>1. Cardinality(Present(st)) \in Nat /\ MaxRooms \in Nat
      BY ConstantsAssumption, FS_Subset, FS_CardinalityType DEF Present
    <3>2. QED BY <1>9, <3>1
  <2> HIDE DEF g, st, snap
  <2>4. /\ StoreInv(more) /\ more.items = [st.items EXCEPT ![k] = snap]
        /\ more.dirty = st.dirty /\ more.deleted = st.deleted
    BY <1>1, <1>3, <1>9, <2>2, <2>3, TakeRoom
  <2> USE DEF st, snap
  <2>5. n \in 1 .. n  BY <1>0
  <2>6. more.items[k] = snap /\ \A j \in Key \ {k} : more.items[j] = st.items[j]
    BY <1>1, <2>4 DEF StoreType
  <2> HIDE DEF more, next
  <2>7. QED BY <1>1, <1>2, <1>3, <2>1, <2>4, <2>5, <2>6 DEF LoadedInv
<1>10. QED BY <1>5, <1>6, <1>7, <1>8, <1>9

\* A turn leads from one such record to another.
LEMMA LoadFileType ==
    ASSUME DiskInv, NEW acc \in Loading, NEW k \in Key
    PROVE  LoadFile(acc, k) \in Loading
<1> DEFINE snap == disk[k]
           st == acc.st
           g == IF st.nextGeneration < snap.gen THEN snap.gen ELSE st.nextGeneration
           rooms == [st.items EXCEPT ![k] = snap]
           sizes == [st.sizeBy EXCEPT ![k] = Bytes(snap)]
           total == st.total + Bytes(snap)
           more == Taken(st, k, snap, g)
<1>1. snap \in RoomType \cup {None} /\ st \in StoreType
  BY DEF DiskInv, Loading
<1>2. \/ LoadFile(acc, k) \in {acc, [acc EXCEPT !.gone = @ \cup {k}], [acc EXCEPT !.full = TRUE]}
      \/ snap # None /\ LoadFile(acc, k) = [acc EXCEPT !.st = more]
  BY DEF LoadFile, Taken
<1>3. acc \in Loading /\ [acc EXCEPT !.gone = @ \cup {k}] \in Loading
  BY DEF Loading
<1>4. [acc EXCEPT !.full = TRUE] \in Loading
  BY DEF Loading
<1>5. ASSUME snap # None PROVE more \in StoreType
  <2>1. Bytes(snap) \in Nat /\ snap.gen \in Nat /\ g \in Nat
    BY <1>1, <1>5, BytesType DEF RoomType, StoreType
  <2>2. rooms \in [Key -> RoomType \cup {None}] /\ sizes \in [Key -> Nat] /\ total \in Int
    BY <1>1, <2>1 DEF StoreType
  <2>3. more = [st EXCEPT !.items = rooms, !.sizeBy = sizes, !.total = total, !.nextGeneration = g]
    BY <1>1 DEF Taken, StoreType
  <2> HIDE DEF more, rooms, sizes, total, g, st
  <2>4. QED BY <1>1, <2>1, <2>2, <2>3 DEF StoreType
<1>6. ASSUME snap # None PROVE [acc EXCEPT !.st = more] \in Loading
  <2> HIDE DEF more
  <2>1. QED BY <1>5, <1>6 DEF Loading
<1>7. QED BY <1>2, <1>3, <1>4, <1>6

LEMMA NewStoreInv ==
    ASSUME DiskInv
    PROVE  LET acc == [st |-> NewStore, gone |-> {}, full |-> FALSE]
           IN  acc \in Loading /\ LoadedInv(acc, 0)
<1> DEFINE sizes == [k \in Key |-> 0]
<1>1. /\ NewStore \in StoreType /\ NewStore.items = [k \in Key |-> None]
      /\ NewStore.sizeBy = sizes /\ NewStore.total = 0
      /\ NewStore.dirty = {} /\ NewStore.deleted = {}
  BY DEF NewStore, DiskInv, IInv, TypeOK, StoreType
<1>2. Units(sizes) = {}  BY DEF Units
<1>3. SumOf(sizes) = 0 /\ Cardinality(Present(NewStore)) = 0
  BY <1>1, <1>2, FS_EmptySet DEF SumOf, Present
<1>4. StoreInv(NewStore)
  <2>1. Charged(NewStore)  BY <1>1 DEF Charged
  <2> HIDE DEF sizes
  <2>2. QED BY <1>1, <1>3, <2>1, ConstantsAssumption DEF StoreInv
<1>5. QED BY <1>1, <1>4 DEF Loading, LoadedInv

\* The whole loop.
LEMMA LoadPersistedInv ==
    ASSUME DiskInv
    PROVE  LoadPersisted \in Loading /\ \E n : LoadedInv(LoadPersisted, n)
<1> DEFINE N == Len(KeyOrder)
           base == [st |-> NewStore, gone |-> {}, full |-> FALSE]
           Loop(k) == k = [n \in 0 .. N |-> IF n = 0 THEN base ELSE LoadFile(k[n - 1], KeyOrder[n])]
           step == [p \in Nat \X Loading |->
                       IF p[1] \in 1 .. N THEN LoadFile(p[2], KeyOrder[p[1]]) ELSE p[2]]
           loaded == CHOOSE k : Loop(k)
<1>1. N \in Nat /\ \A n \in 1 .. N : KeyOrder[n] \in Key
  BY PersistenceAssumption
<1>2. base \in Loading /\ LoadedInv(base, 0)
  BY NewStoreInv
<1> HIDE DEF base
<1>3. \E k : Loop(k)
  <2>1. step \in [Nat \X Loading -> Loading]
    BY <1>1, LoadFileType
  <2>2. \A n \in Nat, acc \in Loading :
            step[<<n, acc>>] = IF n \in 1 .. N THEN LoadFile(acc, KeyOrder[n]) ELSE acc
    OBVIOUS
  <2> HIDE DEF step, N
  <2>3. PICK k \in [0 .. N -> Loading] : Induction!Loops(k, N, base, step)
    BY <1>1, <1>2, <2>1, Induction!LoopExists
  <2>4. ASSUME NEW n \in 0 .. N, n # 0 PROVE step[<<n, k[n - 1]>>] = LoadFile(k[n - 1], KeyOrder[n])
    <3>1. n \in Nat /\ n \in 1 .. N /\ n - 1 \in 0 .. N  BY <1>1, <2>4
    <3>2. QED BY <3>1, <2>2
  <2>5. Loop(k)  BY <2>3, <2>4 DEF Induction!Loops
  <2>6. QED BY <2>5
<1>4. LoadPersisted = loaded[N]
  BY DEF LoadPersisted, base
<1>5. Loop(loaded)
  <2> HIDE DEF Loop
  <2>1. QED BY <1>3
<1> HIDE DEF loaded, N
<1>6. loaded[0] = base /\ \A n \in 1 .. N : loaded[n] = LoadFile(loaded[n - 1], KeyOrder[n])
  BY <1>1, <1>5
<1> DEFINE T == {n \in Nat : n <= N => loaded[n] \in Loading /\ LoadedInv(loaded[n], n)}
<1>7. 0 \in T
  BY <1>2, <1>6
<1>8. ASSUME NEW n \in T PROVE n + 1 \in T
  <2> SUFFICES ASSUME n + 1 <= N
               PROVE  loaded[n + 1] \in Loading /\ LoadedInv(loaded[n + 1], n + 1)
    OBVIOUS
  <2>1. n + 1 \in 1 .. N /\ (n + 1) - 1 = n /\ n <= N
    BY <1>1
  <2>2. loaded[n] \in Loading /\ LoadedInv(loaded[n], (n + 1) - 1)
    BY <2>1
  <2>3. loaded[n + 1] = LoadFile(loaded[n], KeyOrder[n + 1])
    BY <1>6, <2>1
  <2>4. QED BY <1>1, <2>1, <2>2, <2>3, LoadFileType, LoadFileInv DEF N
<1>9. T = Nat
  <2> HIDE DEF T
  <2>1. T \in SUBSET Nat  BY DEF T
  <2>2. QED BY <1>7, <1>8, <2>1, Induction!SetInduction
<1>10. QED BY <1>1, <1>4, <1>9

\* A restart finds every room again whose file kept up with it, or an expired
\* file, or passes the file over; the flusher begins anew.
LEMMA RestartStep ==
    ASSUME DiskInv, Restart
    PROVE  /\ DiskInv'
           /\ \A k \in Key \ (InFlight \cup behind) :
                 LET r == store.items[k]
                 IN  \/ Lasting(store'.items[k]) = Lasting(r)
                     \/ /\ store'.items[k] = None /\ disk[k] # None
                        /\ disk[k].exp <= now \/ k \in behind'
<1> DEFINE acc == LoadPersisted
<1>1. PICK n : acc \in Loading /\ LoadedInv(acc, n)
  BY LoadPersistedInv
<1>2. /\ store' = acc.st
      /\ disk' = [k \in Key |-> IF k \in acc.gone THEN None ELSE disk[k]]
      /\ behind' = {k \in Key : disk'[k] # None /\ acc.st.items[k] = None}
      /\ pending' = [h \in Handler |-> None]
      /\ session' = [h \in Handler |-> [session[h] EXCEPT !.cred = 0, !.proved = None]]
      /\ flusher' = Waiting /\ UNCHANGED <<now, salts>>
  BY DEF Restart
<1> HIDE DEF acc
<1>3. /\ StoreInv(acc.st) /\ acc.st.dirty = {} /\ acc.st.deleted = {} /\ acc.st \in StoreType
      /\ \A k \in Key : acc.st.items[k] = None \/ acc.st.items[k] = disk[k]
      /\ \A k \in acc.gone : acc.st.items[k] = None /\ disk[k] # None /\ disk[k].exp <= now
  BY <1>1 DEF LoadedInv, Loading
<1>4. IInv'
  <2>1. session' \in [Handler -> SessionType]
    BY <1>2 DEF DiskInv, IInv, TypeOK, SessionType
  <2>2. StoreInv(store')  BY <1>2, <1>3
  <2>3. pending' \in [Handler -> RequestType \cup {None}]  BY <1>2
  <2>4. now' \in Nat /\ salts' \in Nat /\ store' \in StoreType
    BY <1>2, <1>3 DEF DiskInv, IInv, TypeOK
  <2>5. QED BY <2>1, <2>2, <2>3, <2>4 DEF IInv, TypeOK, StoreInv, Charged, Present
<1>5. disk' \in [Key -> RoomType \cup {None}] /\ flusher' \in FlusherType
  BY <1>2 DEF DiskInv, FlusherType, Waiting
<1>6. RemovalsFirst' /\ CopyInv'
  BY <1>2, <1>3 DEF RemovalsFirst, CopyInv, Waiting
<1>7. NoLostWrite'
  <2> SUFFICES ASSUME NEW k \in Key
               PROVE  Lasting(store'.items[k]) = Lasting(disk'[k]) \/ k \in behind'
    BY DEF NoLostWrite
  <2>1. QED BY <1>2, <1>3
<1>8. ASSUME NEW k \in Key \ (InFlight \cup behind)
      PROVE  \/ Lasting(store'.items[k]) = Lasting(store.items[k])
             \/ /\ store'.items[k] = None /\ disk[k] # None
                /\ disk[k].exp <= now \/ k \in behind'
  <2>1. Lasting(store.items[k]) = Lasting(disk[k])
    BY DEF DiskInv, NoLostWrite
  <2>2. QED BY <1>2, <1>3, <2>1
<1>9. QED BY <1>4, <1>5, <1>6, <1>7, <1>8 DEF DiskInv

-----------------------------------------------------------------------------
(* The process, across its restarts                                        *)

LEMMA InitDiskInv == InitDisk => DiskInv
<1> SUFFICES ASSUME InitDisk PROVE DiskInv
  OBVIOUS
<1>1. IInv /\ \A k \in Key : store.items[k] = None
  BY InitInv DEF InitDisk, Init
<1>2. store.deleted = {} /\ flusher = Waiting /\ disk = [k \in Key |-> None]
  BY DEF InitDisk, Init
<1>3. QED BY <1>1, <1>2 DEF DiskInv, FlusherType, Waiting, RemovalsFirst, CopyInv, NoLostWrite

LEMMA DiskStep == DiskInv /\ [NextDisk]_allVars => DiskInv'
<1> SUFFICES ASSUME DiskInv, [NextDisk]_allVars PROVE DiskInv'
  OBVIOUS
<1>1. ASSUME [Next]_vars, UNCHANGED diskVars PROVE DiskInv'
  BY <1>1, StoreStep
<1>2. ASSUME UNCHANGED vars, UNCHANGED <<disk, flusher, behind>> PROVE DiskInv'
  <2>1. IInv' /\ store' = store
    BY <1>2, StoreAlone DEF DiskInv
  <2>2. QED
    BY <1>2, <2>1 DEF DiskInv, RemovalsFirst, CopyInv, NoLostWrite, InFlight, Marked
<1>3. CASE FlushTick \/ Stop
  BY <1>3, TakeFlagsStep DEF FlushTick, Stop
<1>4. CASE \E k \in Key : RemoveFile(k) \/ Snapshot(k)
  BY <1>4, RemoveFileStep, SnapshotStep
<1>5. CASE RemoveMissing \/ Rename \/ WriteFails \/ Recheck
  BY <1>5, RemoveMissingStep, RenameStep, WriteFailsStep, RecheckStep
<1>6. CASE Done \/ Close
  BY <1>2, <1>6 DEF Done, Close
<1>7. CASE Restart
  BY <1>7, RestartStep
<1>8. CASE UNCHANGED allVars
  BY <1>1, <1>8 DEF allVars
<1>9. QED BY <1>1, <1>3, <1>4, <1>5, <1>6, <1>7, <1>8 DEF NextDisk, Flush

THEOREM DiskInvariance == SpecDisk => []DiskInv
BY InitDiskInv, DiskStep, PTL DEF SpecDisk

\* No write, deletion, expiry or re-creation of a room is forgotten, however they
\* fall between the flusher's steps (flushDirty, writeSnapshot), the failures of
\* its file operations and crashes (loadPersisted).
THEOREM NothingForgotten == SpecDisk => []NoLostWrite
<1>1. DiskInv => NoLostWrite
  BY DEF DiskInv
<1>2. QED BY DiskInvariance, <1>1, PTL

\* The accounting never drifts and the caps hold, also for what is loaded from
\* files that together exceed the budget (loadPersisted).
THEOREM LoadingRespectsLimits == SpecDisk => [](Accounting /\ Limits)
<1>1. DiskInv => Accounting /\ Limits
  BY DEF DiskInv, IInv, StoreInv, Charged, Accounting, Limits
<1>2. QED BY DiskInvariance, <1>1, PTL

\* A restart, in a crash or after Close, brings back every room whose state was not
\* in flight, and no deleted one; a live room stays away only if the limits pass
\* it over (loadPersisted).
THEOREM RestartLosesOnlyInFlight == SpecDisk => CrashLosesOnlyInFlight
<1> DEFINE Loses ==
        restarts' # restarts =>
            \A k \in Key \ (InFlight \cup behind) :
                LET r == store.items[k]
                IN  \/ Lasting(store'.items[k]) = Lasting(r)
                    \/ /\ store'.items[k] = None /\ disk[k] # None
                       /\ disk[k].exp <= now \/ k \in behind'
<1>1. ASSUME DiskInv, [NextDisk]_allVars PROVE [Loses]_allVars
  <2>1. CASE Restart
    BY <1>1, <2>1, RestartStep
  <2>2. CASE ~Restart
    <3>1. restarts' = restarts
      BY <1>1, <2>2 DEF NextDisk, Flush, FlushTick, TakeFlags, RemoveFile, Snapshot,
                        RemoveMissing, Rename, WriteFails, Recheck, Stop, Close, Done,
                        diskVars, allVars
    <3>2. QED BY <3>1
  <2>3. QED BY <2>1, <2>2
<1>2. QED BY <1>1, DiskInvariance, PTL DEF SpecDisk, CrashLosesOnlyInFlight

=============================================================================
