--------------------------- MODULE RoomSync_proofs ---------------------------
(***************************************************************************)
(* Theorems about RoomSync: a watcher shows the version it knows, nothing  *)
(* is given up that the room has not had, and versions are documents       *)
(* unless a crash loses snapshots.                                         *)
(***************************************************************************)
EXTENDS RoomSync, FiniteSetTheorems, FunctionTheorems, SequenceTheorems, TLAPS

\* The lemmas about induction and loops.
Induction == INSTANCE Rga_proofs

LEMMA FiniteThere == \A S : Induction!IsFiniteSet(S) <=> IsFiniteSet(S)
BY DEF IsFiniteSet, Induction!IsFiniteSet

-----------------------------------------------------------------------------
(* Sequences *)

\* A sequence with one element more.
LEMMA AppendIs ==
    ASSUME NEW A, NEW s \in Seq(A), NEW e \in A
    PROVE  /\ Append(s, e) \in Seq(A)
           /\ DOMAIN Append(s, e) = 1 .. Len(s) + 1 /\ DOMAIN s = 1 .. Len(s) /\ Len(s) \in Nat
           /\ Append(s, e)[Len(s) + 1] = e
           /\ \A j \in DOMAIN s : Append(s, e)[j] = s[j]
OBVIOUS

\* A sequence with one element less.
LEMMA TailIs ==
    ASSUME NEW A, NEW s \in Seq(A), s # << >>
    PROVE  /\ Head(s) \in A /\ Tail(s) \in Seq(A)
           /\ 1 \in DOMAIN s /\ Head(s) = s[1]
           /\ \A i \in DOMAIN Tail(s) : i + 1 \in DOMAIN s /\ Tail(s)[i] = s[i + 1]
OBVIOUS

-----------------------------------------------------------------------------
(* The inductive invariant *)

Idents(ops) == {ops[i].id : i \in DOMAIN ops}

\* The room has had these operations.
Had(ids) == \A id \in ids : \E r \in past : id \in Ids(r.doc)

\* The operations led to this version of the room from the one before it.
Made(gen, ver, ops) ==
    \E r \in past :
        /\ r.exists /\ r.gen = gen /\ r.ver = ver
        /\ Idents(ops) \subseteq Ids(r.doc)
        /\ \/ ver = 1
           \/ \E q \in past : /\ q.exists /\ q.gen = gen /\ q.ver + 1 = ver
                              /\ Apply(q.doc, ops) = [doc |-> r.doc, ok |-> TRUE]

\* Operations are a client's who has sent some, or somebody else's.
Sent(by) == by \in Client => client[by].seq > 0

EventOK(ev) == ev.ops # << >> => Made(ev.gen, ev.ver, ev.ops) /\ Sent(ev.by)

Confirmed(c, seq) == \A b \in client[c].sent : b.seq = seq => Had(b.ids)

DownOK(c, m) ==
    /\ m.type = "state" => m.room \in past
    /\ m.type = "ops" => Made(m.gen, m.ver, m.ops) /\ Sent(m.by)
    /\ m.type = "ack" => /\ client[c].seq > 0 /\ m.seq <= client[c].seq
                         /\ m.ok => Confirmed(c, m.seq)

UpOK(c, m) ==
    m.type = "ops" =>
        /\ client[c].seq > 0 /\ m.seq <= client[c].seq
        /\ \A b \in client[c].sent : b.seq = m.seq => b.ids \subseteq Idents(m.ops)

MainOK(c, s) ==
    /\ s.main.at \in {"compose", "send"} => s.main.room \in past
    /\ s.main.at = "send" => DownOK(c, s.main.frame)

ReadOK(c, s) ==
    /\ s.read.at = "ack" => DownOK(c, s.read.frame)
    /\ s.read.at \in {"ack", "note"} => EventOK(s.read.ev)
    /\ s.read.at = "reject" => client[c].seq > 0 /\ s.read.seq <= client[c].seq
    /\ s.read.at = "reply" => s.read.room \in past

PastInv ==
    /\ room \in past
    /\ \A r \in past : r = Absent \/ (r.exists /\ r.ver > 0 /\ r.gen <= nextGen)

EventInv ==
    /\ event # None => EventOK(event)
    /\ other # None /\ other.at = "note" => EventOK(other.ev)

WireInv ==
    \A c \in Client :
        /\ \A i \in DOMAIN down[c] : DownOK(c, down[c][i])
        /\ \A i \in DOMAIN up[c] : UpOK(c, up[c][i])
        /\ \A b \in client[c].sent : b.seq <= client[c].seq

SessionInv == \A c \in Client : session[c] # None => MainOK(c, session[c]) /\ ReadOK(c, session[c])

\* Who has sent nothing and has nothing to send.
Silent(c) == client[c].seq = 0 /\ client[c].pending = << >>

Agrees(c) == Silent(c) => ShowsItsVersion(c) \/ Forked(client[c].known.gen)

AgreeInv == \A c \in Client : Agrees(c)

ForkInv ==
    ~Lossy => /\ \A g \in Nat : ~Forked(g)
              /\ room.exists => \A r \in past : r.exists /\ r.gen = room.gen =>
                                    /\ r.ver <= room.ver
                                    /\ r.ver = room.ver => r.doc = room.doc

IInv == TypeOK /\ PastInv /\ EventInv /\ WireInv /\ SessionInv /\ AgreeInv /\ ForkInv

-----------------------------------------------------------------------------
(* Documents and batches *)

\* No identifier of a document has a clock above its greatest.
LEMMA MaxClockIs ==
    ASSUME NEW doc \in Doc
    PROVE  MaxClock(doc) \in Nat /\ \A o \in doc : o.id.clock <= MaxClock(doc)
<1> DEFINE S == {id.clock : id \in Ids(doc)} \cup {0}
<1>1. S \in SUBSET Nat /\ S # {}  BY DEF Doc, Item, Id, Ids
<1>2. IsFiniteSet(S)
  <2> DEFINE T == {o.id.clock : o \in doc}
  <2> DEFINE f == [o \in doc |-> o.id.clock]
  <2>1. IsFiniteSet(T)
    <3>1. IsFiniteSet(doc) /\ f \in [doc -> Nat]  BY DEF Doc, Item, Id
    <3>2. T = {f[o] : o \in doc}  OBVIOUS
    <3> HIDE DEF f, T
    <3> QED BY <3>1, <3>2, Induction!ValuesAreFinite, FiniteThere
  <2>2. S = T \cup {0}  BY DEF Ids
  <2>3. IsFiniteSet(T \cup {0})
    <3> HIDE DEF T
    <3> QED BY <2>1, FS_AddElement
  <2> HIDE DEF S, T
  <2> QED BY <2>2, <2>3
<1>3. \E n \in S : \A k \in S : k <= n
  <2> HIDE DEF S
  <2> QED BY <1>1, <1>2, Induction!GreatestNumber, FiniteThere
<1>4. \E n \in S : \A o \in doc : o.id.clock <= n
  BY <1>3 DEF Ids
<1>5. MaxClock(doc) \in S /\ \A o \in doc : o.id.clock <= MaxClock(doc)
  BY <1>4 DEF MaxClock
<1> QED BY <1>5, <1>1

LEMMA AddItem ==
    ASSUME NEW doc \in Doc, NEW o \in Item
    PROVE  doc \cup {o} \in Doc
BY FS_AddElement DEF Doc

\* What a batch does to a document.
LEMMA ApplyType ==
    ASSUME NEW doc \in Doc, NEW ops \in Seq(Item)
    PROVE  /\ Apply(doc, ops).doc \in Doc /\ doc \subseteq Apply(doc, ops).doc
           /\ Apply(doc, ops).ok \in BOOLEAN
           /\ Apply(doc, ops) = [doc |-> Apply(doc, ops).doc, ok |-> Apply(doc, ops).ok]
<1> DEFINE fits(i) == \/ ops[i].id \in Met(doc, ops, i)
                      \/ ops[i].after \in Met(doc, ops, i) \cup {Root}
           applied == {i \in DOMAIN ops : \A j \in 1 .. i : fits(j)}
           fresh == {n \in applied : ops[n].id \notin Met(doc, ops, n)}
           new == {ops[i] : i \in fresh}
<1>1. IsFiniteSet(fresh)
  <2>1. fresh \subseteq 1 .. Len(ops) /\ IsFiniteSet(1 .. Len(ops))  BY FS_Interval
  <2> HIDE DEF fresh
  <2> QED BY <2>1, FS_Subset
<1>2. IsFiniteSet(new) /\ new \subseteq Item
  <2> DEFINE f == [i \in fresh |-> ops[i]]
  <2>1. f \in [fresh -> Item]  OBVIOUS
  <2>2. new \subseteq Item  OBVIOUS
  <2>3. new = {f[i] : i \in fresh}
    <3> HIDE DEF fresh
    <3> QED OBVIOUS
  <2> HIDE DEF fresh, f, new
  <2> QED BY <1>1, <2>1, <2>2, <2>3, Induction!ValuesAreFinite, FiniteThere
<1>3. doc \cup new \in Doc
  <2> HIDE DEF new
  <2> QED BY <1>2, FS_Union DEF Doc
<1>4. Apply(doc, ops) = [doc |-> doc \cup new, ok |-> applied = DOMAIN ops]
  BY DEF Apply
<1> HIDE DEF new, applied
<1> QED BY <1>3, <1>4

\* A batch that fits leaves all its operations in the document.
LEMMA ApplyHas ==
    ASSUME NEW doc \in Doc, NEW ops \in Seq(Item), Apply(doc, ops).ok
    PROVE  Idents(ops) \subseteq Ids(Apply(doc, ops).doc)
<1> SUFFICES ASSUME NEW i \in DOMAIN ops PROVE ops[i].id \in Ids(Apply(doc, ops).doc)
  BY DEF Idents
<1> DEFINE T == {n \in DOMAIN ops : ops[n].id = ops[i].id}
<1>1. PICK n \in T : \A m \in T : n <= m
  <2>1. T \in SUBSET Nat /\ T # {}  OBVIOUS
  <2> HIDE DEF T
  <2> QED BY <2>1, Induction!LeastNumber
<1>2. CASE ops[n].id \in Ids(doc)
  BY <1>2, ApplyType DEF Ids
<1>3. CASE ops[n].id \notin Ids(doc)
  <2>1. ops[n].id \notin Met(doc, ops, n)  BY <1>1, <1>3 DEF Met
  <2>2. ops[n] \in Apply(doc, ops).doc  BY <2>1 DEF Apply
  <2> QED BY <2>2 DEF Ids
<1> QED BY <1>2, <1>3

\* A batch that does not fit leaves one of its operations out.
LEMMA ApplyMisses ==
    ASSUME NEW doc \in Doc, NEW ops \in Seq(Item), ~Apply(doc, ops).ok
    PROVE  \E i \in DOMAIN ops : ops[i].id \notin Ids(Apply(doc, ops).doc)
<1> DEFINE fits(i) == \/ ops[i].id \in Met(doc, ops, i)
                      \/ ops[i].after \in Met(doc, ops, i) \cup {Root}
           applied == {i \in DOMAIN ops : \A j \in 1 .. i : fits(j)}
           T == {n \in DOMAIN ops : ~fits(n)}
<1>1. T \in SUBSET Nat /\ T # {}
  <2>1. applied # DOMAIN ops  BY DEF Apply
  <2>2. PICK i \in DOMAIN ops : i \notin applied  BY <2>1
  <2>3. PICK j \in 1 .. i : ~fits(j)  BY <2>2
  <2> QED BY <2>3
<1>2. PICK n \in T : \A m \in T : n <= m
  <2> HIDE DEF T
  <2> QED BY <1>1, Induction!LeastNumber
<1>3. \A i \in applied : i < n  BY <1>2
<1>4. ops[n].id \notin Met(doc, ops, n)  OBVIOUS
<1>5. Apply(doc, ops).doc \subseteq doc \cup {ops[i] : i \in applied}  BY DEF Apply
<1>6. Ids(Apply(doc, ops).doc) \subseteq Met(doc, ops, n)
  <2> SUFFICES ASSUME NEW o \in Apply(doc, ops).doc PROVE o.id \in Met(doc, ops, n)
    BY DEF Ids
  <2>1. CASE o \in doc  BY <2>1 DEF Met, Ids
  <2>2. ASSUME NEW i \in applied, o = ops[i] PROVE o.id \in Met(doc, ops, n)
    <3>1. i \in 1 .. n - 1  BY <1>3
    <3> HIDE DEF applied, T
    <3> QED BY <2>2, <3>1 DEF Met
  <2> QED BY <1>5, <2>1, <2>2
<1> QED BY <1>4, <1>6

LEMMA ApplyNothing ==
    ASSUME NEW doc
    PROVE  Apply(doc, << >>) = [doc |-> doc, ok |-> TRUE]
<1> DEFINE ops == << >>
           fits(i) == \/ ops[i].id \in Met(doc, ops, i)
                      \/ ops[i].after \in Met(doc, ops, i) \cup {Root}
           applied == {i \in DOMAIN ops : \A j \in 1 .. i : fits(j)}
           fresh == {n \in applied : ops[n].id \notin Met(doc, ops, n)}
<1>1. Apply(doc, ops) = [doc |-> doc \cup {ops[i] : i \in fresh}, ok |-> applied = DOMAIN ops]
  BY DEF Apply
<1>2. DOMAIN ops = {} /\ applied = {} /\ fresh = {}  OBVIOUS
<1> HIDE DEF applied, fresh
<1>3. {ops[i] : i \in fresh} = {}  BY <1>2
<1> QED BY <1>1, <1>2, <1>3

LEMMA ApplyOne ==
    ASSUME NEW doc, NEW o, o.id \notin Ids(doc), o.after \in Ids(doc) \cup {Root}
    PROVE  Apply(doc, <<o>>) = [doc |-> doc \cup {o}, ok |-> TRUE]
<1> DEFINE ops == <<o>>
           fits(i) == \/ ops[i].id \in Met(doc, ops, i)
                      \/ ops[i].after \in Met(doc, ops, i) \cup {Root}
           applied == {i \in DOMAIN ops : \A j \in 1 .. i : fits(j)}
           fresh == {n \in applied : ops[n].id \notin Met(doc, ops, n)}
<1>1. Apply(doc, ops) = [doc |-> doc \cup {ops[i] : i \in fresh}, ok |-> applied = DOMAIN ops]
  BY DEF Apply
<1>2. DOMAIN ops = {1} /\ ops[1] = o  OBVIOUS
<1> HIDE DEF ops
<1>3. Met(doc, ops, 1) = Ids(doc)
  <2>1. 1 .. 1 - 1 = {}  OBVIOUS
  <2> QED BY <2>1 DEF Met
<1>4. applied = {1}
  <2>1. fits(1)  BY <1>2, <1>3
  <2>2. \A j \in 1 .. 1 : j = 1  OBVIOUS
  <2> HIDE DEF fits
  <2> QED BY <2>1, <2>2, <1>2
<1>5. fresh = {1}
  <2> HIDE DEF applied
  <2> QED BY <1>2, <1>3, <1>4
<1> HIDE DEF applied, fresh
<1>6. {ops[i] : i \in fresh} = {o}  BY <1>2, <1>5
<1>7. applied = DOMAIN ops  BY <1>2, <1>4
<1>8. Apply(doc, ops) = [doc |-> doc \cup {o}, ok |-> TRUE]
  BY ONLY <1>1, <1>6, <1>7
<1> QED BY <1>8 DEF ops

\* What remains of operations when some are taken out.
Remains(ops, ids, kept) ==
    /\ \A i \in DOMAIN ops : ops[i].id \notin ids => \E j \in DOMAIN kept : kept[j] = ops[i]
    /\ \A j \in DOMAIN kept : \E i \in DOMAIN ops : kept[j] = ops[i] /\ ops[i].id \notin ids

LEMMA WithoutIs ==
    ASSUME NEW ops \in Seq(Item), NEW ids
    PROVE  Without(ops, ids) \in Seq(Item) /\ Remains(ops, ids, Without(ops, ids))
<1> DEFINE N == Len(ops)
           Keep(s, n) == IF ops[n].id \in ids THEN s ELSE Append(s, ops[n])
           Kept(s, n) == /\ s \in Seq(Item)
                         /\ \A i \in 1 .. n :
                                ops[i].id \notin ids => \E j \in DOMAIN s : s[j] = ops[i]
                         /\ \A j \in DOMAIN s :
                                \E i \in 1 .. n : s[j] = ops[i] /\ ops[i].id \notin ids
           Loop(k) == k = [n \in 0 .. N |-> IF n = 0 THEN << >> ELSE Keep(k[n - 1], n)]
           step == [p \in Nat \X Seq(Item) |->
                       IF p[1] \in 1 .. N THEN Keep(p[2], p[1]) ELSE p[2]]
<1>1. N \in Nat /\ DOMAIN ops = 1 .. N /\ \A n \in 1 .. N : ops[n] \in Item  OBVIOUS
<1>2. \E k : Loop(k)
  <2>1. step \in [Nat \X Seq(Item) -> Seq(Item)]  OBVIOUS
  <2>2. \A n \in Nat, s \in Seq(Item) : step[<<n, s>>] = IF n \in 1 .. N THEN Keep(s, n) ELSE s
    OBVIOUS
  <2> PICK A, base : A = Seq(Item) /\ base = << >>  OBVIOUS
  <2>3. base \in A /\ step \in [Nat \X A -> A]  BY <2>1
  <2> HIDE DEF step, N, Keep
  <2>4. PICK k \in [0 .. N -> A] : Induction!Loops(k, N, base, step)
    BY <1>1, <2>3, Induction!LoopExists
  <2>5. ASSUME NEW n \in 0 .. N, n # 0 PROVE step[<<n, k[n - 1]>>] = Keep(k[n - 1], n)
    <3>1. n \in Nat /\ n \in 1 .. N /\ n - 1 \in 0 .. N  BY <1>1, <2>5
    <3> QED BY <3>1, <2>2
  <2>6. Loop(k)  BY <2>4, <2>5 DEF Induction!Loops
  <2> QED BY <2>6
<1> DEFINE kept == CHOOSE k : Loop(k)
<1>3. Without(ops, ids) = kept[N]
  BY DEF Without
<1>4. Loop(kept)
  <2> HIDE DEF Loop
  <2> QED BY <1>2
<1> HIDE DEF kept, N
<1> DEFINE T == {n \in Nat : n <= N => Kept(kept[n], n)}
<1>5. 0 \in T
  BY <1>1, <1>4
<1>6. ASSUME NEW n \in T PROVE n + 1 \in T
  <2> SUFFICES ASSUME n + 1 <= N PROVE Kept(kept[n + 1], n + 1)
    OBVIOUS
  <2> PICK s : s = kept[n]  OBVIOUS
  <2> PICK o : o = ops[n + 1]  OBVIOUS
  <2>1. Kept(s, n) /\ n \in Nat  BY <1>1
  <2>2. kept[n + 1] = IF o.id \in ids THEN s ELSE Append(s, o)
    <3>1. n + 1 \in 0 .. N /\ n + 1 # 0 /\ (n + 1) - 1 = n  BY <1>1
    <3> QED BY <1>4, <3>1
  <2>3. o \in Item  BY <1>1
  <2>4. \A i : i \in 1 .. n + 1 <=> i = n + 1 \/ i \in 1 .. n  OBVIOUS
  <2>5. CASE o.id \in ids
    <3>1. Kept(s, n + 1)  BY <2>1, <2>4, <2>5
    <3> HIDE DEF Kept
    <3> QED BY <2>2, <2>5, <3>1
  <2>6. CASE o.id \notin ids
    <3> PICK t : t = Append(s, o)  OBVIOUS
    <3>1. s \in Seq(Item)  BY <2>1
    <3>2. /\ t \in Seq(Item)
          /\ DOMAIN t = 1 .. Len(s) + 1 /\ DOMAIN s = 1 .. Len(s) /\ Len(s) \in Nat
          /\ t[Len(s) + 1] = o
          /\ \A j \in DOMAIN s : t[j] = s[j]
      <4> DEFINE u == Append(s, o)
      <4>1. /\ u \in Seq(Item)
            /\ DOMAIN u = 1 .. Len(s) + 1 /\ DOMAIN s = 1 .. Len(s) /\ Len(s) \in Nat
            /\ u[Len(s) + 1] = o
            /\ \A j \in DOMAIN s : u[j] = s[j]
        BY ONLY <2>3, <3>1, AppendIs
      <4>2. t = u  OBVIOUS
      <4> HIDE DEF u
      <4> QED BY ONLY <4>1, <4>2
    <3>3. ASSUME NEW i \in 1 .. n + 1, ops[i].id \notin ids
          PROVE  \E j \in DOMAIN t : t[j] = ops[i]
      <4>1. CASE i = n + 1
        <5>1. Len(s) + 1 \in DOMAIN t  BY ONLY <3>2
        <5>2. t[Len(s) + 1] = ops[i]  BY <4>1, <3>2
        <5> QED BY ONLY <5>1, <5>2
      <4>2. CASE i \in 1 .. n
        <5>1. PICK j \in DOMAIN s : s[j] = ops[i]  BY <2>1, <3>3, <4>2
        <5>2. j \in DOMAIN t /\ t[j] = s[j]  BY ONLY <3>2, j \in DOMAIN s
        <5> QED BY ONLY <5>1, <5>2
      <4> QED BY <2>4, <4>1, <4>2
    <3>4. ASSUME NEW j \in DOMAIN t
          PROVE  \E i \in 1 .. n + 1 : t[j] = ops[i] /\ ops[i].id \notin ids
      <4>1. CASE j = Len(s) + 1  BY <4>1, <3>2, <2>4, <2>6
      <4>2. CASE j \in DOMAIN s
        <5>1. PICK i \in 1 .. n : s[j] = ops[i] /\ ops[i].id \notin ids  BY <2>1, <4>2
        <5> QED BY <5>1, <3>2, <4>2, <2>4
      <4> QED BY <3>2, <4>1, <4>2
    <3>5. Kept(t, n + 1)  BY <3>2, <3>3, <3>4
    <3> HIDE DEF Kept
    <3> QED BY <2>2, <2>6, <3>5
  <2> QED BY <2>5, <2>6
<1>7. T = Nat
  <2> HIDE DEF T
  <2>1. T \in SUBSET Nat  BY DEF T
  <2> QED BY <2>1, <1>5, <1>6, Induction!SetInduction
<1> PICK s : s = kept[N]  OBVIOUS
<1>8. Kept(s, N)
  <2>1. N \in T  BY <1>1, <1>7
  <2> HIDE DEF Kept
  <2> QED BY <1>1, <2>1
<1>9. Without(ops, ids) = s  BY <1>3
<1>10. s \in Seq(Item) /\ Remains(ops, ids, s)
  <2> DEFINE D == DOMAIN ops
  <2>1. D = 1 .. N  BY <1>1
  <2>2. /\ s \in Seq(Item)
        /\ \A i \in D : ops[i].id \notin ids => \E j \in DOMAIN s : s[j] = ops[i]
        /\ \A j \in DOMAIN s : \E i \in D : s[j] = ops[i] /\ ops[i].id \notin ids
    BY ONLY <1>8, <2>1
  <2> QED BY ONLY <2>2 DEF Remains
<1> QED BY ONLY <1>9, <1>10

-----------------------------------------------------------------------------
(* Types *)

LEMMA MessageTypes ==
    ASSUME NEW r \in RoomType, NEW by \in By, NEW ops \in Seq(Item), NEW n \in Nat
    PROVE  /\ StateFrame(r) \in StateType
           /\ OpsEvent(r, by, ops) \in EventType
           /\ FullEvent(r, by) \in EventType
           /\ Ack(n, r) \in AckType
           /\ ErrorAck(n) \in AckType
BY DEF RoomType, StateType, EventType, AckType, StateFrame, OpsEvent, FullEvent, Ack, ErrorAck

LEMMA OpsFrameType ==
    ASSUME NEW r \in RoomType, NEW ev \in EventType
    PROVE  OpsFrame(r, ev) \in OpsType
BY DEF RoomType, EventType, OpsType, OpsFrame

LEMMA EmptyDoc == {} \in Doc /\ Absent \in RoomType
<1>1. {} \in Doc  BY FS_EmptySet DEF Doc
<1> QED BY <1>1 DEF Absent, RoomType

\* What a handler writes is a room, and the store's counter stays a number.
LEMMA WrittenType ==
    ASSUME TypeOK, NEW bump \in {0, 1}, NEW doc \in Doc
    PROVE  Written(bump, doc) \in RoomType /\ Counter \in Nat
BY DEF TypeOK, RoomType, Written, Gen, Counter

LEMMA BecomeType ==
    ASSUME TypeOK, NEW r \in RoomType, NEW gen \in Nat, Become(r, gen)
    PROVE  room' \in RoomType /\ nextGen' \in Nat /\ past' \subseteq RoomType
BY DEF TypeOK, Become

LEMMA RebuiltType ==
    ASSUME TypeOK
    PROVE  /\ {Rebuilt} \in Doc
           /\ \A after \in Ids(room.doc) \cup {Root} :
                  Foreign(after) \in Item /\ Foreign(after).id \notin Ids(room.doc)
<1>1. Rebuilt \in Item  BY DEF TypeOK, Rebuilt, Item, Id, Root
<1>2. {Rebuilt} \in Doc  BY <1>1, FS_Singleton DEF Doc
<1>3. room.doc \in Doc  BY DEF TypeOK, RoomType
<1>4. MaxClock(room.doc) \in Nat /\ \A o \in room.doc : o.id.clock <= MaxClock(room.doc)
  BY <1>3, MaxClockIs
<1>5. Ids(room.doc) \cup {Root} \subseteq Id  BY <1>3 DEF Ids, Doc, Item, Id, Root
<1>6. ASSUME NEW after \in Ids(room.doc) \cup {Root}
      PROVE  Foreign(after) \in Item /\ Foreign(after).id \notin Ids(room.doc)
  <2>1. Foreign(after) \in Item
    BY <1>4, <1>5 DEF Foreign, Item, Id, TypeOK, OtherSite
  <2>2. Foreign(after).id.clock = MaxClock(room.doc) + 1  BY DEF Foreign
  <2>3. ASSUME NEW o \in room.doc, Foreign(after).id = o.id PROVE FALSE
    <3>1. o.id.clock <= MaxClock(room.doc) /\ o.id.clock \in Nat
      BY <1>3, <1>4 DEF Doc, Item, Id
    <3>2. o.id.clock = MaxClock(room.doc) + 1  BY <2>2, <2>3
    <3> QED BY <3>1, <3>2, <1>4
  <2> QED BY <2>1, <2>3 DEF Ids
<1> QED BY <1>2, <1>6

LEMMA QueueType ==
    ASSUME TypeOK, NEW c \in Client, NEW msg \in DownType, Queue(c, msg)
    PROVE  down' \in [Client -> Seq(DownType)]
<1>1. down[c] \in Seq(DownType)  BY DEF TypeOK
<1>2. Append(down[c], msg) \in Seq(DownType)  BY <1>1, AppendIs
<1> QED BY <1>1, <1>2 DEF TypeOK, Queue

\* The server's side of a connection after a step of one of its goroutines.
LEMMA SessionTypes ==
    ASSUME NEW s \in SessionType, NEW m \in MainType, NEW r \in ReadType
    PROVE  /\ s.force \in BOOLEAN /\ s.main \in MainType /\ s.read \in ReadType
           /\ [s EXCEPT !.main = m] \in SessionType
           /\ [s EXCEPT !.read = r] \in SessionType
BY DEF SessionType

LEMMA OtherKeepsTypes ==
    ASSUME TypeOK, Other
    PROVE  TypeOK'
<1>1. \A ev \in EventType : [at |-> "note", ev |-> ev] \in [at : {"note"}, ev : EventType]
  OBVIOUS
<1>2. None \in By /\ OtherSite \in By /\ << >> \in Seq(Item)  BY DEF By
<1>3. CASE OtherWrite
  <2>1. edits' \in Nat  BY <1>3 DEF OtherWrite, TypeOK
  <2>2. ASSUME NEW doc \in {{Rebuilt}, {}}, Become(Written(1, doc), Counter),
               other' = [at |-> "note", ev |-> FullEvent(room', None)]
        PROVE  TypeOK'
    <3>1. Written(1, doc) \in RoomType /\ Counter \in Nat
      BY RebuiltType, EmptyDoc, WrittenType
    <3>2. room' \in RoomType /\ nextGen' \in Nat /\ past' \subseteq RoomType
      BY <2>2, <3>1, BecomeType
    <3>3. FullEvent(room', None) \in EventType  BY <1>2, <3>2, MessageTypes
    <3>4. other' \in [at : {"note"}, ev : EventType]  BY <1>1, <2>2, <3>3
    <3> QED BY <1>3, <2>1, <3>2, <3>4 DEF OtherWrite, TypeOK
  <2>3. ASSUME NEW after \in Ids(room.doc) \cup {Root},
               Become(Written(1, room.doc \cup {Foreign(after)}), Counter),
               other' = [at |-> "note", ev |-> OpsEvent(room', OtherSite, <<Foreign(after)>>)]
        PROVE  TypeOK'
    <3>0. Foreign(after) \in Item /\ room.doc \in Doc  BY RebuiltType DEF TypeOK, RoomType
    <3>1. Written(1, room.doc \cup {Foreign(after)}) \in RoomType /\ Counter \in Nat
      BY <3>0, AddItem, WrittenType
    <3>2. room' \in RoomType /\ nextGen' \in Nat /\ past' \subseteq RoomType
      BY <2>3, <3>1, BecomeType
    <3>3. <<Foreign(after)>> \in Seq(Item)  BY <3>0
    <3>4. OpsEvent(room', OtherSite, <<Foreign(after)>>) \in EventType
      BY <1>2, <3>2, <3>3, MessageTypes
    <3>5. other' \in [at : {"note"}, ev : EventType]  BY <1>1, <2>3, <3>4
    <3> QED BY <1>3, <2>1, <3>2, <3>5 DEF OtherWrite, TypeOK
  <2> QED BY <1>3, <2>2, <2>3 DEF OtherWrite
<1>4. CASE OtherTouch
  <2>1. PICK bump \in {0, 1} : Become(Written(bump, room.doc), nextGen)  BY <1>4 DEF OtherTouch
  <2>2. Written(bump, room.doc) \in RoomType /\ nextGen \in Nat
    BY WrittenType DEF TypeOK, RoomType
  <2>3. room' \in RoomType /\ nextGen' \in Nat /\ past' \subseteq RoomType
    BY <2>1, <2>2, BecomeType
  <2>4. FullEvent(room', None) \in EventType  BY <1>2, <2>3, MessageTypes
  <2>5. other' \in [at : {"note"}, ev : EventType]  BY <1>1, <1>4, <2>4 DEF OtherTouch
  <2> QED BY <1>4, <2>3, <2>5 DEF OtherTouch, TypeOK
<1>5. CASE OtherLock
  <2>1. Written(1, room.doc) \in RoomType /\ Counter \in Nat
    BY WrittenType DEF TypeOK, RoomType
  <2>2. room' \in RoomType /\ nextGen' \in Nat /\ past' \subseteq RoomType
    BY <1>5, <2>1, BecomeType DEF OtherLock
  <2> QED BY <1>5, <2>2 DEF OtherLock, TypeOK
<1>6. CASE OtherNote  BY <1>6 DEF OtherNote, TypeOK
<1>7. CASE OtherDelete
  <2>1. room' \in RoomType /\ nextGen' \in Nat /\ past' \subseteq RoomType
    BY <1>7, EmptyDoc, BecomeType DEF OtherDelete, TypeOK
  <2> QED BY <1>7, <2>1 DEF OtherDelete, TypeOK
<1>8. CASE OtherForget  BY <1>8 DEF OtherForget, TypeOK
<1>9. CASE Expire
  <2>1. room' \in RoomType /\ nextGen' \in Nat /\ past' \subseteq RoomType
    BY <1>9, EmptyDoc, BecomeType DEF Expire, TypeOK
  <2> QED BY <1>9, <2>1 DEF Expire, TypeOK
<1> QED BY <1>3, <1>4, <1>5, <1>6, <1>7, <1>8, <1>9 DEF Other

LEMMA MainKeepsTypes ==
    ASSUME TypeOK, NEW c \in Client, MainLoop(c)
    PROVE  TypeOK'
<1>1. session[c] \in SessionType
  <2>1. session[c] # None  BY DEF MainLoop, MainPeek, MainCompose, MainSend, Main
  <2> QED BY <2>1 DEF TypeOK
<1>2. ASSUME NEW m \in MainType, session' = [session EXCEPT ![c].main = m]
      PROVE  session' \in [Client -> SessionType \cup {None}]
  <2>1. [session[c] EXCEPT !.main = m] \in SessionType  BY <1>1 DEF SessionType
  <2> QED BY <1>2, <2>1 DEF TypeOK
<1>3. CASE MainPeek(c)
  <2>1. [at |-> "compose", room |-> room] \in MainType  BY DEF TypeOK, MainType
  <2>2. session' \in [Client -> SessionType \cup {None}]  BY <1>2, <1>3, <2>1 DEF MainPeek
  <2> QED BY <1>3, <2>2 DEF MainPeek, TypeOK
<1>4. CASE MainCompose(c)
  <2> DEFINE s == session[c]
             r == s.main.room
             frame == IF Compact(s, r) THEN OpsFrame(r, event) ELSE StateFrame(r)
             m == IF ~s.force /\ s.last = Pair(r) THEN Idle
                  ELSE [at |-> "send", room |-> r, frame |-> frame]
  <2>1. r \in RoomType
    <3>1. s.main \in MainType /\ s.main.at = "compose"
      BY <1>1, <1>4 DEF MainCompose, Main, SessionType
    <3> QED BY <3>1 DEF MainType
  <2>2. frame \in StateType \cup OpsType
    <3>1. CASE Compact(s, r)
      <4>1. event \in EventType  BY <3>1 DEF Compact, TypeOK
      <4> QED BY <2>1, <3>1, <4>1, OpsFrameType
    <3>2. CASE ~Compact(s, r)
      <4>1. StateFrame(r) \in StateType  BY <2>1 DEF StateFrame, StateType
      <4> QED BY <3>2, <4>1
    <3> QED BY <3>1, <3>2
  <2>3. session' = [session EXCEPT ![c].main = m] /\ event' \in {event, None}
    BY <1>4 DEF MainCompose
  <2>4. m \in MainType
    <3> HIDE DEF frame, r
    <3> QED BY <2>1, <2>2 DEF MainType, Idle
  <2> HIDE DEF m
  <2>5. session' \in [Client -> SessionType \cup {None}]  BY <1>2, <2>3, <2>4
  <2> QED BY <1>4, <2>3, <2>5 DEF MainCompose, TypeOK
<1>5. CASE MainSend(c)
  <2> DEFINE s == session[c]
  <2>1. s.main.room \in RoomType /\ s.main.frame \in StateType \cup OpsType
    <3>1. s.main \in MainType /\ s.main.at = "send"
      BY <1>1, <1>5 DEF MainSend, Main, SessionType
    <3> QED BY <3>1 DEF MainType
  <2>2. down' \in [Client -> Seq(DownType)]
    <3>1. s.main.frame \in DownType  BY <2>1 DEF DownType
    <3> QED BY <1>5, <3>1, QueueType DEF MainSend
  <2>3. LastSent(c) \in [exists : BOOLEAN, gen : Int, ver : Int]
    BY <1>1, <2>1 DEF LastSent, Pair, SessionType, RoomType
  <2>4. Idle \in MainType  BY DEF Idle, MainType
  <2>5. [s EXCEPT !.last = LastSent(c), !.main = Idle, !.force = FALSE] \in SessionType
    BY <1>1, <2>3, <2>4 DEF SessionType
  <2>6. session' \in [Client -> SessionType \cup {None}]
    BY <1>5, <2>5 DEF MainSend, TypeOK
  <2> QED BY <1>5, <2>2, <2>6 DEF MainSend, TypeOK
<1> QED BY <1>3, <1>4, <1>5 DEF MainLoop

\* What the read loop has received.
LEMMA HeadUp ==
    ASSUME TypeOK, NEW c \in Client, up[c] # << >>
    PROVE  /\ Head(up[c]) \in UpType /\ Tail(up[c]) \in Seq(UpType)
           /\ Head(up[c]).type = "ops" => Head(up[c]).ops \in Seq(Item) /\ Head(up[c]).seq \in Nat
<1>1. up[c] \in Seq(UpType)  BY DEF TypeOK
<1>2. Head(up[c]) \in UpType /\ Tail(up[c]) \in Seq(UpType)  BY <1>1, TailIs
<1> QED BY <1>2 DEF UpType

LEMMA ReadKeepsTypes ==
    ASSUME TypeOK, NEW c \in Client, ReadLoop(c)
    PROVE  TypeOK'
<1>1. session[c] \in SessionType
  <2>1. session[c] # None
    BY DEF ReadLoop, ReadOps, ReadAck, ReadNote, ReadReject, ReadSync, ReadPeek, ReadReply,
           Reading, Read
  <2> QED BY <2>1 DEF TypeOK
<1>2. ASSUME NEW r \in ReadType, session' = [session EXCEPT ![c].read = r]
      PROVE  session' \in [Client -> SessionType \cup {None}]
  <2> DEFINE s == [session[c] EXCEPT !.read = r]
  <2>1. s \in SessionType  BY <1>1 DEF SessionType
  <2>2. session' = [session EXCEPT ![c] = s]  BY <1>2
  <2>3. session \in [Client -> SessionType \cup {None}]  BY DEF TypeOK
  <2> HIDE DEF s
  <2> QED BY <2>1, <2>2, <2>3
<1>3. session[c].read \in ReadType  BY <1>1 DEF SessionType
<1>4. CASE ReadOps(c)
  <2> DEFINE msg == Head(up[c])
             res == Apply(room.doc, msg.ops)
  <2>1. msg.ops \in Seq(Item) /\ msg.seq \in Nat /\ Tail(up[c]) \in Seq(UpType)
    BY <1>4, HeadUp DEF ReadOps, Reading
  <2>2. res.doc \in Doc  BY <2>1, ApplyType DEF TypeOK, RoomType
  <2>3. up' \in [Client -> Seq(UpType)]  BY <1>4, <2>1 DEF ReadOps, TypeOK
  <2>4. ASSUME NEW bump \in {0, 1}, NEW ops \in Seq(Item), NEW ev,
               ev = OpsEvent(Written(bump, res.doc), c, ops)
               \/ ev = FullEvent(Written(bump, res.doc), c),
               Become(Written(bump, res.doc), Counter),
               session' = [session EXCEPT ![c].read =
                    [at |-> "ack", frame |-> Ack(msg.seq, Written(bump, res.doc)), ev |-> ev]]
        PROVE  TypeOK'
    <3>1. Written(bump, res.doc) \in RoomType /\ Counter \in Nat  BY <2>2, WrittenType
    <3>2. room' \in RoomType /\ nextGen' \in Nat /\ past' \subseteq RoomType
      BY <2>4, <3>1, BecomeType
    <3>3. c \in By  BY DEF By
    <3>4. ev \in EventType /\ Ack(msg.seq, Written(bump, res.doc)) \in AckType
      BY <2>1, <2>4, <3>1, <3>3, MessageTypes
    <3>5. session' \in [Client -> SessionType \cup {None}]
      BY <1>2, <2>4, <3>4 DEF ReadType
    <3> QED BY <1>4, <2>3, <3>2, <3>5 DEF ReadOps, TypeOK
  <2>5. ASSUME session' = [session EXCEPT ![c].read = [at |-> "reject", seq |-> msg.seq]],
               nextGen' = Counter, UNCHANGED <<room, past>>
        PROVE  TypeOK'
    <3>1. session' \in [Client -> SessionType \cup {None}]
      BY <1>2, <2>1, <2>5 DEF ReadType
    <3>2. Counter \in Nat  BY DEF Counter, TypeOK
    <3> QED BY <1>4, <2>3, <2>5, <3>1, <3>2 DEF ReadOps, TypeOK
  <2> QED BY <1>4, <2>1, <2>4, <2>5 DEF ReadOps
<1>5. CASE ReadAck(c)
  <2>1. session[c].read.frame \in AckType /\ session[c].read.ev \in EventType
    BY <1>3, <1>5 DEF ReadAck, Read, ReadType
  <2>2. down' \in [Client -> Seq(DownType)]
    BY <1>5, <2>1, QueueType DEF ReadAck, DownType
  <2>3. session' = [session EXCEPT ![c].read = [at |-> "note", ev |-> session[c].read.ev]]
    BY <1>1, <1>5 DEF ReadAck, TypeOK
  <2>4. [at |-> "note", ev |-> session[c].read.ev] \in ReadType  BY <2>1 DEF ReadType
  <2>5. session' \in [Client -> SessionType \cup {None}]  BY <1>2, <2>3, <2>4
  <2> QED BY <1>5, <2>2, <2>5 DEF ReadAck, TypeOK
<1>6. CASE ReadNote(c)
  <2>1. session[c].read.ev \in EventType  BY <1>3, <1>6 DEF ReadNote, Read, ReadType
  <2>2. session' \in [Client -> SessionType \cup {None}]
    BY <1>2, <1>6 DEF ReadNote, Idle, ReadType
  <2> QED BY <1>6, <2>1, <2>2 DEF ReadNote, TypeOK
<1>7. CASE ReadReject(c)
  <2>1. session[c].read.seq \in Nat  BY <1>3, <1>7 DEF ReadReject, Read, ReadType
  <2>2. ErrorAck(session[c].read.seq) \in DownType  BY <2>1 DEF ErrorAck, AckType, DownType
  <2>3. down' \in [Client -> Seq(DownType)]
    BY <1>7, <2>2, QueueType DEF ReadReject
  <2>4. session' \in [Client -> SessionType \cup {None}]
    BY <1>2, <1>7 DEF ReadReject, ReadType
  <2> QED BY <1>7, <2>3, <2>4 DEF ReadReject, TypeOK
<1>8. CASE ReadSync(c)
  <2>1. Tail(up[c]) \in Seq(UpType)  BY <1>8, HeadUp DEF ReadSync, Reading
  <2>2. up' \in [Client -> Seq(UpType)]  BY <1>8, <2>1 DEF ReadSync, TypeOK
  <2>3. session' \in [Client -> SessionType \cup {None}]
    BY <1>2, <1>8 DEF ReadSync, ReadType
  <2> QED BY <1>8, <2>2, <2>3 DEF ReadSync, TypeOK
<1>9. CASE ReadPeek(c)
  <2>1. [at |-> "reply", room |-> room] \in ReadType  BY DEF TypeOK, ReadType
  <2>2. session' \in [Client -> SessionType \cup {None}]  BY <1>2, <1>9, <2>1 DEF ReadPeek
  <2> QED BY <1>9, <2>2 DEF ReadPeek, TypeOK
<1>10. CASE ReadReply(c)
  <2>1. session[c].read.room \in RoomType  BY <1>3, <1>10 DEF ReadReply, Read, ReadType
  <2>2. StateFrame(session[c].read.room) \in DownType
    BY <2>1 DEF StateFrame, StateType, DownType
  <2>3. down' \in [Client -> Seq(DownType)]
    BY <1>10, <2>2, QueueType DEF ReadReply
  <2>4. session' \in [Client -> SessionType \cup {None}]
    BY <1>2, <1>10 DEF ReadReply, Idle, ReadType
  <2> QED BY <1>10, <2>3, <2>4 DEF ReadReply, TypeOK
<1> QED BY <1>4, <1>5, <1>6, <1>7, <1>8, <1>9, <1>10 DEF ReadLoop

LEMMA ClientUpdate ==
    ASSUME TypeOK, NEW c \in Client, NEW cl \in ClientType, Update(c, cl)
    PROVE  client' \in [Client -> ClientType]
BY DEF TypeOK, Update

\* What a client has received.
LEMMA HeadDown ==
    ASSUME TypeOK, NEW c \in Client, down[c] # << >>
    PROVE  /\ Head(down[c]) \in DownType /\ Tail(down[c]) \in Seq(DownType)
           /\ Head(down[c]).type = "state" => Head(down[c]).room \in RoomType
           /\ Head(down[c]).type = "ops" => Head(down[c]) \in OpsType
           /\ Head(down[c]).type = "ack" => Head(down[c]) \in AckType
<1>1. down[c] \in Seq(DownType)  BY DEF TypeOK
<1>2. Head(down[c]) \in DownType /\ Tail(down[c]) \in Seq(DownType)  BY <1>1, TailIs
<1> QED BY <1>2 DEF DownType, StateType, OpsType, AckType

\* The operations that are typed again.
LEMMA RetypedIs ==
    ASSUME NEW c \in Client, NEW doc \in Doc, NEW ops \in Seq(Item)
    PROVE  Retyped(c, doc, ops) \in Seq(Item) /\ DOMAIN Retyped(c, doc, ops) = DOMAIN ops
<1> DEFINE base == MaxClock(doc)
           id(i) == [site |-> c, clock |-> base + i]
           item(i) == [id |-> id(i), after |-> IF i = 1 THEN Root ELSE id(i - 1), ch |-> ops[i].ch]
<1>1. base \in Nat /\ c \in Int  BY MaxClockIs, SyncAssumption
<1>2. Root \in Id  BY DEF Root, Id
<1>3. ASSUME NEW i \in DOMAIN ops PROVE item(i) \in Item
  <2>1. ops[i] \in Item /\ i \in Nat /\ i >= 1  OBVIOUS
  <2>2. id(i) \in Id /\ (i # 1 => id(i - 1) \in Id)
    <3> HIDE DEF base
    <3> QED BY <1>1, <2>1 DEF Id
  <2> HIDE DEF id
  <2> QED BY <1>2, <2>1, <2>2 DEF Item
<1>4. Retyped(c, doc, ops) = [i \in DOMAIN ops |-> item(i)]  BY DEF Retyped
<1>5. DOMAIN ops = 1 .. Len(ops) /\ Len(ops) \in Nat  OBVIOUS
<1> HIDE DEF item
<1>6. [i \in 1 .. Len(ops) |-> item(i)] \in Seq(Item)  BY <1>3, <1>5
<1> QED BY <1>4, <1>5, <1>6

\* A client that adopts a snapshot.
LEMMA AdoptedIs ==
    ASSUME TypeOK, NEW c \in Client, NEW r \in RoomType
    PROVE  /\ Adopted(c, r) \in ClientType
           /\ Adopted(c, r).seq = client[c].seq /\ Adopted(c, r).sent = {}
           /\ Adopted(c, r).known = [exists |-> r.exists, ver |-> r.ver,
                    gen |-> IF r.exists THEN r.gen ELSE client[c].known.gen]
           /\ Adopted(c, r).pending = << >> => Adopted(c, r).doc = r.doc
<1> DEFINE cl == client[c]
           res == Apply(r.doc, cl.pending)
           rest == Without(cl.pending, Ids(res.doc))
           again == Retyped(c, res.doc, rest)
           pending == IF res.ok THEN cl.pending ELSE again
           doc == IF res.ok THEN res.doc ELSE Apply(res.doc, again).doc
           known == [exists |-> r.exists, ver |-> r.ver,
                     gen |-> IF r.exists THEN r.gen ELSE cl.known.gen]
<1>1. cl \in ClientType  BY DEF TypeOK
<1>2. cl.pending \in Seq(Item) /\ r.doc \in Doc /\ cl.known.gen \in Nat /\ cl.seq \in Nat
  BY <1>1 DEF ClientType, RoomType
<1>3. res.doc \in Doc /\ res.ok \in BOOLEAN  BY <1>2, ApplyType
<1>4. rest \in Seq(Item)
  <2> HIDE DEF res
  <2> QED BY <1>2, WithoutIs
<1>5. again \in Seq(Item) /\ DOMAIN again = DOMAIN rest
  <2> HIDE DEF res, rest
  <2> QED BY <1>3, <1>4, RetypedIs
<1>6. pending \in Seq(Item) /\ doc \in Doc
  <2>1. Apply(res.doc, again).doc \in Doc
    <3> HIDE DEF res, again
    <3> QED BY <1>3, <1>5, ApplyType
  <2> HIDE DEF res, again
  <2> QED BY <1>2, <1>3, <1>5, <2>1
<1>7. ASSUME pending = << >> PROVE doc = r.doc
  <2>1. CASE res.ok
    <3>1. cl.pending = << >>  BY <1>7, <2>1
    <3> QED BY <2>1, <3>1, ApplyNothing
  <2>2. CASE ~res.ok
    <3>1. PICK i \in DOMAIN cl.pending : cl.pending[i].id \notin Ids(res.doc)
      BY <1>2, <2>2, ApplyMisses
    <3>2. \E j \in DOMAIN rest : rest[j] = cl.pending[i]
      <4> HIDE DEF res
      <4>1. Remains(cl.pending, Ids(res.doc), rest)  BY <1>2, WithoutIs
      <4> QED BY <3>1, <4>1 DEF Remains
    <3>3. DOMAIN again = {}  BY <1>7, <2>2
    <3> HIDE DEF again, rest
    <3> QED BY <1>5, <3>2, <3>3
  <2> QED BY <1>3, <2>1, <2>2
<1>8. Adopted(c, r) = [cl EXCEPT !.doc = doc, !.known = known, !.pending = pending,
                                 !.sent = {}, !.asked = FALSE]
  BY DEF Adopted
<1>9. known \in [exists : BOOLEAN, gen : Nat, ver : Nat]  BY <1>2 DEF RoomType
<1> HIDE DEF cl, doc, pending, known
<1>10. /\ Adopted(c, r) \in ClientType
       /\ Adopted(c, r).seq = cl.seq /\ Adopted(c, r).sent = {}
       /\ Adopted(c, r).known = known /\ Adopted(c, r).pending = pending
       /\ Adopted(c, r).doc = doc
  BY <1>1, <1>6, <1>8, <1>9 DEF ClientType
<1> QED BY <1>7, <1>10 DEF cl, known

LEMMA RequestSyncType ==
    ASSUME TypeOK, NEW c \in Client, NEW cl \in ClientType, RequestSync(c, cl)
    PROVE  client' \in [Client -> ClientType] /\ up' \in [Client -> Seq(UpType)]
<1>1. [cl EXCEPT !.asked = TRUE] \in ClientType  BY DEF ClientType
<1>2. client' \in [Client -> ClientType]  BY <1>1, ClientUpdate DEF RequestSync
<1>3. [type |-> "sync"] \in UpType /\ up[c] \in Seq(UpType)  BY DEF UpType, TypeOK
<1>4. Append(up[c], [type |-> "sync"]) \in Seq(UpType)  BY <1>3, AppendIs
<1>5. up' \in [Client -> Seq(UpType)]  BY <1>4 DEF RequestSync, TypeOK
<1> QED BY <1>2, <1>5

\* What is left of the batches in flight was in flight, with the same number.
LeftOf(left, sent) ==
    \A b \in left : \E a \in sent : a.seq = b.seq /\ b.ids \subseteq a.ids

LEMMA ForgetIs ==
    ASSUME NEW sent \in SUBSET [seq : Nat, ids : SUBSET Id], NEW ids
    PROVE  /\ Forget(sent, ids) \in SUBSET [seq : Nat, ids : SUBSET Id]
           /\ LeftOf(Forget(sent, ids), sent)
<1> SUFFICES ASSUME NEW b \in Forget(sent, ids)
             PROVE  /\ b \in [seq : Nat, ids : SUBSET Id]
                    /\ \E a \in sent : a.seq = b.seq /\ b.ids \subseteq a.ids
  BY DEF LeftOf
<1>1. PICK a \in sent : b = [a EXCEPT !.ids = @ \ ids]  BY DEF Forget
<1>2. a \in [seq : Nat, ids : SUBSET Id]  OBVIOUS
<1>3. b = [seq |-> a.seq, ids |-> a.ids \ ids]  BY <1>1, <1>2
<1> QED BY <1>2, <1>3

\* What handleRemoteOps makes of a client.
LEMMA ReceiveOpsTypes ==
    ASSUME TypeOK, NEW c \in Client, ReceiveOps(c)
    PROVE  client' \in [Client -> ClientType] /\ up' \in [Client -> Seq(UpType)]
<1> DEFINE f == Head(down[c])
           cl == client[c]
           ids == {f.ops[i].id : i \in DOMAIN f.ops}
           known == [exists |-> TRUE, gen |-> f.gen, ver |-> f.ver]
           pending == Without(cl.pending, ids)
           res == Apply(cl.doc, f.ops)
<1>1. f \in OpsType  BY HeadDown DEF ReceiveOps, Receiving
<1>2. cl \in ClientType  BY DEF TypeOK
<1>3. /\ f.gen \in Nat /\ f.ver \in Nat /\ f.ops \in Seq(Item)
      /\ cl.doc \in Doc /\ cl.pending \in Seq(Item)
      /\ cl.sent \in SUBSET [seq : Nat, ids : SUBSET Id]
  BY <1>1, <1>2 DEF OpsType, ClientType
<1>4. pending \in Seq(Item)
  <2> HIDE DEF ids
  <2> QED BY <1>3, WithoutIs
<1>5. res.doc \in Doc  BY <1>3, ApplyType
<1>6. Forget(cl.sent, ids) \in SUBSET [seq : Nat, ids : SUBSET Id]
  <2> HIDE DEF ids
  <2> QED BY <1>3, ForgetIs
<1>7. CASE UNCHANGED <<client, up>>  BY <1>7 DEF TypeOK
<1>8. CASE RequestSync(c, cl)  BY <1>2, <1>8, RequestSyncType
<1>9. CASE /\ Update(c, [cl EXCEPT !.known = known, !.pending = pending,
                                   !.sent = Forget(@, ids)])
           /\ UNCHANGED up
  <2>1. [cl EXCEPT !.known = known, !.pending = pending, !.sent = Forget(@, ids)] \in ClientType
    <3> HIDE DEF cl, pending, ids
    <3> QED BY <1>1, <1>2, <1>4, <1>6 DEF ClientType, OpsType
  <2> QED BY <1>9, <2>1, ClientUpdate DEF TypeOK
<1>10. CASE Update(c, [cl EXCEPT !.doc = res.doc, !.known = known]) /\ UNCHANGED up
  <2>1. [cl EXCEPT !.doc = res.doc, !.known = known] \in ClientType
    <3> HIDE DEF cl, res
    <3> QED BY <1>1, <1>2, <1>5 DEF ClientType, OpsType
  <2> QED BY <1>10, <2>1, ClientUpdate DEF TypeOK
<1>11. CASE RequestSync(c, [cl EXCEPT !.doc = res.doc])
  <2>1. [cl EXCEPT !.doc = res.doc] \in ClientType
    <3> HIDE DEF cl, res
    <3> QED BY <1>2, <1>5 DEF ClientType
  <2> QED BY <1>11, <2>1, RequestSyncType
<1> QED BY <1>7, <1>8, <1>9, <1>10, <1>11 DEF ReceiveOps

\* What flushPending takes.
LEMMA BatchType ==
    ASSUME TypeOK, NEW c \in Client
    PROVE  Without(client[c].pending, Outstanding(client[c])) \in Seq(Item)
<1>1. client[c].pending \in Seq(Item)  BY DEF TypeOK, ClientType
<1> QED BY <1>1, WithoutIs

LEMMA FlushTypes ==
    ASSUME TypeOK, NEW c \in Client, Flush(c)
    PROVE  client' \in [Client -> ClientType] /\ up' \in [Client -> Seq(UpType)]
<1> DEFINE cl == client[c]
           batch == Without(cl.pending, Outstanding(cl))
           ids == {batch[i].id : i \in DOMAIN batch}
           sent == IF batch = << >> THEN cl.sent
                   ELSE cl.sent \cup {[seq |-> cl.seq + 1, ids |-> ids]}
           msg == [type |-> "ops", ops |-> batch, seq |-> cl.seq + 1]
<1>1. cl \in ClientType /\ up[c] \in Seq(UpType) /\ batch \in Seq(Item)
  BY BatchType DEF TypeOK
<1> HIDE DEF batch
<1>2. ids \subseteq Id
  <2>1. \A i \in DOMAIN batch : batch[i] \in Item  BY <1>1
  <2> QED BY <2>1 DEF Item
<1>3. [cl EXCEPT !.seq = @ + 1, !.sent = sent] \in ClientType
  <2> HIDE DEF ids, cl
  <2>1. sent \in SUBSET [seq : Nat, ids : SUBSET Id] /\ cl.seq + 1 \in Nat
    BY <1>1, <1>2 DEF ClientType
  <2> HIDE DEF sent
  <2> QED BY <1>1, <2>1 DEF ClientType
<1>4. msg \in UpType  BY <1>1 DEF UpType, ClientType
<1>5. Append(up[c], msg) \in Seq(UpType)
  <2> HIDE DEF msg
  <2> QED BY <1>1, <1>4, AppendIs
<1>6. /\ Update(c, [cl EXCEPT !.seq = @ + 1, !.sent = sent])
      /\ up' = [up EXCEPT ![c] = Append(@, msg)]
  BY DEF Flush, batch
<1> HIDE DEF msg, sent, ids
<1>7. client' \in [Client -> ClientType]  BY <1>3, <1>6, ClientUpdate
<1>8. up' \in [Client -> Seq(UpType)]  BY <1>5, <1>6 DEF TypeOK
<1> QED BY <1>7, <1>8

LEMMA ClientKeepsTypes ==
    ASSUME TypeOK, NEW c \in Client, Type(c) \/ Flush(c) \/ AskAgain(c) \/ Receive(c)
    PROVE  TypeOK'
<1>1. client[c] \in ClientType  BY DEF TypeOK
<1>2. CASE Type(c)
  <2>1. PICK after \in Ids(client[c].doc) \cup {Root} :
            LET o == [id |-> [site |-> c, clock |-> MaxClock(client[c].doc) + 1],
                      after |-> after, ch |-> edits + 1]
            IN  Update(c, [client[c] EXCEPT !.doc = @ \cup {o}, !.pending = Append(@, o)])
    BY <1>2 DEF Type
  <2> DEFINE o == [id |-> [site |-> c, clock |-> MaxClock(client[c].doc) + 1],
                   after |-> after, ch |-> edits + 1]
  <2>2. client[c].doc \in Doc /\ client[c].pending \in Seq(Item)  BY <1>1 DEF ClientType
  <2>3. MaxClock(client[c].doc) \in Nat /\ c \in Int /\ edits \in Nat
    BY <2>2, MaxClockIs, SyncAssumption DEF TypeOK
  <2>4. after \in Id  BY <2>2 DEF Ids, Doc, Item, Id, Root
  <2>5. o \in Item  BY <2>3, <2>4 DEF Item, Id
  <2> HIDE DEF o
  <2>6. client[c].doc \cup {o} \in Doc /\ Append(client[c].pending, o) \in Seq(Item)
    BY <2>2, <2>5, AddItem, AppendIs
  <2>7. [client[c] EXCEPT !.doc = @ \cup {o}, !.pending = Append(@, o)] \in ClientType
    BY <1>1, <2>6 DEF ClientType
  <2>8. Update(c, [client[c] EXCEPT !.doc = @ \cup {o}, !.pending = Append(@, o)])
    BY <2>1 DEF o
  <2>9. client' \in [Client -> ClientType]  BY <2>7, <2>8, ClientUpdate
  <2>10. edits' \in Nat
    <3>1. edits' = edits + 1  BY <1>2 DEF Type
    <3>2. edits \in Nat  BY <2>3
    <3> QED BY ONLY <3>1, <3>2
  <2>11. UNCHANGED <<room, nextGen, event, other, session, up, down, drops, past>>
    BY <1>2 DEF Type
  <2> QED BY <2>9, <2>10, <2>11 DEF TypeOK
<1>3. CASE Flush(c)  BY <1>3, FlushTypes DEF Flush, TypeOK
<1>4. CASE AskAgain(c)
  <2>1. [client[c] EXCEPT !.asked = FALSE] \in ClientType  BY <1>1 DEF ClientType
  <2>2. client' \in [Client -> ClientType]  BY <1>4, <2>1, ClientUpdate DEF AskAgain
  <2> QED BY <1>4, <2>2 DEF AskAgain, TypeOK
<1>5. ASSUME Receive(c) PROVE down' \in [Client -> Seq(DownType)]
  <2>1. Tail(down[c]) \in Seq(DownType)
    BY <1>5, HeadDown DEF Receive, ReceiveState, ReceiveOps, ReceiveAck, Receiving
  <2>2. down' = [down EXCEPT ![c] = Tail(@)]
    BY <1>5 DEF Receive, ReceiveState, ReceiveOps, ReceiveAck, Received
  <2> QED BY <2>1, <2>2 DEF TypeOK
<1>6. CASE ReceiveState(c)
  <2> DEFINE r == Head(down[c]).room
  <2>1. r \in RoomType  BY <1>6, HeadDown DEF ReceiveState, Receiving
  <2> HIDE DEF r
  <2>2. Adopted(c, r) \in ClientType  BY <2>1, AdoptedIs
  <2>3. Update(c, client[c]) \/ Update(c, Adopted(c, r))  BY <1>6 DEF ReceiveState, r
  <2>4. client' \in [Client -> ClientType]  BY <1>1, <2>2, <2>3, ClientUpdate
  <2> QED BY <1>5, <1>6, <2>4 DEF Receive, ReceiveState, TypeOK
<1>7. CASE ReceiveOps(c)  BY <1>5, <1>7, ReceiveOpsTypes DEF Receive, ReceiveOps, TypeOK
<1>8. CASE ReceiveAck(c)
  <2> DEFINE m == Head(down[c])
             cl == client[c]
             pending == Without(cl.pending, Confirms(cl, m.seq))
             next == [cl EXCEPT !.pending = pending, !.sent = {b \in @ : b.seq # m.seq}]
             known(k) == [exists |-> k.exists \/ m.gen >= k.gen,
                          gen |-> IF m.gen >= k.gen THEN m.gen ELSE k.gen,
                          ver |-> IF m.ver = k.ver + 1 THEN m.ver ELSE k.ver]
  <2>1. m \in AckType  BY <1>8, HeadDown DEF ReceiveAck, Receiving
  <2>2. pending \in Seq(Item)  BY <1>1, WithoutIs DEF ClientType
  <2>3. next \in ClientType
    <3> HIDE DEF pending, m
    <3> QED BY <1>1, <2>2 DEF ClientType
  <2>4. [next EXCEPT !.known = known(@)] \in ClientType
    <3> HIDE DEF next, m
    <3>1. known(next.known) \in [exists : BOOLEAN, gen : Nat, ver : Nat]
      BY <2>1, <2>3 DEF ClientType, AckType
    <3> HIDE DEF known
    <3> QED BY <2>3, <3>1 DEF ClientType
  <2>5. Update(c, next) \/ Update(c, [next EXCEPT !.known = known(@)])
    BY <1>8 DEF ReceiveAck
  <2> HIDE DEF next, known
  <2>6. client' \in [Client -> ClientType]  BY <2>3, <2>4, <2>5, ClientUpdate
  <2> QED BY <1>5, <1>8, <2>6 DEF Receive, ReceiveAck, TypeOK
<1> QED BY <1>2, <1>3, <1>4, <1>6, <1>7, <1>8 DEF Receive

LEMMA DroppedTypes ==
    ASSUME TypeOK, NEW cs \in SUBSET Client, Dropped(cs)
    PROVE  /\ up' \in [Client -> Seq(UpType)] /\ down' \in [Client -> Seq(DownType)]
           /\ client' \in [Client -> ClientType] /\ drops' \in Nat
<1>1. << >> \in Seq(UpType) /\ << >> \in Seq(DownType)  OBVIOUS
<1>2. \A c \in Client : [client[c] EXCEPT !.sent = {}] \in ClientType
  BY DEF TypeOK, ClientType
<1> QED BY <1>1, <1>2 DEF Dropped, TypeOK

LEMMA ConnectionKeepsTypes ==
    ASSUME TypeOK, Restart \/ \E c \in Client : Connect(c) \/ Disconnect(c)
    PROVE  TypeOK'
<1>1. ASSUME NEW c \in Client, Connect(c) PROVE TypeOK'
  <2>1. NewSession \in SessionType
    <3>1. Idle \in MainType /\ Idle \in ReadType  BY DEF Idle, MainType, ReadType
    <3> QED BY <3>1 DEF NewSession, SessionType
  <2>2. session' \in [Client -> SessionType \cup {None}]  BY <1>1, <2>1 DEF Connect, TypeOK
  <2> QED BY <1>1, <2>2 DEF Connect, TypeOK
<1>2. ASSUME NEW c \in Client, Disconnect(c) PROVE TypeOK'
  BY <1>2, DroppedTypes DEF Disconnect, TypeOK
<1>3. CASE Restart
  <2>1. room' \in RoomType  BY <1>3 DEF Restart, Restorable, TypeOK
  <2> QED BY <1>3, <2>1, DroppedTypes DEF Restart, TypeOK
<1> QED BY <1>1, <1>2, <1>3

LEMMA InitTypes == Init => TypeOK
<1> SUFFICES ASSUME Init PROVE TypeOK
  OBVIOUS
<1>1. NewClient \in ClientType
  <2>1. << >> \in Seq(Item)  OBVIOUS
  <2> QED BY <2>1, EmptyDoc DEF NewClient, ClientType
<1>2. << >> \in Seq(UpType) /\ << >> \in Seq(DownType)  OBVIOUS
<1> QED BY <1>1, <1>2, EmptyDoc DEF Init, TypeOK

LEMMA StepTypes == TypeOK /\ [Next]_vars => TypeOK'
<1> SUFFICES ASSUME TypeOK, [Next]_vars PROVE TypeOK'
  OBVIOUS
<1>1. CASE Other  BY <1>1, OtherKeepsTypes
<1>2. ASSUME NEW c \in Client, MainLoop(c) PROVE TypeOK'  BY <1>2, MainKeepsTypes
<1>3. ASSUME NEW c \in Client, ReadLoop(c) PROVE TypeOK'  BY <1>3, ReadKeepsTypes
<1>4. ASSUME NEW c \in Client, Type(c) \/ Flush(c) \/ AskAgain(c) \/ Receive(c) PROVE TypeOK'
  BY <1>4, ClientKeepsTypes
<1>5. CASE Restart \/ \E c \in Client : Connect(c) \/ Disconnect(c)
  BY <1>5, ConnectionKeepsTypes
<1>6. CASE UNCHANGED vars  BY <1>6 DEF vars, TypeOK
<1> QED BY <1>1, <1>2, <1>3, <1>4, <1>5, <1>6 DEF Next

\* Every variable keeps its type: a session's goroutines have in hand what their
\* place in the code says, and the messages are what their type says.
THEOREM SyncTypeCorrect == Spec => []TypeOK
BY InitTypes, StepTypes, PTL DEF Spec

-----------------------------------------------------------------------------
(* What a step does to the room *)

Changes ==
    \/ UNCHANGED <<room, past>> /\ nextGen' \in {nextGen, Counter}
    \/ Become(Absent, nextGen)
    \/ \E bump \in {0, 1}, doc \in Doc :
          /\ bump = 1 \/ (room.exists /\ doc = room.doc)
          /\ Become(Written(bump, doc), Counter)
    \/ room' \in Restorable /\ UNCHANGED <<nextGen, past>>

\* The first step of handleWSOps changes the room in one of four ways.
LEMMA ReadOpsIs ==
    ASSUME TypeOK, NEW c \in Client, ReadOps(c)
    PROVE  LET msg == Head(up[c])
               doc == Apply(room.doc, msg.ops).doc
               ok == Apply(room.doc, msg.ops).ok
               next(bump) == Written(bump, doc)
               accept(r, ev) ==
                   /\ Become(r, Counter)
                   /\ session' = [session EXCEPT ![c].read =
                                    [at |-> "ack", frame |-> Ack(msg.seq, r), ev |-> ev]]
           IN  /\ msg.type = "ops" /\ msg.ops \in Seq(Item) /\ msg.seq \in Nat
               /\ doc \in Doc /\ room.doc \subseteq doc
               /\ \/ ok /\ accept(next(1), OpsEvent(next(1), c, msg.ops))
                  \/ /\ ok /\ doc = room.doc /\ room.exists
                     /\ \E bump \in {0, 1} : accept(next(bump), FullEvent(next(bump), c))
                  \/ msg.ops = << >> /\ accept(next(1), FullEvent(next(1), c))
                  \/ /\ session' = [session EXCEPT ![c].read =
                                        [at |-> "reject", seq |-> msg.seq]]
                     /\ nextGen' = Counter
                     /\ UNCHANGED <<room, past>>
<1>1. /\ Head(up[c]).type = "ops"
      /\ Head(up[c]).ops \in Seq(Item) /\ Head(up[c]).seq \in Nat
  BY HeadUp DEF ReadOps, Reading
<1>2. room.doc \in Doc  BY DEF TypeOK, RoomType
<1>3. /\ Apply(room.doc, Head(up[c]).ops).doc \in Doc
      /\ room.doc \subseteq Apply(room.doc, Head(up[c]).ops).doc
  BY <1>1, <1>2, ApplyType
<1> QED BY <1>1, <1>3 DEF ReadOps

LEMMA StepChanges ==
    ASSUME TypeOK, [Next]_vars
    PROVE  Changes
<1>1. room.doc \in Doc  BY DEF TypeOK, RoomType
<1>2. CASE Other
  <2>1. CASE OtherWrite
    <3>1. \E doc \in Doc : Become(Written(1, doc), Counter)
      <4>1. ASSUME NEW doc \in {{Rebuilt}, {}}, Become(Written(1, doc), Counter)
            PROVE  \E d \in Doc : Become(Written(1, d), Counter)
        BY <4>1, RebuiltType, EmptyDoc
      <4>2. ASSUME NEW after \in Ids(room.doc) \cup {Root},
                   Become(Written(1, room.doc \cup {Foreign(after)}), Counter)
            PROVE  \E d \in Doc : Become(Written(1, d), Counter)
        <5>1. room.doc \cup {Foreign(after)} \in Doc  BY <1>1, RebuiltType, AddItem
        <5> QED BY <4>2, <5>1
      <4> QED BY <2>1, <4>1, <4>2 DEF OtherWrite
    <3> QED BY <3>1 DEF Changes
  <2>2. CASE OtherTouch
    <3>1. nextGen = Counter /\ room.exists  BY <2>2 DEF OtherTouch, Counter
    <3>2. \E bump \in {0, 1} : Become(Written(bump, room.doc), Counter)
      BY <2>2, <3>1 DEF OtherTouch
    <3> QED BY <1>1, <3>1, <3>2 DEF Changes
  <2>3. CASE OtherLock  BY <1>1, <2>3 DEF OtherLock, Changes
  <2>4. CASE OtherNote \/ OtherForget  BY <2>4 DEF OtherNote, OtherForget, Changes
  <2>5. CASE OtherDelete \/ Expire  BY <2>5 DEF OtherDelete, Expire, Changes
  <2> QED BY <1>2, <2>1, <2>2, <2>3, <2>4, <2>5 DEF Other
<1>3. ASSUME NEW c \in Client, MainLoop(c) PROVE Changes
  BY <1>3 DEF MainLoop, MainPeek, MainCompose, MainSend, Changes
<1>4. ASSUME NEW c \in Client, ReadOps(c) PROVE Changes
  <2> DEFINE doc == Apply(room.doc, Head(up[c]).ops).doc
  <2>1. \/ doc \in Doc /\ Become(Written(1, doc), Counter)
        \/ doc \in Doc /\ doc = room.doc /\ room.exists
           /\ \E bump \in {0, 1} : Become(Written(bump, doc), Counter)
        \/ UNCHANGED <<room, past>> /\ nextGen' = Counter
    BY <1>4, ReadOpsIs
  <2> HIDE DEF doc
  <2> QED BY <2>1 DEF Changes
<1>5. ASSUME NEW c \in Client, ReadLoop(c), ~ReadOps(c) PROVE Changes
  BY <1>5 DEF ReadLoop, ReadAck, ReadNote, ReadReject, ReadSync, ReadPeek, ReadReply, Changes
<1>6. ASSUME NEW c \in Client, Type(c) \/ Flush(c) \/ AskAgain(c) \/ Receive(c) PROVE Changes
  BY <1>6 DEF Type, Flush, AskAgain, Receive, ReceiveState, ReceiveOps, ReceiveAck, Changes
<1>7. ASSUME NEW c \in Client, Connect(c) \/ Disconnect(c) PROVE Changes
  BY <1>7 DEF Connect, Disconnect, Changes
<1>8. CASE Restart  BY <1>8 DEF Restart, Changes
<1>9. CASE UNCHANGED vars  BY <1>9 DEF vars, Changes
<1> QED BY <1>2, <1>3, <1>4, <1>5, <1>6, <1>7, <1>8, <1>9 DEF Next

LEMMA ChangesKeep ==
    ASSUME TypeOK, PastInv, ForkInv, Changes
    PROVE  PastInv' /\ ForkInv' /\ past \subseteq past' /\ room' \in past'
<1>1. /\ room \in RoomType /\ nextGen \in Nat /\ past \subseteq RoomType
      /\ room \in past
      /\ \A r \in past : r = Absent \/ (r.exists /\ r.ver > 0 /\ r.gen <= nextGen)
  BY DEF TypeOK, PastInv
<1>2. CASE UNCHANGED <<room, past>> /\ nextGen' \in {nextGen, Counter}
  <2>1. nextGen' \in Nat /\ nextGen <= nextGen'  BY <1>1, <1>2 DEF Counter
  <2>2. \A r \in past : r \in RoomType /\ (r.exists => r.gen <= nextGen')
    BY <1>1, <2>1 DEF RoomType, Absent
  <2>3. PastInv'  BY <1>1, <1>2, <2>2 DEF PastInv, Absent
  <2>4. ForkInv'  BY <1>2 DEF ForkInv, Forked
  <2> QED BY <1>1, <1>2, <2>3, <2>4
<1>3. CASE Become(Absent, nextGen)
  <2>1. room' = Absent /\ past' = past \cup {Absent} /\ nextGen' = nextGen
    BY <1>3 DEF Become
  <2>2. PastInv'  BY <1>1, <2>1 DEF PastInv
  <2>3. ForkInv'  BY <2>1 DEF ForkInv, Forked, Absent
  <2> QED BY <2>1, <2>2, <2>3
<1>4. ASSUME NEW bump \in {0, 1}, NEW doc \in Doc,
             bump = 1 \/ (room.exists /\ doc = room.doc),
             Become(Written(bump, doc), Counter)
      PROVE  PastInv' /\ ForkInv' /\ past \subseteq past' /\ room' \in past'
  <2> DEFINE w == Written(bump, doc)
  <2>1. room' = w /\ past' = past \cup {w} /\ nextGen' = Counter  BY <1>4 DEF Become
  <2>2. /\ w.exists /\ w.gen = Gen /\ w.ver = room.ver + bump /\ w.doc = doc
        /\ w \in RoomType /\ Counter \in Nat
    BY WrittenType DEF Written
  <2>3. room.exists => room.ver > 0 /\ room.gen <= nextGen  BY <1>1 DEF Absent
  <2>4. w.ver > 0 /\ w.gen <= Counter /\ nextGen <= Counter
    <3>1. room.ver \in Nat /\ room.gen \in Nat  BY <1>1 DEF RoomType
    <3> QED BY <1>1, <1>4, <2>2, <2>3, <3>1 DEF Gen, Counter
  <2>5. ASSUME NEW r \in past, r.exists
        PROVE  r.ver > 0 /\ r.gen <= Counter /\ r.gen <= nextGen /\ r \in RoomType
    <3>1. r.ver > 0 /\ r.gen <= nextGen /\ r \in RoomType  BY <1>1, <2>5 DEF Absent
    <3>2. r.gen \in Nat  BY <3>1 DEF RoomType
    <3> QED BY <1>1, <2>2, <2>4, <3>1, <3>2
  <2>6. PastInv'
    <3>1. \A r \in past : r = Absent \/ r.exists  BY <1>1
    <3> HIDE DEF w
    <3> QED BY <2>1, <2>2, <2>4, <2>5, <3>1 DEF PastInv
  <2>7. ForkInv'
    <3> SUFFICES ASSUME ~Lossy
                 PROVE  /\ \A g \in Nat : ~Forked(g)'
                        /\ \A r \in past' : r.exists /\ r.gen = w.gen =>
                               r.ver <= w.ver /\ (r.ver = w.ver => r.doc = w.doc)
      BY <2>1 DEF ForkInv
    <3>1. ASSUME NEW r \in past, r.exists, r.gen = w.gen
          PROVE  r.ver <= w.ver /\ (r.ver = w.ver => r.doc = w.doc)
      <4>1. r.gen \in Nat /\ r.ver \in Nat /\ r.gen <= nextGen  BY <2>5, <3>1 DEF RoomType
      <4>2. room.exists  BY <1>1, <2>2, <3>1, <4>1 DEF Gen
      <4>3. r.gen = room.gen  BY <2>2, <3>1, <4>2 DEF Gen
      <4>4. r.ver <= room.ver /\ (r.ver = room.ver => r.doc = room.doc)
        BY <3>1, <4>2, <4>3 DEF ForkInv
      <4>5. room.ver \in Nat  BY <1>1 DEF RoomType
      <4> HIDE DEF w
      <4>6. CASE bump = 1  BY <2>2, <4>1, <4>4, <4>5, <4>6
      <4>7. CASE bump = 0  BY <1>4, <2>2, <4>1, <4>4, <4>5, <4>7
      <4> QED BY <4>6, <4>7
    <3>2. ASSUME NEW r \in past', r.exists, r.gen = w.gen
          PROVE  r.ver <= w.ver /\ (r.ver = w.ver => r.doc = w.doc)
      <4>1. w.ver \in Nat  BY <2>2 DEF RoomType
      <4> HIDE DEF w
      <4> QED BY <2>1, <3>1, <3>2, <4>1
    <3>3. ASSUME NEW g \in Nat, NEW r \in past', NEW q \in past',
                 r.exists, q.exists, r.gen = g, q.gen = g, r.ver = q.ver
          PROVE  r.doc = q.doc
      <4> HIDE DEF w
      <4>1. CASE r \in past /\ q \in past
        <5>1. ~Forked(g)  BY DEF ForkInv
        <5> QED BY <3>3, <4>1, <5>1 DEF Forked
      <4>2. CASE r = w \/ q = w  BY <2>1, <3>2, <3>3, <4>2
      <4> QED BY <2>1, <4>1, <4>2
    <3>4. \A g \in Nat : ~Forked(g)'  BY <3>3 DEF Forked
    <3> QED BY <3>2, <3>4
  <2> QED BY <2>1, <2>6, <2>7
<1>5. CASE room' \in Restorable /\ UNCHANGED <<nextGen, past>>
  <2>1. room' \in past  BY <1>1, <1>5 DEF Restorable
  <2>2. PastInv'  BY <1>1, <1>5, <2>1 DEF PastInv
  <2>3. ForkInv'
    <3>1. ~Lossy => room' = room  BY <1>5 DEF Restorable
    <3> QED BY <1>5, <3>1 DEF ForkInv, Forked
  <2> QED BY <1>5, <2>1, <2>2, <2>3
<1> QED BY <1>2, <1>3, <1>4, <1>5 DEF Changes

-----------------------------------------------------------------------------
(* What every step keeps of what is known of the messages *)

\* A client's numbers grow, and a batch in flight loses operations or is new.
Proceeds(c) ==
    /\ client'[c].seq >= client[c].seq
    /\ \A b \in client'[c].sent :
          /\ b.seq <= client'[c].seq
          /\ \/ b.seq > client[c].seq
             \/ \E a \in client[c].sent : a.seq = b.seq /\ b.ids \subseteq a.ids

Advances ==
    /\ TypeOK /\ TypeOK'
    /\ past \subseteq past'
    /\ \A c \in Client : Proceeds(c)

LEMMA SameProceeds ==
    ASSUME TypeOK, WireInv, NEW c \in Client,
           client'[c].seq = client[c].seq, client'[c].sent \subseteq client[c].sent
    PROVE  Proceeds(c)
<1>1. client[c].seq \in Nat  BY DEF TypeOK, ClientType
<1> QED BY <1>1 DEF Proceeds, WireInv

LEMMA ClientsProceed ==
    ASSUME TypeOK, WireInv, [Next]_vars
    PROVE  \A c \in Client : Proceeds(c)
<1>1. CASE UNCHANGED client  BY <1>1, SameProceeds
<1>2. CASE UNCHANGED vars  BY <1>1, <1>2 DEF vars
<1>3. CASE Other
  BY <1>1, <1>3 DEF Other, OtherWrite, OtherTouch, OtherLock, OtherNote, OtherDelete,
                    OtherForget, Expire
<1>4. ASSUME NEW c \in Client, MainLoop(c) \/ ReadLoop(c) \/ Connect(c)
      PROVE  \A d \in Client : Proceeds(d)
  BY <1>1, <1>4 DEF MainLoop, MainPeek, MainCompose, MainSend, ReadLoop, ReadOps, ReadAck,
     ReadNote, ReadReject, ReadSync, ReadPeek, ReadReply, Connect
<1>5. ASSUME NEW cs \in SUBSET Client, Dropped(cs) PROVE \A d \in Client : Proceeds(d)
  <2> SUFFICES ASSUME NEW d \in Client PROVE Proceeds(d)
    OBVIOUS
  <2>1. client[d] \in ClientType  BY DEF TypeOK
  <2>2. client'[d].seq = client[d].seq /\ client'[d].sent \subseteq client[d].sent
    BY <1>5, <2>1 DEF Dropped, ClientType
  <2> QED BY <2>2, SameProceeds
<1>6. ASSUME NEW c \in Client, NEW cl \in ClientType, Update(c, cl),
             cl.seq = client[c].seq, cl.sent \subseteq client[c].sent
      PROVE  \A d \in Client : Proceeds(d)
  <2> SUFFICES ASSUME NEW d \in Client PROVE Proceeds(d)
    OBVIOUS
  <2>1. client'[d] = IF d = c THEN cl ELSE client[d]  BY <1>6 DEF Update, TypeOK
  <2>2. client'[d].seq = client[d].seq /\ client'[d].sent \subseteq client[d].sent
    BY <1>6, <2>1
  <2> QED BY <2>2, SameProceeds
<1>7. ASSUME NEW c \in Client, Type(c) PROVE \A d \in Client : Proceeds(d)
  <2>1. client[c] \in ClientType  BY DEF TypeOK
  <2>2. PICK o : Update(c, [client[c] EXCEPT !.doc = @ \cup {o}, !.pending = Append(@, o)])
    BY <1>7 DEF Type
  <2> SUFFICES ASSUME NEW d \in Client PROVE Proceeds(d)
    OBVIOUS
  <2>3. client'[d].seq = client[d].seq /\ client'[d].sent = client[d].sent
    BY <2>1, <2>2 DEF Update, TypeOK, ClientType
  <2> QED BY <2>3, SameProceeds
<1>8. ASSUME NEW c \in Client, AskAgain(c) PROVE \A d \in Client : Proceeds(d)
  <2>1. client[c] \in ClientType  BY DEF TypeOK
  <2>2. [client[c] EXCEPT !.asked = FALSE] \in ClientType  BY <2>1 DEF ClientType
  <2> QED BY <1>6, <1>8, <2>1, <2>2 DEF AskAgain, ClientType
<1>9. ASSUME NEW c \in Client, Flush(c) PROVE \A d \in Client : Proceeds(d)
  <2>1. client[c] \in ClientType  BY DEF TypeOK
  <2>2. PICK ids : client' = [client EXCEPT ![c] = [client[c] EXCEPT !.seq = @ + 1,
                !.sent = IF Without(client[c].pending, Outstanding(client[c])) = << >> THEN @
                         ELSE @ \cup {[seq |-> client[c].seq + 1, ids |-> ids]}]]
    BY <1>9 DEF Flush, Update
  <2>3. /\ client'[c].seq = client[c].seq + 1
        /\ \A b \in client'[c].sent : b \in client[c].sent \/ b.seq = client[c].seq + 1
    BY <2>1, <2>2 DEF TypeOK, ClientType
  <2>4. Proceeds(c)
    <3>1. client[c].seq \in Nat  BY <2>1 DEF ClientType
    <3>2. \A b \in client[c].sent : b.seq \in Nat /\ b.seq <= client[c].seq
      BY <2>1 DEF WireInv, ClientType
    <3> QED BY <2>3, <3>1, <3>2 DEF Proceeds
  <2>5. ASSUME NEW d \in Client, d # c PROVE Proceeds(d)
    <3>1. client'[d] = client[d]  BY <2>2, <2>5 DEF TypeOK
    <3> QED BY <3>1, SameProceeds
  <2> QED BY <2>4, <2>5
<1>10. ASSUME NEW c \in Client, ReceiveState(c) PROVE \A d \in Client : Proceeds(d)
  <2> DEFINE r == Head(down[c]).room
  <2>1. r \in RoomType  BY <1>10, HeadDown DEF ReceiveState, Receiving
  <2> HIDE DEF r
  <2>2. /\ Adopted(c, r) \in ClientType /\ Adopted(c, r).seq = client[c].seq
        /\ Adopted(c, r).sent = {}
    BY <2>1, AdoptedIs
  <2>3. Update(c, client[c]) \/ Update(c, Adopted(c, r))  BY <1>10 DEF ReceiveState, r
  <2>4. client[c] \in ClientType  BY DEF TypeOK
  <2> QED BY <1>6, <2>2, <2>3, <2>4
<1>11. ASSUME NEW c \in Client, ReceiveOps(c) PROVE \A d \in Client : Proceeds(d)
  <2>1. client[c] \in ClientType  BY DEF TypeOK
  <2>2. ASSUME NEW cl, NEW doc,
               cl = client[c] \/ cl = [client[c] EXCEPT !.doc = doc], RequestSync(c, cl)
        PROVE  \A d \in Client : Proceeds(d)
    <3> SUFFICES ASSUME NEW d \in Client PROVE Proceeds(d)
      OBVIOUS
    <3>1. client'[d].seq = client[d].seq /\ client'[d].sent = client[d].sent
      BY <2>1, <2>2 DEF RequestSync, Update, TypeOK, ClientType
    <3> QED BY <3>1, SameProceeds
  <2>3. ASSUME NEW known, NEW pending, NEW ids,
               Update(c, [client[c] EXCEPT !.known = known, !.pending = pending,
                                           !.sent = Forget(@, ids)])
        PROVE  \A d \in Client : Proceeds(d)
    <3>1. /\ client'[c].seq = client[c].seq /\ client'[c].sent = Forget(client[c].sent, ids)
      BY <2>1, <2>3 DEF Update, TypeOK, ClientType
    <3>2. client[c].seq \in Nat /\ client[c].sent \in SUBSET [seq : Nat, ids : SUBSET Id]
      BY <2>1 DEF ClientType
    <3>3. LeftOf(client'[c].sent, client[c].sent)  BY <3>1, <3>2, ForgetIs
    <3>4. \A a \in client[c].sent : a.seq <= client[c].seq  BY DEF WireInv
    <3>5. Proceeds(c)  BY <3>1, <3>2, <3>3, <3>4 DEF Proceeds, LeftOf
    <3>6. ASSUME NEW d \in Client, d # c PROVE Proceeds(d)
      <4>1. client'[d] = client[d]  BY <2>3, <3>6 DEF Update, TypeOK
      <4> QED BY <4>1, SameProceeds
    <3> QED BY <3>5, <3>6
  <2>4. ASSUME NEW known, NEW doc, Update(c, [client[c] EXCEPT !.doc = doc, !.known = known])
        PROVE  \A d \in Client : Proceeds(d)
    <3> SUFFICES ASSUME NEW d \in Client PROVE Proceeds(d)
      OBVIOUS
    <3>1. client'[d].seq = client[d].seq /\ client'[d].sent = client[d].sent
      BY <2>1, <2>4 DEF Update, TypeOK, ClientType
    <3> QED BY <3>1, SameProceeds
  <2>5. CASE UNCHANGED client  BY <1>1, <2>5
  <2> QED BY <1>11, <2>2, <2>3, <2>4, <2>5 DEF ReceiveOps
<1>12. ASSUME NEW c \in Client, ReceiveAck(c) PROVE \A d \in Client : Proceeds(d)
  <2>1. client[c] \in ClientType  BY DEF TypeOK
  <2>2. PICK cl : /\ Update(c, cl)
                  /\ cl.seq = client[c].seq /\ cl.sent \subseteq client[c].sent
    <3> DEFINE next == [client[c] EXCEPT
                          !.pending = Without(@, Confirms(client[c], Head(down[c]).seq)),
                          !.sent = {b \in @ : b.seq # Head(down[c]).seq}]
    <3>1. next.seq = client[c].seq /\ next.sent \subseteq client[c].sent
      BY <2>1 DEF ClientType
    <3>2. \A known : /\ [next EXCEPT !.known = known].seq = next.seq
                     /\ [next EXCEPT !.known = known].sent = next.sent
      BY <2>1 DEF ClientType
    <3>3. Update(c, next) \/ \E known : Update(c, [next EXCEPT !.known = known])
      BY <1>12 DEF ReceiveAck
    <3> HIDE DEF next
    <3> QED BY <3>1, <3>2, <3>3
  <2> SUFFICES ASSUME NEW d \in Client PROVE Proceeds(d)
    OBVIOUS
  <2>3. client'[d].seq = client[d].seq /\ client'[d].sent \subseteq client[d].sent
    BY <2>1, <2>2 DEF Update, TypeOK
  <2> QED BY <2>3, SameProceeds
<1>13. ASSUME NEW c \in Client, Disconnect(c) PROVE \A d \in Client : Proceeds(d)
  BY <1>5, <1>13 DEF Disconnect
<1>14. CASE Restart  BY <1>5, <1>14 DEF Restart
<1> QED BY <1>2, <1>3, <1>4, <1>7, <1>8, <1>9, <1>10, <1>11, <1>12, <1>13, <1>14
        DEF Next, Receive

LEMMA MadeKept ==
    ASSUME past \subseteq past'
    PROVE  /\ \A gen, ver, ops : Made(gen, ver, ops) => Made(gen, ver, ops)'
           /\ \A ids : Had(ids) => Had(ids)'
BY DEF Made, Had

LEMMA MessagesKept ==
    ASSUME Advances
    PROVE  /\ \A c \in Client, m \in DownType : DownOK(c, m) => DownOK(c, m)'
           /\ \A c \in Client, m \in UpType : UpOK(c, m) => UpOK(c, m)'
           /\ \A ev \in EventType : EventOK(ev) => EventOK(ev)'
<1>1. \A c \in Client :
          client[c] \in ClientType /\ client'[c] \in ClientType /\ Proceeds(c)
  BY DEF Advances, TypeOK
<1>2. \A c \in Client : /\ client[c].seq \in Nat /\ client'[c].seq \in Nat
                        /\ client[c].seq <= client'[c].seq
  BY <1>1 DEF Proceeds, ClientType
<1>3. \A by : Sent(by) => Sent(by)'  BY <1>2 DEF Sent
<1>4. /\ \A gen, ver, ops : Made(gen, ver, ops) => Made(gen, ver, ops)'
      /\ \A ids : Had(ids) => Had(ids)'
  BY MadeKept DEF Advances
<1>5. ASSUME NEW ev \in EventType, EventOK(ev) PROVE EventOK(ev)'
  BY <1>3, <1>4, <1>5 DEF EventOK
<1>6. ASSUME NEW c \in Client, NEW n \in Nat, n <= client[c].seq, NEW b \in client'[c].sent,
             b.seq = n
      PROVE  \E a \in client[c].sent : a.seq = n /\ b.ids \subseteq a.ids
  BY <1>1, <1>2, <1>6 DEF Proceeds
<1>7. ASSUME NEW c \in Client, NEW m \in UpType, UpOK(c, m) PROVE UpOK(c, m)'
  <2> SUFFICES ASSUME m.type = "ops"
               PROVE  /\ client'[c].seq > 0 /\ m.seq <= client'[c].seq
                      /\ \A b \in client'[c].sent : b.seq = m.seq => b.ids \subseteq Idents(m.ops)
    BY DEF UpOK
  <2>1. /\ m.seq \in Nat /\ client[c].seq > 0 /\ m.seq <= client[c].seq
        /\ \A b \in client[c].sent : b.seq = m.seq => b.ids \subseteq Idents(m.ops)
    BY <1>7 DEF UpOK, UpType
  <2>2. client'[c].seq > 0 /\ m.seq <= client'[c].seq  BY <1>2, <2>1
  <2>3. ASSUME NEW b \in client'[c].sent, b.seq = m.seq PROVE b.ids \subseteq Idents(m.ops)
    <3>1. PICK a \in client[c].sent : a.seq = m.seq /\ b.ids \subseteq a.ids
      BY <1>6, <2>1, <2>3
    <3> QED BY <2>1, <3>1
  <2> QED BY <2>2, <2>3
<1>8. ASSUME NEW c \in Client, NEW m \in DownType, DownOK(c, m) PROVE DownOK(c, m)'
  <2>1. m.type = "state" => m.room \in past'  BY <1>8 DEF DownOK, Advances
  <2>2. m.type = "ops" => Made(m.gen, m.ver, m.ops)' /\ Sent(m.by)'
    BY <1>3, <1>4, <1>8 DEF DownOK
  <2>3. ASSUME m.type = "ack"
        PROVE  client'[c].seq > 0 /\ m.seq <= client'[c].seq /\ (m.ok => Confirmed(c, m.seq)')
    <3>1. m.seq \in Nat /\ client[c].seq > 0 /\ m.seq <= client[c].seq
      BY <1>8, <2>3 DEF DownOK, DownType, AckType, StateType, OpsType
    <3>2. client'[c].seq > 0 /\ m.seq <= client'[c].seq  BY <1>2, <3>1
    <3>3. ASSUME m.ok, NEW b \in client'[c].sent, b.seq = m.seq PROVE Had(b.ids)'
      <4>1. PICK a \in client[c].sent : a.seq = m.seq /\ b.ids \subseteq a.ids
        BY <1>6, <3>1, <3>3
      <4>2. Had(a.ids)  BY <1>8, <2>3, <3>3, <4>1 DEF DownOK, Confirmed
      <4>3. Had(a.ids)'  BY <1>4, <4>2
      <4> QED BY <4>1, <4>3 DEF Had
    <3> QED BY <3>2, <3>3 DEF Confirmed
  <2> QED BY <2>1, <2>2, <2>3 DEF DownOK
<1> QED BY <1>5, <1>7, <1>8

-----------------------------------------------------------------------------
(* The messages and what the goroutines have in hand *)

\* A queue is what it was, loses its first message or all, or gets one that is
\* what it should be.
DownMoves(c) ==
    \/ down'[c] = down[c]
    \/ down'[c] = << >>
    \/ down[c] # << >> /\ down'[c] = Tail(down[c])
    \/ \E m \in DownType : down'[c] = Append(down[c], m) /\ DownOK(c, m)'

UpMoves(c) ==
    \/ up'[c] = up[c]
    \/ up'[c] = << >>
    \/ up[c] # << >> /\ up'[c] = Tail(up[c])
    \/ \E m \in UpType : up'[c] = Append(up[c], m) /\ UpOK(c, m)'

LEMMA WireMoves ==
    ASSUME Advances, WireInv, \A c \in Client : DownMoves(c) /\ UpMoves(c)
    PROVE  WireInv'
<1> SUFFICES ASSUME NEW c \in Client
             PROVE  /\ \A i \in DOMAIN down'[c] : DownOK(c, down[c][i])'
                    /\ \A i \in DOMAIN up'[c] : UpOK(c, up[c][i])'
                    /\ \A b \in client'[c].sent : b.seq <= client'[c].seq
  BY DEF WireInv
<1>1. down[c] \in Seq(DownType) /\ up[c] \in Seq(UpType)  BY DEF Advances, TypeOK
<1>2. ASSUME NEW i \in DOMAIN down'[c] PROVE DownOK(c, down[c][i])'
  <2>1. PICK m : m = down'[c][i]  OBVIOUS
  <2>2. CASE \E j \in DOMAIN down[c] : m = down[c][j]
    <3>1. m \in DownType /\ DownOK(c, m)  BY <1>1, <2>2 DEF WireInv
    <3>2. DownOK(c, m)'  BY <3>1, MessagesKept
    <3> QED BY <2>1, <3>2
  <2>3. CASE DownOK(c, m)'  BY <2>1, <2>3
  <2>4. CASE down'[c] = << >>  BY <2>4
  <2>5. CASE down[c] # << >> /\ down'[c] = Tail(down[c])
    <3>1. \E j \in DOMAIN down[c] : m = down[c][j]  BY <1>1, <2>1, <2>5, TailIs
    <3> QED BY <2>2, <3>1
  <2>6. ASSUME NEW n \in DownType, down'[c] = Append(down[c], n), DownOK(c, n)'
        PROVE  DownOK(c, down[c][i])'
    <3>1. m = n \/ \E j \in DOMAIN down[c] : m = down[c][j]  BY <1>1, <2>1, <2>6, AppendIs
    <3>2. m = n => DownOK(c, m)'  BY <2>6
    <3> QED BY <2>2, <2>3, <3>1, <3>2
  <2>7. CASE down'[c] = down[c]  BY <2>1, <2>2, <2>7
  <2> QED BY <2>4, <2>5, <2>6, <2>7 DEF DownMoves
<1>3. ASSUME NEW i \in DOMAIN up'[c] PROVE UpOK(c, up[c][i])'
  <2>1. PICK m : m = up'[c][i]  OBVIOUS
  <2>2. CASE \E j \in DOMAIN up[c] : m = up[c][j]
    <3>1. m \in UpType /\ UpOK(c, m)  BY <1>1, <2>2 DEF WireInv
    <3>2. UpOK(c, m)'  BY <3>1, MessagesKept
    <3> QED BY <2>1, <3>2
  <2>3. CASE UpOK(c, m)'  BY <2>1, <2>3
  <2>4. CASE up'[c] = << >>  BY <2>4
  <2>5. CASE up[c] # << >> /\ up'[c] = Tail(up[c])
    <3>1. \E j \in DOMAIN up[c] : m = up[c][j]  BY <1>1, <2>1, <2>5, TailIs
    <3> QED BY <2>2, <3>1
  <2>6. ASSUME NEW n \in UpType, up'[c] = Append(up[c], n), UpOK(c, n)'
        PROVE  UpOK(c, up[c][i])'
    <3>1. m = n \/ \E j \in DOMAIN up[c] : m = up[c][j]  BY <1>1, <2>1, <2>6, AppendIs
    <3>2. m = n => UpOK(c, m)'  BY <2>6
    <3> QED BY <2>2, <2>3, <3>1, <3>2
  <2>7. CASE up'[c] = up[c]  BY <2>1, <2>2, <2>7
  <2> QED BY <2>4, <2>5, <2>6, <2>7 DEF UpMoves
<1>4. \A b \in client'[c].sent : b.seq <= client'[c].seq  BY DEF Advances, Proceeds
<1> QED BY <1>2, <1>3, <1>4

SessionMoves(c) ==
    \/ session'[c] = session[c]
    \/ session'[c] = None
    \/ \E s \in SessionType : session'[c] = s /\ MainOK(c, s)' /\ ReadOK(c, s)'

LEMMA GoroutinesKept ==
    ASSUME Advances, NEW c \in Client, NEW s \in SessionType
    PROVE  (MainOK(c, s) => MainOK(c, s)') /\ (ReadOK(c, s) => ReadOK(c, s)')
<1>1. s.main \in MainType /\ s.read \in ReadType  BY DEF SessionType
<1>2. past \subseteq past' /\ client[c].seq \in Nat /\ client'[c].seq \in Nat
      /\ client[c].seq <= client'[c].seq
  BY DEF Advances, Proceeds, TypeOK, ClientType
<1>3. ASSUME MainOK(c, s) PROVE MainOK(c, s)'
  <2>1. ASSUME s.main.at = "send" PROVE DownOK(c, s.main.frame)'
    <3>1. s.main.frame \in DownType  BY <1>1, <2>1 DEF MainType, DownType
    <3>2. DownOK(c, s.main.frame)  BY <1>3, <2>1 DEF MainOK
    <3> QED BY <3>1, <3>2, MessagesKept
  <2> QED BY <1>2, <1>3, <2>1 DEF MainOK
<1>4. ASSUME ReadOK(c, s) PROVE ReadOK(c, s)'
  <2>1. ASSUME s.read.at = "ack" PROVE DownOK(c, s.read.frame)'
    <3>1. s.read.frame \in DownType  BY <1>1, <2>1 DEF ReadType, DownType
    <3>2. DownOK(c, s.read.frame)  BY <1>4, <2>1 DEF ReadOK
    <3> QED BY <3>1, <3>2, MessagesKept
  <2>2. ASSUME s.read.at \in {"ack", "note"} PROVE EventOK(s.read.ev)'
    <3>1. s.read.ev \in EventType  BY <1>1, <2>2 DEF ReadType
    <3>2. EventOK(s.read.ev)  BY <1>4, <2>2 DEF ReadOK
    <3> QED BY <3>1, <3>2, MessagesKept
  <2>3. ASSUME s.read.at = "reject" PROVE client'[c].seq > 0 /\ s.read.seq <= client'[c].seq
    <3>1. s.read.seq \in Nat  BY <1>1, <2>3 DEF ReadType
    <3>2. client[c].seq > 0 /\ s.read.seq <= client[c].seq  BY <1>4, <2>3 DEF ReadOK
    <3> QED BY <1>2, <3>1, <3>2
  <2>4. s.read.at = "reply" => s.read.room \in past'  BY <1>2, <1>4 DEF ReadOK
  <2> QED BY <2>1, <2>2, <2>3, <2>4 DEF ReadOK
<1> QED BY <1>3, <1>4

LEMMA SessionsMove ==
    ASSUME Advances, SessionInv, \A c \in Client : SessionMoves(c)
    PROVE  SessionInv'
<1> SUFFICES ASSUME NEW c \in Client, session'[c] # None
             PROVE  MainOK(c, session[c])' /\ ReadOK(c, session[c])'
  BY DEF SessionInv
<1>1. PICK s : s = session'[c]  OBVIOUS
<1>2. CASE session'[c] = session[c]
  <2>1. s \in SessionType /\ MainOK(c, s) /\ ReadOK(c, s)
    BY <1>1, <1>2 DEF SessionInv, Advances, TypeOK
  <2>2. MainOK(c, s)' /\ ReadOK(c, s)'  BY <2>1, GoroutinesKept
  <2> QED BY <1>1, <2>2
<1>3. CASE MainOK(c, s)' /\ ReadOK(c, s)'  BY <1>1, <1>3
<1> QED BY <1>1, <1>2, <1>3 DEF SessionMoves

\* The room's new version, when a batch that fits made it.
LEMMA MadeByWriting ==
    ASSUME TypeOK, PastInv, NEW doc \in Doc, NEW ops, NEW w, w = Written(1, doc),
           Become(w, Counter), Apply(room.doc, ops) = [doc |-> doc, ok |-> TRUE],
           Idents(ops) \subseteq Ids(doc)
    PROVE  Made(w.gen, w.ver, ops)'
<1>1. w.exists /\ w.gen = Gen /\ w.ver = room.ver + 1 /\ w.doc = doc  BY DEF Written
<1>2. w \in past' /\ room \in past'  BY DEF Become, PastInv
<1>3. CASE room.exists
  <2>1. room.gen = w.gen /\ room.ver + 1 = w.ver  BY <1>1, <1>3 DEF Gen
  <2> QED BY <1>1, <1>2, <1>3, <2>1 DEF Made
<1>4. CASE ~room.exists
  <2>1. room = Absent  BY <1>4 DEF PastInv
  <2>2. w.ver = 1  BY <1>1, <2>1 DEF Absent
  <2> QED BY <1>1, <1>2, <2>2 DEF Made
<1> QED BY <1>3, <1>4

LEMMA FullEventOK ==
    ASSUME NEW r, NEW by
    PROVE  EventOK(FullEvent(r, by)) /\ EventOK(FullEvent(r, by))'
BY DEF EventOK, FullEvent

LEMMA OtherKeepsMessages ==
    ASSUME Advances, PastInv, EventInv, WireInv, SessionInv, Other
    PROVE  EventInv' /\ WireInv' /\ SessionInv'
<1>0. TypeOK  BY DEF Advances
<1>1. UNCHANGED <<session, up, down>>
  BY DEF Other, OtherWrite, OtherTouch, OtherLock, OtherNote, OtherDelete, OtherForget, Expire
<1>2. WireInv' /\ SessionInv'
  BY <1>1, WireMoves, SessionsMove DEF DownMoves, UpMoves, SessionMoves
<1> SUFFICES EventInv'
  BY <1>2
<1>3. ASSUME event' \in {event, None} PROVE event' # None => EventOK(event)'
  <2> SUFFICES ASSUME event' # None PROVE EventOK(event)'
    OBVIOUS
  <2>1. PICK ev : ev = event'  OBVIOUS
  <2>2. ev \in EventType /\ EventOK(ev)  BY <1>0, <1>3, <2>1 DEF EventInv, TypeOK
  <2>3. EventOK(ev)'  BY <2>2, MessagesKept
  <2> QED BY <2>1, <2>3
<1>4. ASSUME UNCHANGED other PROVE other' # None /\ other'.at = "note" => EventOK(other.ev)'
  <2> SUFFICES ASSUME other' # None, other'.at = "note" PROVE EventOK(other.ev)'
    OBVIOUS
  <2>1. PICK ev : ev = other'.ev  OBVIOUS
  <2>2. ev \in EventType /\ EventOK(ev)  BY <1>0, <1>4, <2>1 DEF EventInv, TypeOK
  <2>3. EventOK(ev)'  BY <2>2, MessagesKept
  <2> QED BY <2>1, <2>3
<1>5. CASE OtherWrite
  <2>1. event' # None => EventOK(event)'  BY <1>3, <1>5 DEF OtherWrite
  <2>2. ASSUME other' = [at |-> "note", ev |-> FullEvent(room', None)] PROVE EventInv'
    <3>1. other'.ev.ops = << >>  BY <2>2 DEF FullEvent
    <3> QED BY <2>1, <3>1 DEF EventInv, EventOK
  <2>3. ASSUME NEW after \in Ids(room.doc) \cup {Root},
               Become(Written(1, room.doc \cup {Foreign(after)}), Counter),
               other' = [at |-> "note", ev |-> OpsEvent(room', OtherSite, <<Foreign(after)>>)]
        PROVE  EventInv'
    <3>1. PICK o : o = Foreign(after)  OBVIOUS
    <3>2. PICK w : w = Written(1, room.doc \cup {o})  OBVIOUS
    <3>3. o \in Item /\ o.id \notin Ids(room.doc) /\ o.after = after /\ room.doc \in Doc
      BY <1>0, <3>1, RebuiltType DEF TypeOK, RoomType, Foreign
    <3>4. Apply(room.doc, <<o>>) = [doc |-> room.doc \cup {o}, ok |-> TRUE]
      BY <3>3, ApplyOne
    <3>5. Idents(<<o>>) \subseteq Ids(room.doc \cup {o})  BY DEF Idents, Ids
    <3>6. room.doc \cup {o} \in Doc  BY <3>3, AddItem
    <3>7. Become(w, Counter)  BY <2>3, <3>1, <3>2
    <3>8. Made(w.gen, w.ver, <<o>>)'
      BY <1>0, <3>2, <3>4, <3>5, <3>6, <3>7, MadeByWriting
    <3>9. PICK ev : ev = OpsEvent(w, OtherSite, <<o>>)  OBVIOUS
    <3>10. ev.gen = w.gen /\ ev.ver = w.ver /\ ev.ops = <<o>> /\ ev.by \notin Client
      BY <3>9, SyncAssumption DEF OpsEvent, OtherSite
    <3>11. EventOK(ev)'  BY <3>8, <3>10 DEF EventOK, Sent
    <3>12. other'.ev = ev  BY <2>3, <3>1, <3>7, <3>9 DEF Become
    <3>13. EventOK(other.ev)'  BY <3>11, <3>12
    <3> QED BY <2>1, <3>13 DEF EventInv
  <2> QED BY <1>5, <2>2, <2>3 DEF OtherWrite
<1>6. CASE OtherTouch
  <2>1. other'.ev.ops = << >>  BY <1>6 DEF OtherTouch, FullEvent
  <2>2. event' # None => EventOK(event)'  BY <1>3, <1>6 DEF OtherTouch
  <2> QED BY <2>1, <2>2 DEF EventInv, EventOK
<1>7. CASE OtherLock \/ Expire
  BY <1>3, <1>4, <1>7 DEF OtherLock, Expire, EventInv
<1>8. CASE OtherNote
  <2>1. PICK ev : ev = event'  OBVIOUS
  <2>2. ev \in EventType /\ EventOK(ev)
    <3>1. other # None /\ other.at = "note" /\ ev = other.ev  BY <1>8, <2>1 DEF OtherNote
    <3> QED BY <1>0, <3>1 DEF EventInv, TypeOK
  <2>3. EventOK(ev)'  BY <2>2, MessagesKept
  <2>4. EventOK(event)'  BY <2>1, <2>3
  <2> QED BY <1>8, <2>4 DEF OtherNote, EventInv
<1>9. CASE OtherDelete
  <2>1. other'.at # "note"  BY <1>9 DEF OtherDelete
  <2>2. event' # None => EventOK(event)'  BY <1>3, <1>9 DEF OtherDelete
  <2> QED BY <2>1, <2>2 DEF EventInv
<1>10. CASE OtherForget  BY <1>10 DEF OtherForget, EventInv
<1> QED BY <1>5, <1>6, <1>7, <1>8, <1>9, <1>10 DEF Other

\* One of the goroutines of a session makes a step.
LEMMA MainStep ==
    ASSUME Advances, SessionInv, NEW c \in Client, session[c] # None, NEW m \in MainType,
           NEW s \in SessionType, s.main = m, s.read = session[c].read,
           session' = [session EXCEPT ![c] = s],
           m.at \in {"compose", "send"} => m.room \in past',
           m.at = "send" => DownOK(c, m.frame)'
    PROVE  SessionInv'
<1>1. PICK t : t = session[c]  OBVIOUS
<1>2. t \in SessionType /\ ReadOK(c, t)  BY <1>1 DEF SessionInv, Advances, TypeOK
<1>3. ReadOK(c, t)'  BY <1>2, GoroutinesKept
<1>4. ReadOK(c, s)'  BY <1>1, <1>3 DEF ReadOK
<1>5. MainOK(c, s)'  BY DEF MainOK
<1>6. \A d \in Client : SessionMoves(d)  BY <1>4, <1>5 DEF SessionMoves, Advances, TypeOK
<1> QED BY <1>6, SessionsMove

LEMMA ReadStep ==
    ASSUME Advances, SessionInv, NEW c \in Client, session[c] # None, NEW r \in ReadType,
           session' = [session EXCEPT ![c].read = r],
           r.at = "ack" => DownOK(c, r.frame)',
           r.at \in {"ack", "note"} => EventOK(r.ev)',
           r.at = "reject" => client'[c].seq > 0 /\ r.seq <= client'[c].seq,
           r.at = "reply" => r.room \in past'
    PROVE  SessionInv'
<1>1. PICK t : t = session[c]  OBVIOUS
<1>2. t \in SessionType /\ MainOK(c, t)  BY <1>1 DEF SessionInv, Advances, TypeOK
<1>3. MainOK(c, t)'  BY <1>2, GoroutinesKept
<1>4. PICK s : s = [t EXCEPT !.read = r]  OBVIOUS
<1>5. s \in SessionType /\ s.read = r /\ s.main = t.main  BY <1>2, <1>4 DEF SessionType
<1>6. MainOK(c, s)'  BY <1>3, <1>5 DEF MainOK
<1>7. ReadOK(c, s)'  BY <1>5 DEF ReadOK
<1>8. session' = [session EXCEPT ![c] = s]  BY <1>1, <1>4
<1>9. \A d \in Client : SessionMoves(d)
  BY <1>5, <1>6, <1>7, <1>8 DEF SessionMoves, Advances, TypeOK
<1> QED BY <1>9, SessionsMove

\* What is cached for the sessions stays what it should be.
LEMMA EventsKept ==
    ASSUME Advances, EventInv, UNCHANGED other,
           event' = event \/ event' = None \/ EventOK(event)'
    PROVE  EventInv'
<1>1. ASSUME event' # None PROVE EventOK(event)'
  <2>1. CASE event' = event
    <3>1. PICK ev : ev = event  OBVIOUS
    <3>2. ev \in EventType /\ EventOK(ev)
      BY <1>1, <2>1, <3>1 DEF EventInv, Advances, TypeOK
    <3>3. EventOK(ev)'  BY <3>2, MessagesKept
    <3> QED BY <2>1, <3>1, <3>3
  <2> QED BY <1>1, <2>1
<1>2. ASSUME other' # None, other'.at = "note" PROVE EventOK(other.ev)'
  <2>1. PICK ev : ev = other.ev  OBVIOUS
  <2>2. ev \in EventType /\ EventOK(ev)  BY <1>2, <2>1 DEF EventInv, Advances, TypeOK
  <2>3. EventOK(ev)'  BY <2>2, MessagesKept
  <2> QED BY <2>1, <2>3
<1> QED BY <1>1, <1>2 DEF EventInv

LEMMA MainKeepsMessages ==
    ASSUME Advances, PastInv, EventInv, WireInv, SessionInv, NEW c \in Client, MainLoop(c)
    PROVE  EventInv' /\ WireInv' /\ SessionInv'
<1>1. TypeOK /\ session[c] # None
  BY DEF MainLoop, MainPeek, MainCompose, MainSend, Main, Advances
<1>2. PICK s : s = session[c]  OBVIOUS
<1>3. s \in SessionType /\ MainOK(c, s) /\ s.main \in MainType
  BY <1>1, <1>2 DEF TypeOK, SessionInv, SessionType
<1>4. EventInv'
  <2>1. UNCHANGED other /\ (event' = event \/ event' = None)
    BY DEF MainLoop, MainPeek, MainCompose, MainSend
  <2> QED BY <2>1, EventsKept
<1>5. CASE MainPeek(c)
  <2>1. PICK m : m = [at |-> "compose", room |-> room]  OBVIOUS
  <2>2. m \in MainType /\ m.at = "compose" /\ m.room \in past'
    BY <1>1, <2>1 DEF MainType, TypeOK, PastInv, Advances
  <2>3. PICK t : t = [s EXCEPT !.main = m]  OBVIOUS
  <2>4. t \in SessionType /\ t.main = m /\ t.read = s.read
    BY <1>3, <2>2, <2>3 DEF SessionType
  <2>5. session' = [session EXCEPT ![c] = t]  BY <1>2, <1>5, <2>1, <2>3 DEF MainPeek
  <2>6. SessionInv'  BY <1>1, <1>2, <2>2, <2>4, <2>5, MainStep
  <2>7. WireInv'  BY <1>5, WireMoves DEF MainPeek, DownMoves, UpMoves
  <2> QED BY <1>4, <2>6, <2>7
<1>6. CASE MainCompose(c)
  <2>1. PICK r : r = s.main.room  OBVIOUS
  <2>2. r \in RoomType /\ r \in past
    BY <1>2, <1>3, <1>6, <2>1 DEF MainCompose, Main, MainType, MainOK
  <2>3. PICK frame : frame = IF Compact(s, r) THEN OpsFrame(r, event) ELSE StateFrame(r)
    OBVIOUS
  <2>4. frame \in StateType \cup OpsType /\ DownOK(c, frame)'
    <3>1. CASE Compact(s, r)
      <4>1. PICK ev : ev = event  OBVIOUS
      <4>2. ev \in EventType /\ EventOK(ev)
        BY <1>1, <3>1, <4>1 DEF Compact, EventInv, TypeOK
      <4>3. EventOK(ev)'  BY <4>2, MessagesKept
      <4>4. ev.ops # << >> /\ ev.gen = r.gen /\ ev.ver = r.ver  BY <3>1, <4>1 DEF Compact
      <4>5. frame = OpsFrame(r, ev)  BY <2>3, <3>1, <4>1
      <4>6. frame \in OpsType  BY <2>2, <4>2, <4>5, OpsFrameType
      <4>7. /\ frame.type = "ops" /\ frame.gen = ev.gen /\ frame.ver = ev.ver
            /\ frame.ops = ev.ops /\ frame.by = ev.by
        BY <4>4, <4>5 DEF OpsFrame
      <4> QED BY <4>3, <4>4, <4>6, <4>7 DEF DownOK, EventOK
    <3>2. CASE ~Compact(s, r)
      <4>1. frame = StateFrame(r)  BY <2>3, <3>2
      <4>2. frame \in StateType /\ frame.type = "state" /\ frame.room = r
        BY <2>2, <4>1 DEF StateFrame, StateType
      <4>3. frame.room \in past'  BY <2>2, <4>2 DEF Advances
      <4> QED BY <4>2, <4>3 DEF DownOK
    <3> QED BY <3>1, <3>2
  <2>5. PICK m : m = IF ~s.force /\ s.last = Pair(r) THEN Idle
                     ELSE [at |-> "send", room |-> r, frame |-> frame]
    OBVIOUS
  <2>6. m \in MainType /\ (m.at \in {"compose", "send"} => m.room \in past')
        /\ (m.at = "send" => m.frame = frame)
    BY <2>2, <2>4, <2>5 DEF MainType, Idle, Advances
  <2>7. PICK t : t = [s EXCEPT !.main = m]  OBVIOUS
  <2>8. t \in SessionType /\ t.main = m /\ t.read = s.read
    BY <1>3, <2>6, <2>7 DEF SessionType
  <2>9. session' = [session EXCEPT ![c] = t]
    BY <1>2, <1>6, <2>1, <2>3, <2>5, <2>7 DEF MainCompose
  <2>10. m.at = "send" => DownOK(c, m.frame)'  BY <2>4, <2>6
  <2>11. SessionInv'  BY <1>1, <1>2, <2>6, <2>8, <2>9, <2>10, MainStep
  <2>12. WireInv'  BY <1>6, WireMoves DEF MainCompose, DownMoves, UpMoves
  <2> QED BY <1>4, <2>11, <2>12
<1>7. CASE MainSend(c)
  <2>1. PICK frame : frame = s.main.frame  OBVIOUS
  <2>2. frame \in DownType /\ DownOK(c, frame)
    BY <1>2, <1>3, <1>7, <2>1 DEF MainSend, Main, MainType, MainOK, DownType
  <2>3. DownOK(c, frame)'  BY <2>2, MessagesKept
  <2>4. \A d \in Client : DownMoves(d)
    BY <1>1, <1>2, <1>7, <2>1, <2>2, <2>3 DEF MainSend, Queue, DownMoves, TypeOK
  <2>5. WireInv'  BY <1>7, <2>4, WireMoves DEF MainSend, UpMoves
  <2>6. PICK t : t = [s EXCEPT !.last = LastSent(c), !.main = Idle, !.force = FALSE]  OBVIOUS
  <2>7. session' = [session EXCEPT ![c] = t]  BY <1>2, <1>7, <2>6 DEF MainSend
  <2>8. t \in SessionType /\ t.main = Idle /\ t.read = s.read
    <3>1. t = session'[c] /\ session'[c] \in SessionType \cup {None}
      BY <2>7 DEF Advances, TypeOK
    <3>2. LastSent(c) \in [exists : BOOLEAN, gen : Int, ver : Int]
      <4>1. s.main.room \in RoomType  BY <1>2, <1>3, <1>7 DEF MainSend, Main, MainType
      <4> QED BY <1>2, <1>3, <4>1 DEF LastSent, Pair, SessionType, RoomType
    <3>3. Idle \in MainType  BY DEF Idle, MainType
    <3> QED BY <1>3, <2>6, <3>2, <3>3 DEF SessionType
  <2>9. Idle \in MainType /\ Idle.at = "idle"  BY DEF Idle, MainType
  <2>10. SessionInv'  BY <1>1, <1>2, <2>7, <2>8, <2>9, MainStep
  <2> QED BY <1>4, <2>5, <2>10
<1> QED BY <1>5, <1>6, <1>7 DEF MainLoop

\* A batch that has been applied may be acknowledged and announced.
LEMMA AppliedOK ==
    ASSUME Advances, PastInv, WireInv, NEW c \in Client, UNCHANGED client,
           NEW msg \in UpType, msg.type = "ops", UpOK(c, msg),
           NEW doc \in Doc, Idents(msg.ops) \subseteq Ids(doc),
           NEW bump \in {0, 1}, NEW w, w = Written(bump, doc), Become(w, Counter)
    PROVE  DownOK(c, Ack(msg.seq, w))'
<1>1. w \in past' /\ w.doc = doc  BY DEF Become, Written
<1>2. ASSUME NEW b \in client'[c].sent, b.seq = msg.seq PROVE Had(b.ids)'
  <2>1. b.ids \subseteq Idents(msg.ops)  BY <1>2 DEF UpOK
  <2> QED BY <1>1, <2>1 DEF Had
<1>3. PICK m : m = Ack(msg.seq, w)  OBVIOUS
<1>4. m.type = "ack" /\ m.seq = msg.seq  BY <1>3 DEF Ack
<1>5. client'[c].seq > 0 /\ msg.seq <= client'[c].seq  BY DEF UpOK
<1>6. Confirmed(c, m.seq)'  BY <1>2, <1>4 DEF Confirmed
<1>7. DownOK(c, m)'  BY <1>4, <1>5, <1>6 DEF DownOK
<1> QED BY <1>3, <1>7

LEMMA ReadOpsKeepsMessages ==
    ASSUME Advances, PastInv, EventInv, WireInv, SessionInv, NEW c \in Client, ReadOps(c)
    PROVE  EventInv' /\ WireInv' /\ SessionInv'
<1>1. TypeOK /\ session[c] # None  BY DEF ReadOps, Reading, Read, Advances
<1>2. EventInv'  BY EventsKept DEF ReadOps
<1>3. WireInv'
  <2>1. \A d \in Client : UpMoves(d) /\ DownMoves(d)
    BY <1>1 DEF ReadOps, Reading, UpMoves, DownMoves, TypeOK
  <2> QED BY <2>1, WireMoves
<1>4. PICK msg : msg = Head(up[c])  OBVIOUS
<1>5. /\ msg \in UpType /\ msg.type = "ops" /\ UpOK(c, msg)
      /\ msg.ops \in Seq(Item) /\ msg.seq \in Nat
  <2>1. up[c] \in Seq(UpType) /\ up[c] # << >>  BY <1>1 DEF TypeOK, ReadOps, Reading
  <2>2. msg = up[c][1] /\ 1 \in DOMAIN up[c] /\ msg \in UpType  BY <1>4, <2>1, TailIs
  <2>3. UpOK(c, msg)  BY <2>2 DEF WireInv
  <2> QED BY <1>1, <1>4, <2>2, <2>3, ReadOpsIs
<1>6. PICK doc : doc = Apply(room.doc, msg.ops).doc  OBVIOUS
<1>7. PICK ok : ok = Apply(room.doc, msg.ops).ok  OBVIOUS
<1>8. /\ room.doc \in Doc /\ doc \in Doc /\ ok \in BOOLEAN
      /\ Apply(room.doc, msg.ops) = [doc |-> doc, ok |-> ok]
      /\ ok => Idents(msg.ops) \subseteq Ids(doc)
  <2>1. room.doc \in Doc  BY <1>1 DEF TypeOK, RoomType
  <2>2. ok => Idents(msg.ops) \subseteq Ids(doc)  BY <1>5, <1>6, <1>7, <2>1, ApplyHas
  <2> QED BY <1>5, <1>6, <1>7, <2>1, <2>2, ApplyType
<1>9. UNCHANGED client  BY DEF ReadOps
<1>10. ASSUME NEW bump \in {0, 1}, NEW w, w = Written(bump, doc), NEW ev \in EventType,
              Become(w, Counter), Idents(msg.ops) \subseteq Ids(doc), EventOK(ev)',
              session' = [session EXCEPT ![c].read =
                            [at |-> "ack", frame |-> Ack(msg.seq, w), ev |-> ev]]
       PROVE  SessionInv'
  <2>1. DownOK(c, Ack(msg.seq, w))'  BY <1>5, <1>8, <1>9, <1>10, AppliedOK
  <2>2. w \in RoomType  BY <1>1, <1>8, <1>10, WrittenType
  <2>3. PICK r : r = [at |-> "ack", frame |-> Ack(msg.seq, w), ev |-> ev]  OBVIOUS
  <2>4. r \in ReadType /\ r.at = "ack" /\ r.frame = Ack(msg.seq, w) /\ r.ev = ev
    BY <1>5, <2>2, <2>3, MessageTypes DEF ReadType, By
  <2>5. DownOK(c, r.frame)' /\ EventOK(r.ev)'  BY <1>10, <2>1, <2>4
  <2>6. session' = [session EXCEPT ![c].read = r]  BY <1>10, <2>3
  <2> QED BY <1>1, <2>4, <2>5, <2>6, ReadStep
<1>11. ASSUME NEW bump \in {0, 1}
       PROVE  Written(bump, doc) \in RoomType /\ FullEvent(Written(bump, doc), c) \in EventType
  <2>1. Written(bump, doc) \in RoomType  BY <1>1, <1>8, WrittenType
  <2>2. c \in By  BY DEF By
  <2> QED BY <1>5, <2>1, <2>2, MessageTypes
<1> SUFFICES SessionInv'
  BY <1>2, <1>3
<1>12. CASE ok /\ Become(Written(1, doc), Counter)
            /\ session' = [session EXCEPT ![c].read =
                  [at |-> "ack", frame |-> Ack(msg.seq, Written(1, doc)),
                   ev |-> OpsEvent(Written(1, doc), c, msg.ops)]]
  <2>1. PICK w : w = Written(1, doc)  OBVIOUS
  <2>2. PICK ev : ev = OpsEvent(w, c, msg.ops)  OBVIOUS
  <2>3. Made(w.gen, w.ver, msg.ops)'
    BY <1>1, <1>8, <1>12, <2>1, MadeByWriting
  <2>4. ev \in EventType /\ ev.gen = w.gen /\ ev.ver = w.ver /\ ev.ops = msg.ops /\ ev.by = c
    BY <1>5, <1>11, <2>1, <2>2, MessageTypes DEF By, OpsEvent
  <2>5. Sent(c)'  BY <1>5, <1>9 DEF UpOK, Sent
  <2>6. EventOK(ev)'  BY <2>3, <2>4, <2>5 DEF EventOK
  <2> QED BY <1>8, <1>10, <1>12, <2>1, <2>2, <2>4, <2>6
<1>13. ASSUME NEW bump \in {0, 1}, Become(Written(bump, doc), Counter),
              Idents(msg.ops) \subseteq Ids(doc),
              session' = [session EXCEPT ![c].read =
                  [at |-> "ack", frame |-> Ack(msg.seq, Written(bump, doc)),
                   ev |-> FullEvent(Written(bump, doc), c)]]
       PROVE  SessionInv'
  <2>1. PICK w : w = Written(bump, doc)  OBVIOUS
  <2>2. PICK ev : ev = FullEvent(w, c)  OBVIOUS
  <2>3. EventOK(ev)' /\ ev \in EventType  BY <1>11, <2>1, <2>2, FullEventOK
  <2> QED BY <1>10, <1>13, <2>1, <2>2, <2>3
<1>14. CASE session' = [session EXCEPT ![c].read = [at |-> "reject", seq |-> msg.seq]]
  <2>1. PICK r : r = [at |-> "reject", seq |-> msg.seq]  OBVIOUS
  <2>2. r \in ReadType /\ r.at = "reject" /\ r.seq = msg.seq  BY <1>5, <2>1 DEF ReadType
  <2>3. client'[c].seq > 0 /\ msg.seq <= client'[c].seq  BY <1>5, <1>9 DEF UpOK
  <2>4. session' = [session EXCEPT ![c].read = r]  BY <1>14, <2>1
  <2> QED BY <1>1, <2>2, <2>3, <2>4, ReadStep
<1>15. SessionInv'
  <2>1. msg.ops = << >> => Idents(msg.ops) \subseteq Ids(doc)  BY DEF Idents
  <2>2. \/ ok /\ Become(Written(1, doc), Counter)
           /\ session' = [session EXCEPT ![c].read =
                  [at |-> "ack", frame |-> Ack(msg.seq, Written(1, doc)),
                   ev |-> OpsEvent(Written(1, doc), c, msg.ops)]]
        \/ (ok \/ msg.ops = << >>)
           /\ \E bump \in {0, 1} :
                /\ Become(Written(bump, doc), Counter)
                /\ session' = [session EXCEPT ![c].read =
                     [at |-> "ack", frame |-> Ack(msg.seq, Written(bump, doc)),
                      ev |-> FullEvent(Written(bump, doc), c)]]
        \/ session' = [session EXCEPT ![c].read = [at |-> "reject", seq |-> msg.seq]]
    BY <1>1, <1>4, <1>6, <1>7, ReadOpsIs
  <2> QED BY <1>8, <1>12, <1>13, <1>14, <2>1, <2>2
<1> QED BY <1>15

LEMMA ReadKeepsMessages ==
    ASSUME Advances, PastInv, EventInv, WireInv, SessionInv, NEW c \in Client, ReadLoop(c)
    PROVE  EventInv' /\ WireInv' /\ SessionInv'
<1>1. TypeOK /\ session[c] # None
  BY DEF ReadLoop, ReadOps, ReadAck, ReadNote, ReadReject, ReadSync, ReadPeek, ReadReply,
         Reading, Read, Advances
<1>2. PICK s : s = session[c]  OBVIOUS
<1>3. s \in SessionType /\ ReadOK(c, s) /\ s.read \in ReadType
  BY <1>1, <1>2 DEF TypeOK, SessionInv, SessionType
<1>4. ReadOK(c, s)'  BY <1>3, GoroutinesKept
<1>5. ASSUME NEW m \in DownType, DownOK(c, m)', Queue(c, m), UNCHANGED up PROVE WireInv'
  <2>1. \A d \in Client : DownMoves(d) /\ UpMoves(d)
    BY <1>1, <1>5 DEF Queue, DownMoves, UpMoves, TypeOK
  <2> QED BY <2>1, WireMoves
<1>6. ASSUME UNCHANGED <<up, down>> PROVE WireInv'
  BY <1>6, WireMoves DEF DownMoves, UpMoves
<1>7. CASE ReadOps(c)  BY <1>7, ReadOpsKeepsMessages
<1>8. CASE ReadAck(c)
  <2>1. s.read.at = "ack"  BY <1>2, <1>8 DEF ReadAck, Read
  <2>2. s.read.frame \in DownType /\ s.read.ev \in EventType
    BY <1>3, <2>1 DEF ReadType, DownType
  <2>3. DownOK(c, s.read.frame)' /\ EventOK(s.read.ev)'  BY <1>4, <2>1 DEF ReadOK
  <2>4. WireInv'  BY <1>2, <1>5, <1>8, <2>2, <2>3 DEF ReadAck
  <2>5. PICK r : r = [at |-> "note", ev |-> s.read.ev]  OBVIOUS
  <2>6. r \in ReadType /\ r.at = "note" /\ r.ev = s.read.ev  BY <2>2, <2>5 DEF ReadType
  <2>7. session' = [session EXCEPT ![c].read = r]
    BY <1>1, <1>2, <1>3, <1>8, <2>5 DEF ReadAck, TypeOK, SessionType
  <2>8. EventOK(r.ev)'  BY <2>3, <2>6
  <2>9. SessionInv'  BY <1>1, <2>6, <2>7, <2>8, ReadStep
  <2> QED BY <1>8, <2>4, <2>9, EventsKept DEF ReadAck
<1>9. CASE ReadNote(c)
  <2>1. PICK ev : ev = s.read.ev  OBVIOUS
  <2>2. EventOK(ev)'  BY <1>2, <1>4, <1>9, <2>1 DEF ReadNote, Read, ReadOK
  <2>3. event' = ev  BY <1>2, <1>9, <2>1 DEF ReadNote
  <2>4. EventOK(event)'  BY <2>2, <2>3
  <2>5. EventInv'  BY <1>9, <2>4, EventsKept DEF ReadNote
  <2>6. Idle \in ReadType /\ Idle.at = "idle"  BY DEF Idle, ReadType
  <2>7. SessionInv'  BY <1>1, <1>9, <2>6, ReadStep DEF ReadNote
  <2> QED BY <1>6, <1>9, <2>5, <2>7 DEF ReadNote
<1>10. CASE ReadReject(c)
  <2>1. s.read.at = "reject" /\ s.read.seq \in Nat
    BY <1>2, <1>3, <1>10 DEF ReadReject, Read, ReadType
  <2>2. PICK m : m = ErrorAck(s.read.seq)  OBVIOUS
  <2>3. m \in DownType /\ m.type = "ack" /\ ~m.ok /\ m.seq = s.read.seq
    BY <2>1, <2>2 DEF ErrorAck, AckType, DownType
  <2>4. client'[c].seq > 0 /\ m.seq <= client'[c].seq  BY <1>4, <2>1, <2>3 DEF ReadOK
  <2>5. DownOK(c, m)'  BY <2>3, <2>4 DEF DownOK
  <2>6. WireInv'  BY <1>2, <1>5, <1>10, <2>2, <2>3, <2>5 DEF ReadReject
  <2>7. [at |-> "peek"] \in ReadType  BY DEF ReadType
  <2>8. SessionInv'  BY <1>1, <1>10, <2>7, ReadStep DEF ReadReject
  <2> QED BY <1>10, <2>6, <2>8, EventsKept DEF ReadReject
<1>11. CASE ReadSync(c)
  <2>1. \A d \in Client : DownMoves(d) /\ UpMoves(d)
    BY <1>1, <1>11 DEF ReadSync, Reading, DownMoves, UpMoves, TypeOK
  <2>2. WireInv'  BY <2>1, WireMoves
  <2>3. [at |-> "peek"] \in ReadType  BY DEF ReadType
  <2>4. SessionInv'  BY <1>1, <1>11, <2>3, ReadStep DEF ReadSync
  <2> QED BY <1>11, <2>2, <2>4, EventsKept DEF ReadSync
<1>12. CASE ReadPeek(c)
  <2>1. PICK r : r = [at |-> "reply", room |-> room]  OBVIOUS
  <2>2. r \in ReadType /\ r.at = "reply" /\ r.room \in past'
    BY <1>1, <2>1 DEF ReadType, TypeOK, PastInv, Advances
  <2>3. session' = [session EXCEPT ![c].read = r]  BY <1>12, <2>1 DEF ReadPeek
  <2>4. SessionInv'  BY <1>1, <2>2, <2>3, ReadStep
  <2> QED BY <1>6, <1>12, <2>4, EventsKept DEF ReadPeek
<1>13. CASE ReadReply(c)
  <2>1. PICK r : r = s.read.room  OBVIOUS
  <2>2. r \in RoomType /\ r \in past'
    BY <1>2, <1>3, <1>4, <1>13, <2>1 DEF ReadReply, Read, ReadType, ReadOK
  <2>3. PICK m : m = StateFrame(r)  OBVIOUS
  <2>4. m \in DownType /\ m.type = "state" /\ m.room = r
    BY <2>2, <2>3 DEF StateFrame, StateType, DownType
  <2>5. DownOK(c, m)'  BY <2>2, <2>4 DEF DownOK
  <2>6. WireInv'  BY <1>2, <1>5, <1>13, <2>1, <2>3, <2>4, <2>5 DEF ReadReply
  <2>7. Idle \in ReadType /\ Idle.at = "idle"  BY DEF Idle, ReadType
  <2>8. SessionInv'  BY <1>1, <1>13, <2>7, ReadStep DEF ReadReply
  <2> QED BY <1>13, <2>6, <2>8, EventsKept DEF ReadReply
<1> QED BY <1>7, <1>8, <1>9, <1>10, <1>11, <1>12, <1>13 DEF ReadLoop

\* What flushPending sends holds all that is in flight with its number.
LEMMA FlushedOK ==
    ASSUME Advances, WireInv, NEW c \in Client, Flush(c)
    PROVE  \A d \in Client : UpMoves(d) /\ DownMoves(d)
<1>1. PICK cl : cl = client[c]  OBVIOUS
<1>2. PICK batch : batch = Without(cl.pending, Outstanding(cl))  OBVIOUS
<1>3. cl \in ClientType /\ cl.seq \in Nat /\ batch \in Seq(Item)
  BY <1>1, <1>2, BatchType DEF Advances, TypeOK, ClientType
<1>4. PICK m : m = [type |-> "ops", ops |-> batch, seq |-> cl.seq + 1]  OBVIOUS
<1>5. m \in UpType /\ m.type = "ops" /\ m.ops = batch /\ m.seq = cl.seq + 1
  BY <1>3, <1>4 DEF UpType
<1>6. /\ up' = [up EXCEPT ![c] = Append(@, m)]
      /\ Update(c, [cl EXCEPT !.seq = @ + 1,
                              !.sent = IF batch = << >> THEN @
                                       ELSE @ \cup {[seq |-> cl.seq + 1, ids |-> Idents(batch)]}])
      /\ UNCHANGED down
  BY <1>1, <1>2, <1>4 DEF Flush, Idents
<1>7. /\ client'[c].seq = cl.seq + 1
      /\ \A b \in client'[c].sent :
             b \in cl.sent \/ b = [seq |-> cl.seq + 1, ids |-> Idents(batch)]
  BY <1>3, <1>6 DEF Update, Advances, TypeOK, ClientType
<1>8. \A b \in cl.sent : b.seq \in Nat /\ b.seq <= cl.seq
  BY <1>1, <1>3 DEF WireInv, ClientType
<1>9. UpOK(c, m)'
  <2>1. client'[c].seq > 0 /\ m.seq <= client'[c].seq  BY <1>3, <1>5, <1>7
  <2>2. ASSUME NEW b \in client'[c].sent, b.seq = m.seq PROVE b.ids \subseteq Idents(m.ops)
    <3>1. b \notin cl.sent  BY <1>3, <1>5, <1>8, <2>2
    <3> QED BY <1>5, <1>7, <3>1
  <2> QED BY <2>1, <2>2 DEF UpOK
<1> QED BY <1>5, <1>6, <1>9 DEF UpMoves, DownMoves, Advances, TypeOK

LEMMA SyncRequestOK ==
    ASSUME Advances, NEW c \in Client, NEW cl, RequestSync(c, cl)
    PROVE  \A d \in Client : UpMoves(d)
<1>1. PICK m : m = [type |-> "sync"]  OBVIOUS
<1>2. m \in UpType /\ m.type # "ops"  BY <1>1 DEF UpType
<1>3. UpOK(c, m)'  BY <1>2 DEF UpOK
<1>4. up' = up \/ up' = [up EXCEPT ![c] = Append(@, m)]  BY <1>1 DEF RequestSync
<1> QED BY <1>2, <1>3, <1>4 DEF UpMoves, Advances, TypeOK

LEMMA ClientKeepsMessages ==
    ASSUME Advances, EventInv, WireInv, SessionInv, NEW c \in Client,
           Type(c) \/ Flush(c) \/ AskAgain(c) \/ Receive(c)
    PROVE  EventInv' /\ WireInv' /\ SessionInv'
<1>1. UNCHANGED <<event, other, session>>
  BY DEF Type, Flush, AskAgain, Receive, ReceiveState, ReceiveOps, ReceiveAck
<1>2. EventInv' /\ SessionInv'
  BY <1>1, EventsKept, SessionsMove DEF SessionMoves
<1> SUFFICES \A d \in Client : DownMoves(d) /\ UpMoves(d)
  BY <1>2, WireMoves
<1>3. CASE Type(c) \/ AskAgain(c)  BY <1>3 DEF Type, AskAgain, DownMoves, UpMoves
<1>4. CASE Flush(c)  BY <1>4, FlushedOK
<1>5. CASE Receive(c)
  <2>1. \A d \in Client : DownMoves(d)
    BY <1>5 DEF Receive, ReceiveState, ReceiveOps, ReceiveAck, Receiving, Received, DownMoves,
                Advances, TypeOK
  <2>2. CASE ReceiveState(c) \/ ReceiveAck(c)
    BY <2>1, <2>2 DEF ReceiveState, ReceiveAck, UpMoves
  <2>3. CASE ReceiveOps(c)
    <3>1. UNCHANGED up \/ \E cl : RequestSync(c, cl)  BY <2>3 DEF ReceiveOps
    <3>2. CASE UNCHANGED up  BY <2>1, <3>2 DEF UpMoves
    <3>3. CASE \E cl : RequestSync(c, cl)  BY <2>1, <3>3, SyncRequestOK
    <3> QED BY <3>1, <3>2, <3>3
  <2> QED BY <1>5, <2>2, <2>3 DEF Receive
<1> QED BY <1>3, <1>4, <1>5

LEMMA ConnectionKeepsMessages ==
    ASSUME Advances, EventInv, WireInv, SessionInv,
           Restart \/ \E c \in Client : Connect(c) \/ Disconnect(c)
    PROVE  EventInv' /\ WireInv' /\ SessionInv'
<1>1. ASSUME NEW cs \in SUBSET Client, Dropped(cs) PROVE WireInv'
  <2>1. \A d \in Client : DownMoves(d) /\ UpMoves(d)
    BY <1>1 DEF Dropped, DownMoves, UpMoves
  <2> QED BY <2>1, WireMoves
<1>2. ASSUME NEW c \in Client, Connect(c) PROVE EventInv' /\ WireInv' /\ SessionInv'
  <2>1. WireInv'  BY <1>2, WireMoves DEF Connect, DownMoves, UpMoves
  <2>2. PICK s : s = NewSession  OBVIOUS
  <2>3. s.main.at = "idle" /\ s.read.at = "idle"  BY <2>2 DEF NewSession, Idle
  <2>4. MainOK(c, s)' /\ ReadOK(c, s)'  BY <2>3 DEF MainOK, ReadOK
  <2>5. session' = [session EXCEPT ![c] = s]  BY <1>2, <2>2 DEF Connect
  <2>6. \A d \in Client : SessionMoves(d)
    BY <2>4, <2>5 DEF SessionMoves, Advances, TypeOK
  <2>7. SessionInv'  BY <2>6, SessionsMove
  <2> QED BY <1>2, <2>1, <2>7, EventsKept DEF Connect
<1>3. ASSUME NEW c \in Client, Disconnect(c) PROVE EventInv' /\ WireInv' /\ SessionInv'
  <2>1. \A d \in Client : SessionMoves(d)
    BY <1>3 DEF Disconnect, SessionMoves, Advances, TypeOK
  <2>2. SessionInv'  BY <2>1, SessionsMove
  <2> QED BY <1>1, <1>3, <2>2, EventsKept DEF Disconnect
<1>4. CASE Restart
  <2>1. SessionInv'  BY <1>4 DEF Restart, SessionInv
  <2>2. EventInv'  BY <1>4 DEF Restart, EventInv
  <2> QED BY <1>1, <1>4, <2>1, <2>2 DEF Restart
<1> QED BY <1>2, <1>3, <1>4

LEMMA StutterKeepsMessages ==
    ASSUME Advances, EventInv, WireInv, SessionInv, UNCHANGED vars
    PROVE  EventInv' /\ WireInv' /\ SessionInv'
BY EventsKept, WireMoves, SessionsMove DEF vars, DownMoves, UpMoves, SessionMoves

-----------------------------------------------------------------------------
(* Who watches shows the version it knows *)

LEMMA ForkedKept ==
    ASSUME past \subseteq past'
    PROVE  \A gen : Forked(gen) => Forked(gen)'
BY DEF Forked

\* A client whose document and whose version stay as they are.
LEMMA SameAgrees ==
    ASSUME Advances, NEW c \in Client, Agrees(c),
           client'[c].doc = client[c].doc, client'[c].known = client[c].known,
           Silent(c)' => Silent(c)
    PROVE  Agrees(c)'
<1> SUFFICES ASSUME Silent(c)' PROVE ShowsItsVersion(c)' \/ Forked(client[c].known.gen)'
  BY DEF Agrees
<1>1. PICK gen : gen = client[c].known.gen  OBVIOUS
<1>2. ShowsItsVersion(c) \/ Forked(gen)  BY <1>1 DEF Agrees
<1>3. past \subseteq past'  BY DEF Advances
<1>4. CASE ShowsItsVersion(c)  BY <1>3, <1>4 DEF ShowsItsVersion
<1>5. CASE Forked(gen)
  <2>1. Forked(gen)'  BY <1>3, <1>5, ForkedKept
  <2>2. gen = client'[c].known.gen  BY <1>1
  <2> QED BY <2>1, <2>2
<1> QED BY <1>2, <1>4, <1>5

\* Who has sent something or has something to send is not asked.
LEMMA BusyAgrees ==
    ASSUME NEW c \in Client, client'[c].seq > 0 \/ client'[c].pending # << >>, TypeOK'
    PROVE  Agrees(c)'
<1>1. client'[c].seq \in Nat  BY DEF TypeOK, ClientType
<1> QED BY <1>1 DEF Agrees, Silent

LEMMA ReceiveStateAgrees ==
    ASSUME Advances, PastInv, WireInv, AgreeInv, NEW c \in Client, ReceiveState(c)
    PROVE  Agrees(c)'
<1>1. TypeOK /\ down[c] # << >> /\ down[c] \in Seq(DownType)
  BY DEF Advances, TypeOK, ReceiveState, Receiving
<1>2. PICK m : m = Head(down[c])  OBVIOUS
<1>3. PICK r : r = m.room  OBVIOUS
<1>4. r \in RoomType /\ r \in past /\ past \subseteq past'
  <2>1. m = down[c][1] /\ 1 \in DOMAIN down[c] /\ m.type = "state"
    BY <1>1, <1>2, TailIs DEF ReceiveState, Receiving
  <2>2. DownOK(c, m)  BY <2>1 DEF WireInv
  <2> QED BY <1>1, <1>2, <1>3, <2>1, <2>2, HeadDown DEF DownOK, Advances
<1>5. client' = [client EXCEPT ![c] = client[c]] \/ client' = [client EXCEPT ![c] = Adopted(c, r)]
  BY <1>2, <1>3 DEF ReceiveState, Update
<1>6. CASE client' = [client EXCEPT ![c] = client[c]]
  <2>1. client'[c] = client[c]  BY <1>1, <1>6 DEF TypeOK
  <2> QED BY <2>1, SameAgrees DEF AgreeInv, Silent
<1>7. CASE client' = [client EXCEPT ![c] = Adopted(c, r)]
  <2>1. client'[c] = Adopted(c, r)  BY <1>1, <1>7 DEF TypeOK
  <2>2. /\ Adopted(c, r).known = [exists |-> r.exists, ver |-> r.ver,
                    gen |-> IF r.exists THEN r.gen ELSE client[c].known.gen]
        /\ Adopted(c, r).pending = << >> => Adopted(c, r).doc = r.doc
    BY <1>1, <1>4, AdoptedIs
  <2> SUFFICES ASSUME client'[c].doc = r.doc PROVE ShowsItsVersion(c)'
    BY <2>1, <2>2 DEF Agrees, Silent
  <2>3. CASE r.exists
    <3>1. r = [exists |-> TRUE, gen |-> r.gen, ver |-> r.ver, doc |-> r.doc]
      BY <1>4, <2>3 DEF RoomType
    <3>2. PICK k : k = client'[c].known  OBVIOUS
    <3>3. k.exists /\ k.gen = r.gen /\ k.ver = r.ver  BY <2>1, <2>2, <2>3, <3>2
    <3>4. [exists |-> TRUE, gen |-> k.gen, ver |-> k.ver, doc |-> client'[c].doc] \in past'
      BY <1>4, <3>1, <3>3
    <3> QED BY <3>2, <3>3, <3>4 DEF ShowsItsVersion
  <2>4. CASE ~r.exists
    <3>1. r = Absent  BY <1>4, <2>4 DEF PastInv
    <3> QED BY <2>1, <2>2, <2>4, <3>1 DEF ShowsItsVersion, Absent
  <2> QED BY <2>3, <2>4
<1> QED BY <1>5, <1>6, <1>7

\* The operations that made a version, applied to what a client shows of the
\* version before: they fit and give the new one, or that version has forked.
LEMMA NextVersion ==
    ASSUME TypeOK, PastInv, NEW c \in Client, NEW ops, NEW gen, NEW ver,
           Made(gen, ver, ops), Agrees(c), Silent(c), client[c].known.exists,
           gen = client[c].known.gen, ver = client[c].known.ver + 1
    PROVE  \/ Forked(gen)
           \/ /\ Apply(client[c].doc, ops).ok
              /\ [exists |-> TRUE, gen |-> gen, ver |-> ver,
                  doc |-> Apply(client[c].doc, ops).doc] \in past
<1> SUFFICES ASSUME ~Forked(gen)
             PROVE  /\ Apply(client[c].doc, ops).ok
                    /\ [exists |-> TRUE, gen |-> gen, ver |-> ver,
                        doc |-> Apply(client[c].doc, ops).doc] \in past
  OBVIOUS
<1>1. PICK p \in past : /\ p.exists /\ p.gen = gen /\ p.ver = client[c].known.ver
                        /\ p.doc = client[c].doc
  BY DEF Agrees, ShowsItsVersion
<1>2. p.ver > 0 /\ p.ver \in Nat  BY <1>1 DEF PastInv, TypeOK, RoomType, Absent
<1>3. ver # 1 /\ ver = p.ver + 1  BY <1>1, <1>2
<1>4. PICK r \in past : /\ r.exists /\ r.gen = gen /\ r.ver = ver
                        /\ \E q \in past : /\ q.exists /\ q.gen = gen /\ q.ver + 1 = ver
                                           /\ Apply(q.doc, ops) = [doc |-> r.doc, ok |-> TRUE]
  BY <1>3 DEF Made
<1>5. PICK q \in past : /\ q.exists /\ q.gen = gen /\ q.ver + 1 = ver
                        /\ Apply(q.doc, ops) = [doc |-> r.doc, ok |-> TRUE]
  BY <1>4
<1>6. q.ver = p.ver
  <2>1. q.ver \in Nat  BY DEF TypeOK, RoomType
  <2> QED BY <1>2, <1>3, <1>5, <2>1
<1>7. q.doc = client[c].doc  BY <1>1, <1>5, <1>6 DEF Forked
<1>8. Apply(client[c].doc, ops) = [doc |-> r.doc, ok |-> TRUE]  BY <1>5, <1>7
<1>9. r = [exists |-> TRUE, gen |-> gen, ver |-> ver, doc |-> r.doc]
  <2>1. r \in RoomType  BY DEF TypeOK
  <2> QED BY <1>4, <2>1 DEF RoomType
<1>10. Apply(client[c].doc, ops).ok /\ Apply(client[c].doc, ops).doc = r.doc  BY <1>8
<1> QED BY <1>9, <1>10

LEMMA ReceiveOpsAgrees ==
    ASSUME Advances, PastInv, WireInv, AgreeInv, NEW c \in Client, ReceiveOps(c)
    PROVE  Agrees(c)'
<1>1. TypeOK /\ TypeOK' /\ down[c] # << >> /\ down[c] \in Seq(DownType) /\ past \subseteq past'
  BY DEF Advances, TypeOK, ReceiveOps, Receiving
<1>2. PICK f : f = Head(down[c])  OBVIOUS
<1>3. f \in OpsType /\ Made(f.gen, f.ver, f.ops) /\ Sent(f.by)
  <2>1. f = down[c][1] /\ 1 \in DOMAIN down[c] /\ f.type = "ops"
    BY <1>1, <1>2, TailIs DEF ReceiveOps, Receiving
  <2>2. DownOK(c, f)  BY <2>1 DEF WireInv
  <2> QED BY <1>1, <1>2, <2>1, <2>2, HeadDown DEF DownOK
<1>4. PICK cl : cl = client[c]  OBVIOUS
<1>5. cl \in ClientType /\ Agrees(c)  BY <1>1, <1>4 DEF TypeOK, AgreeInv
<1>6. PICK res : res = Apply(cl.doc, f.ops)  OBVIOUS
<1>7. PICK known : known = [exists |-> TRUE, gen |-> f.gen, ver |-> f.ver]  OBVIOUS
<1>8. CASE UNCHANGED client  BY <1>5, <1>8, SameAgrees DEF Silent
<1>9. CASE RequestSync(c, cl)
  <2>1. /\ client'[c].doc = cl.doc /\ client'[c].known = cl.known
        /\ client'[c].pending = cl.pending /\ client'[c].seq = cl.seq
    BY <1>1, <1>5, <1>9 DEF RequestSync, Update, TypeOK, ClientType
  <2> QED BY <1>4, <1>5, <2>1, SameAgrees DEF Silent
<1>10. CASE f.by = c
  <2>1. cl.seq > 0  BY <1>3, <1>4, <1>10 DEF Sent
  <2>2. cl.seq \in Nat /\ client'[c].seq \in Nat /\ client'[c].seq >= cl.seq
    BY <1>1, <1>4, <1>5 DEF ClientType, TypeOK, Advances, Proceeds
  <2>3. client'[c].seq > 0  BY <2>1, <2>2
  <2> QED BY <1>1, <2>3, BusyAgrees
<1>11. ASSUME f.by # c, f.gen = cl.known.gen, cl.known.exists, f.ver = cl.known.ver + 1,
              \/ res.ok /\ Update(c, [cl EXCEPT !.doc = res.doc, !.known = known])
              \/ ~res.ok /\ RequestSync(c, [cl EXCEPT !.doc = res.doc])
       PROVE  Agrees(c)'
  <2>0. PICK next : client' = [client EXCEPT ![c] = next]
                    /\ \/ res.ok /\ next = [cl EXCEPT !.doc = res.doc, !.known = known]
                       \/ ~res.ok /\ next = [[cl EXCEPT !.doc = res.doc] EXCEPT !.asked = TRUE]
    BY <1>11 DEF RequestSync, Update
  <2>1. /\ client'[c].pending = cl.pending /\ client'[c].seq = cl.seq
        /\ client'[c].known.gen = f.gen
    <3>1. next.pending = cl.pending /\ next.seq = cl.seq /\ next.known.gen = f.gen
      <4>1. CASE next = [cl EXCEPT !.doc = res.doc, !.known = known]
        <5>1. next.pending = cl.pending /\ next.seq = cl.seq /\ next.known = known
          BY <1>5, <4>1 DEF ClientType
        <5>2. known.gen = f.gen  BY <1>7
        <5> QED BY <5>1, <5>2
      <4>2. CASE next = [[cl EXCEPT !.doc = res.doc] EXCEPT !.asked = TRUE]
        BY <1>5, <1>11, <4>2 DEF ClientType
      <4> QED BY <2>0, <4>1, <4>2
    <3>2. client'[c] = next  BY <1>1, <2>0 DEF TypeOK
    <3> QED BY <3>1, <3>2
  <2> SUFFICES ASSUME Silent(c), ~Forked(f.gen)'
               PROVE  ShowsItsVersion(c)'
    BY <1>4, <2>1 DEF Agrees, Silent
  <2>2. ~Forked(f.gen)  BY <1>1, ForkedKept
  <2>3. /\ res.ok
        /\ [exists |-> TRUE, gen |-> f.gen, ver |-> f.ver, doc |-> res.doc] \in past
    BY <1>1, <1>3, <1>4, <1>5, <1>6, <1>11, <2>2, NextVersion
  <2>4. client'[c].doc = res.doc /\ client'[c].known = known
    <3>1. client'[c] = next /\ next = [cl EXCEPT !.doc = res.doc, !.known = known]
      BY <1>1, <2>0, <2>3 DEF TypeOK
    <3> QED BY <1>5, <3>1 DEF ClientType
  <2>5. known.exists /\ known.gen = f.gen /\ known.ver = f.ver  BY <1>7
  <2> QED BY <1>1, <2>3, <2>4, <2>5 DEF ShowsItsVersion
<1>12. \/ UNCHANGED client
       \/ RequestSync(c, cl)
       \/ f.by = c
       \/ /\ f.by # c /\ f.gen = cl.known.gen /\ cl.known.exists /\ f.ver = cl.known.ver + 1
          /\ \/ res.ok /\ Update(c, [cl EXCEPT !.doc = res.doc, !.known = known])
             \/ ~res.ok /\ RequestSync(c, [cl EXCEPT !.doc = res.doc])
  BY <1>2, <1>4, <1>6, <1>7 DEF ReceiveOps
<1> QED BY <1>8, <1>9, <1>10, <1>11, <1>12

\* An acknowledgement answers something that was sent.
LEMMA ReceiveAckAgrees ==
    ASSUME Advances, WireInv, NEW c \in Client, ReceiveAck(c)
    PROVE  Agrees(c)'
<1>1. TypeOK /\ TypeOK' /\ down[c] # << >> /\ down[c] \in Seq(DownType)
  BY DEF Advances, TypeOK, ReceiveAck, Receiving
<1>2. PICK m : m = Head(down[c])  OBVIOUS
<1>3. m = down[c][1] /\ 1 \in DOMAIN down[c] /\ m.type = "ack"
  BY <1>1, <1>2, TailIs DEF ReceiveAck, Receiving
<1>4. DownOK(c, m)  BY <1>3 DEF WireInv
<1>5. client[c].seq > 0  BY <1>3, <1>4 DEF DownOK
<1>6. client[c].seq \in Nat /\ client'[c].seq \in Nat /\ client'[c].seq >= client[c].seq
  BY <1>1 DEF ClientType, TypeOK, Advances, Proceeds
<1>7. client'[c].seq > 0  BY <1>5, <1>6
<1> QED BY <1>1, <1>7, BusyAgrees

LEMMA StepAgrees ==
    ASSUME Advances, PastInv, WireInv, AgreeInv, [Next]_vars
    PROVE  AgreeInv'
<1> SUFFICES ASSUME NEW d \in Client PROVE Agrees(d)'
  BY DEF AgreeInv
<1>1. TypeOK /\ TypeOK' /\ Agrees(d) /\ client[d] \in ClientType /\ client'[d] \in ClientType
  BY DEF Advances, AgreeInv, TypeOK
<1>2. CASE client'[d] = client[d]  BY <1>1, <1>2, SameAgrees DEF Silent
<1>3. CASE UNCHANGED client  BY <1>2, <1>3
<1>4. ASSUME NEW c \in Client, c # d, NEW cl, Update(c, cl) PROVE Agrees(d)'
  BY <1>1, <1>2, <1>4 DEF Update, TypeOK
<1>5. CASE Other \/ UNCHANGED vars
  BY <1>3, <1>5 DEF Other, OtherWrite, OtherTouch, OtherLock, OtherNote, OtherDelete,
                    OtherForget, Expire, vars
<1>6. ASSUME NEW c \in Client, MainLoop(c) \/ ReadLoop(c) \/ Connect(c) PROVE Agrees(d)'
  BY <1>3, <1>6 DEF MainLoop, MainPeek, MainCompose, MainSend, ReadLoop, ReadOps, ReadAck,
     ReadNote, ReadReject, ReadSync, ReadPeek, ReadReply, Connect
<1>7. ASSUME NEW cs \in SUBSET Client, Dropped(cs) PROVE Agrees(d)'
  <2>1. /\ client'[d].doc = client[d].doc /\ client'[d].known = client[d].known
        /\ client'[d].pending = client[d].pending /\ client'[d].seq = client[d].seq
    BY <1>1, <1>7 DEF Dropped, ClientType
  <2> QED BY <1>1, <2>1, SameAgrees DEF Silent
<1>8. ASSUME NEW c \in Client, Type(c) PROVE Agrees(d)'
  <2>1. PICK o : Update(c, [client[c] EXCEPT !.doc = @ \cup {o}, !.pending = Append(@, o)])
    BY <1>8 DEF Type
  <2>2. CASE c = d
    <3>1. client'[d].pending = Append(client[d].pending, o) /\ client[d].pending \in Seq(Item)
      BY <1>1, <2>1, <2>2 DEF Update, TypeOK, ClientType
    <3>2. client'[d].pending # << >>  BY <3>1
    <3> QED BY <1>1, <3>2, BusyAgrees
  <2>3. CASE c # d  BY <1>4, <2>1, <2>3
  <2> QED BY <2>2, <2>3
<1>9. ASSUME NEW c \in Client, Flush(c) PROVE Agrees(d)'
  <2>1. CASE c = d
    <3>1. client'[d].seq = client[d].seq + 1 /\ client[d].seq \in Nat
      BY <1>1, <1>9, <2>1 DEF Flush, Update, TypeOK, ClientType
    <3>2. client'[d].seq > 0  BY <3>1
    <3> QED BY <1>1, <3>2, BusyAgrees
  <2>2. CASE c # d
    <3>1. \E cl : Update(c, cl)  BY <1>9 DEF Flush
    <3> QED BY <1>4, <2>2, <3>1
  <2> QED BY <2>1, <2>2
<1>10. ASSUME NEW c \in Client, AskAgain(c) PROVE Agrees(d)'
  <2>1. Update(c, [client[c] EXCEPT !.asked = FALSE])  BY <1>10 DEF AskAgain
  <2>2. /\ client'[d].doc = client[d].doc /\ client'[d].known = client[d].known
        /\ client'[d].pending = client[d].pending /\ client'[d].seq = client[d].seq
    BY <1>1, <2>1 DEF Update, TypeOK, ClientType
  <2> QED BY <1>1, <2>2, SameAgrees DEF Silent
<1>11. ASSUME NEW c \in Client, Receive(c) PROVE Agrees(d)'
  <2>1. CASE c = d
    BY <1>11, <2>1, ReceiveStateAgrees, ReceiveOpsAgrees, ReceiveAckAgrees DEF Receive
  <2>2. CASE c # d
    <3>1. UNCHANGED client \/ \E cl : Update(c, cl)
      BY <1>11 DEF Receive, ReceiveState, ReceiveOps, ReceiveAck, RequestSync
    <3> QED BY <1>3, <1>4, <2>2, <3>1
  <2> QED BY <2>1, <2>2
<1>12. ASSUME NEW c \in Client, Disconnect(c) PROVE Agrees(d)'
  BY <1>7, <1>12 DEF Disconnect
<1>13. CASE Restart  BY <1>7, <1>13 DEF Restart
<1> QED BY <1>5, <1>6, <1>8, <1>9, <1>10, <1>11, <1>12, <1>13 DEF Next

-----------------------------------------------------------------------------
(* The invariant and what follows *)

LEMMA InitInv == Init => IInv
<1> SUFFICES ASSUME Init PROVE IInv
  OBVIOUS
<1>1. TypeOK  BY InitTypes
<1>2. PastInv /\ EventInv  BY DEF Init, PastInv, EventInv
<1>3. WireInv  BY DEF Init, WireInv, NewClient
<1>4. SessionInv  BY DEF Init, SessionInv
<1>5. AgreeInv  BY DEF Init, AgreeInv, Agrees, ShowsItsVersion, NewClient
<1>6. ForkInv  BY DEF Init, ForkInv, Forked, Absent
<1> QED BY <1>1, <1>2, <1>3, <1>4, <1>5, <1>6 DEF IInv

LEMMA StepInv == IInv /\ [Next]_vars => IInv'
<1> SUFFICES ASSUME IInv, [Next]_vars PROVE IInv'
  OBVIOUS
<1>1. TypeOK /\ PastInv /\ EventInv /\ WireInv /\ SessionInv /\ AgreeInv /\ ForkInv
  BY DEF IInv
<1>2. TypeOK'  BY <1>1, StepTypes
<1>3. PastInv' /\ ForkInv' /\ past \subseteq past'  BY <1>1, StepChanges, ChangesKeep
<1>4. Advances  BY <1>1, <1>2, <1>3, ClientsProceed DEF Advances
<1>5. AgreeInv'  BY <1>1, <1>4, StepAgrees
<1>6. EventInv' /\ WireInv' /\ SessionInv'
  <2>1. CASE Other  BY <1>1, <1>4, <2>1, OtherKeepsMessages
  <2>2. ASSUME NEW c \in Client, MainLoop(c) PROVE EventInv' /\ WireInv' /\ SessionInv'
    BY <1>1, <1>4, <2>2, MainKeepsMessages
  <2>3. ASSUME NEW c \in Client, ReadLoop(c) PROVE EventInv' /\ WireInv' /\ SessionInv'
    BY <1>1, <1>4, <2>3, ReadKeepsMessages
  <2>4. ASSUME NEW c \in Client, Type(c) \/ Flush(c) \/ AskAgain(c) \/ Receive(c)
        PROVE  EventInv' /\ WireInv' /\ SessionInv'
    BY <1>1, <1>4, <2>4, ClientKeepsMessages
  <2>5. CASE Restart \/ \E c \in Client : Connect(c) \/ Disconnect(c)
    BY <1>1, <1>4, <2>5, ConnectionKeepsMessages
  <2>6. CASE UNCHANGED vars  BY <1>1, <1>4, <2>6, StutterKeepsMessages
  <2> QED BY <2>1, <2>2, <2>3, <2>4, <2>5, <2>6 DEF Next
<1> QED BY <1>2, <1>3, <1>5, <1>6 DEF IInv

THEOREM SyncInvariant == Spec => []IInv
BY InitInv, StepInv, PTL DEF Spec

LEMMA InvAgrees == IInv => WatcherAgrees
BY DEF IInv, AgreeInv, Agrees, Silent, WatcherAgrees, Watching

\* Who only watches shows the version it knows, whatever frames were coalesced,
\* dropped or lost and whatever became of the room, or that version was written
\* twice (enqueueRoomState, handleState, handleRemoteOps).
THEOREM WatchersAgree == Spec => []WatcherAgrees
BY SyncInvariant, InvAgrees, PTL

LEMMA InvForks == IInv => OneDocumentPerVersion
BY DEF IInv, TypeOK, RoomType, ForkInv, OneDocumentPerVersion

\* Where no snapshot is lost, a version of an incarnation is one document: the
\* store's counters never go back (Clipboard.bump, nextGen of store.go).
THEOREM NoForks == Spec => []OneDocumentPerVersion
BY SyncInvariant, InvForks, PTL

LEMMA InvNeverDiverges == IInv /\ ~Lossy => NeverDiverges
<1> SUFFICES ASSUME IInv, ~Lossy, NEW c \in Client, Watching(c) PROVE ShowsItsVersion(c)
  BY DEF NeverDiverges
<1>1. ShowsItsVersion(c) \/ Forked(client[c].known.gen)
  BY InvAgrees DEF WatcherAgrees
<1>2. client[c].known.gen \in Nat  BY DEF IInv, TypeOK, ClientType
<1>3. ~Forked(client[c].known.gen)  BY <1>2 DEF IInv, ForkInv
<1> QED BY <1>1, <1>3

\* So the promise of app.js, that no batch is applied that makes the page diverge,
\* holds as long as no crash loses a snapshot.
THEOREM WatchersNeverDiverge == ASSUME ~Lossy PROVE Spec => []NeverDiverges
<1>1. IInv => NeverDiverges  BY InvNeverDiverges
<1> QED BY <1>1, SyncInvariant, PTL

LEMMA InvConfirmed == IInv => ConfirmedStep
<1> SUFFICES ASSUME IInv, NEW c \in Client, NEW i \in DOMAIN client[c].pending,
                    ReceiveAck(c) \/ ReceiveOps(c),
                    \A j \in DOMAIN (client'[c].pending) :
                        client'[c].pending[j].id # client[c].pending[i].id,
                    ~(Head(down[c]).type = "ack" /\ ~Head(down[c]).ok)
             PROVE  \E r \in past : client[c].pending[i].id \in Ids(r.doc)
  BY DEF ConfirmedStep
<1>1. TypeOK /\ WireInv /\ down[c] # << >> /\ down[c] \in Seq(DownType)
  BY DEF IInv, TypeOK, ReceiveAck, ReceiveOps, Receiving
<1>2. PICK m : m = Head(down[c])  OBVIOUS
<1>3. m \in DownType /\ DownOK(c, m)
  <2>1. m = down[c][1] /\ 1 \in DOMAIN down[c] /\ m \in DownType  BY <1>1, <1>2, TailIs
  <2> QED BY <1>1, <2>1 DEF WireInv
<1>4. PICK cl : cl = client[c]  OBVIOUS
<1>5. /\ cl \in ClientType /\ cl.pending \in Seq(Item)
      /\ cl.sent \in SUBSET [seq : Nat, ids : SUBSET Id]
  BY <1>1, <1>4 DEF TypeOK, ClientType
<1>6. PICK o : o = cl.pending[i]  OBVIOUS
<1>7. ASSUME NEW ids, client'[c].pending = Without(cl.pending, ids) PROVE o.id \in ids
  <2>1. Remains(cl.pending, ids, client'[c].pending)  BY <1>5, <1>7, WithoutIs
  <2> QED BY <1>4, <1>6, <2>1 DEF Remains
<1>8. client'[c].pending # cl.pending  BY <1>4, <1>6
<1>9. CASE ReceiveAck(c)
  <2>1. client'[c].pending = Without(cl.pending, Confirms(cl, m.seq))
    <3> DEFINE next == [cl EXCEPT !.pending = Without(cl.pending, Confirms(cl, m.seq)),
                                  !.sent = {b \in @ : b.seq # m.seq}]
    <3>1. next.pending = Without(cl.pending, Confirms(cl, m.seq))  BY <1>5 DEF ClientType
    <3>2. \A k : [next EXCEPT !.known = k].pending = next.pending  BY <1>5 DEF ClientType
    <3>3. Update(c, next) \/ \E k : Update(c, [next EXCEPT !.known = k])
      <4>1. m = Head(down[c]) /\ cl = client[c]  BY <1>2, <1>4
      <4> QED BY <1>9, <4>1, ZenonT(40) DEF ReceiveAck
    <3> HIDE DEF next
    <3>4. DOMAIN client = Client  BY <1>1 DEF TypeOK
    <3>5. \A y : Update(c, y) => client'[c] = y  BY <3>4 DEF Update
    <3> QED BY <3>1, <3>2, <3>3, <3>5
  <2>2. o.id \in Confirms(cl, m.seq)  BY <1>7, <2>1
  <2>3. PICK b \in cl.sent : b.seq = m.seq /\ o.id \in b.ids  BY <2>2 DEF Confirms
  <2>4. m.type = "ack" /\ m.ok  BY <1>2, <1>3, <1>9 DEF ReceiveAck, Receiving, DownType,
        StateType, OpsType, AckType
  <2>5. Had(b.ids)  BY <1>3, <1>4, <2>3, <2>4 DEF DownOK, Confirmed
  <2> QED BY <1>4, <1>6, <2>3, <2>5 DEF Had
<1>10. CASE ReceiveOps(c)
  <2> DEFINE known == [exists |-> TRUE, gen |-> m.gen, ver |-> m.ver]
             ids == Idents(m.ops)
             res == Apply(cl.doc, m.ops)
  <2>1. \/ UNCHANGED client
        \/ RequestSync(c, cl)
        \/ Update(c, [cl EXCEPT !.known = known, !.pending = Without(cl.pending, ids),
                                !.sent = Forget(@, ids)])
        \/ Update(c, [cl EXCEPT !.doc = res.doc, !.known = known])
        \/ RequestSync(c, [cl EXCEPT !.doc = res.doc])
    BY <1>2, <1>4, <1>10 DEF ReceiveOps, Idents
  <2> HIDE DEF known, ids, res
  <2>2. client'[c].pending = cl.pending \/ client'[c].pending = Without(cl.pending, ids)
    <3>1. CASE UNCHANGED client  BY <1>4, <3>1
    <3>2. CASE RequestSync(c, cl)
      BY <1>1, <1>5, <3>2 DEF RequestSync, Update, TypeOK, ClientType
    <3>3. CASE Update(c, [cl EXCEPT !.known = known, !.pending = Without(cl.pending, ids),
                                    !.sent = Forget(@, ids)])
      BY <1>1, <1>5, <3>3 DEF Update, TypeOK, ClientType
    <3>4. CASE Update(c, [cl EXCEPT !.doc = res.doc, !.known = known])
      BY <1>1, <1>5, <3>4 DEF Update, TypeOK, ClientType
    <3>5. CASE RequestSync(c, [cl EXCEPT !.doc = res.doc])
      BY <1>1, <1>5, <3>5 DEF RequestSync, Update, TypeOK, ClientType
    <3> QED BY <2>1, <3>1, <3>2, <3>3, <3>4, <3>5
  <2>3. o.id \in Idents(m.ops)  BY <1>7, <1>8, <2>2 DEF ids
  <2>4. m.type = "ops"  BY <1>2, <1>10 DEF ReceiveOps, Receiving
  <2>5. PICK r \in past : Idents(m.ops) \subseteq Ids(r.doc)  BY <1>3, <2>4 DEF DownOK, Made
  <2> QED BY <1>4, <1>6, <2>3, <2>5
<1> QED BY <1>9, <1>10

\* A client gives an operation up, for an acknowledgement or for its own operations
\* coming back, only when the room has had it or has refused the batch (handleAck,
\* handleRemoteOps).
THEOREM ConfirmedOnly == Spec => GivesUpOnlyConfirmed
BY SyncInvariant, InvConfirmed, PTL DEF GivesUpOnlyConfirmed
=============================================================================
