----------------------------- MODULE RoomStore -----------------------------
(***************************************************************************)
(* The room store, internal/store/store.go: one mutex-protected map of     *)
(* rooms with a byte budget, versions and incarnations, version history,   *)
(* expiry and passwords.                                                   *)
(*                                                                         *)
(* Everything a method does under s.mu is one action.  Writes to a room    *)
(* first verify the credential without holding the lock (preAuthorize, a   *)
(* slow KDF), so they take two actions, Begin and a Commit, with any       *)
(* number of other handlers' actions between them.                         *)
(*                                                                         *)
(* Texts are opaque values with a length (one byte per character); a       *)
(* document is its visible text and its number of items, tombstones        *)
(* included (module Rga has the document itself).  Persistence is enabled, *)
(* as it is by default: dirty and deleted are what the flusher, module     *)
(* RoomPersistence, works from.  The onExpire callback changes only the    *)
(* realtime layer and is left to it.                                       *)
(***************************************************************************)
EXTENDS Integers, FiniteSets, Sequences

CONSTANTS
    Key,             \* room keys
    Handler,         \* concurrent request handlers
    Reader,          \* those whose client keeps what it reads, to save conditionally
    Text, EmptyText, \* room contents
    TextLen,         \* TextLen[t]: length of text t
    TTL,             \* the durations a writer may ask for
    Password,        \* passwords
    Knows,           \* Knows[h]: the passwords the client of h may present
    Scope,           \* the scopes of a lock
    None,            \* no room, no request, no password
    MaxRooms, MaxTotal, MaxContent, MaxHistory, Throttle,  \* the store's limits
    RoomBase, ItemBytes, EntryBytes,                       \* the size estimate
    MaxBatch,        \* bound: items one batch inserts
    MaxNow,          \* bound: the clock
    MaxVersion,      \* bound: no request begins on a room beyond this version
    MaxGeneration,   \* bound: nor once this many incarnations were begun
    MaxSalt          \* bound: password hashes computed

EntryType == [text : Text, ver : Nat, at : Nat]

LockType == [pw : Password \cup {None}, salt : Nat, scope : Scope \cup {None}]

RoomType ==
    [text : Text, items : Nat, ttl : TTL, exp : Nat, ver : Nat, gen : Nat,
     lock : LockType, hist : Seq(EntryType)]

ASSUME ConstantsAssumption ==
    /\ IsFiniteSet(Key)
    /\ Reader \subseteq Handler
    /\ EmptyText \in Text
    /\ \A t \in Text : TextLen[t] \in Nat
    /\ TTL \subseteq Nat \ {0}
    /\ None \notin RoomType \cup Password
    /\ Knows \in [Handler -> SUBSET Password]
    /\ "edit" \in Scope /\ Scope \subseteq {"edit", "view"}
    /\ {MaxRooms, MaxTotal, MaxHistory, RoomBase, ItemBytes, EntryBytes, MaxBatch} \subseteq Nat

VARIABLES
    now,      \* the store's clock
    store,    \* the fields of Store, see StoreType
    pending,  \* pending[h]: the request h has pre-authorized, or None
    session,  \* session[h]: what the client of h has learnt, see SessionType
    salts     \* salts used so far: every password hash takes a fresh one

vars == <<now, store, pending, session, salts>>

NothingRead == [ver |-> 0, gen |-> 0, text |-> EmptyText]
NoLock == [pw |-> None, salt |-> 0, scope |-> None]

StoreType ==
    [items : [Key -> RoomType \cup {None}], sizeBy : [Key -> Nat], total : Int,
     nextGeneration : Nat, dirty : SUBSET Key, deleted : SUBSET Key]

\* A room as its client last read it; only the version is sent with a save.
ReadType == [ver : Nat, gen : Nat, text : Text]

\* A websocket session's credential and, for the properties only, the password
\* it was issued for; and what the client has read of each room.
SessionType ==
    [cred : Nat, proved : Password \cup {None}, seen : [Key -> ReadType]]

\* A request: its arguments, and what the pre-check leaves for the commit.
AnyRequest ==
    [kind : {"save", "ops", "delete", "capture", "clear"}, key : Key,
     text : Text, ttl : TTL \cup {0}, base : Nat, read : ReadType,
     password : Password \cup {None}, cred : Nat, proved : Password \cup {None},
     claim : Password \cup {None}, claimSalt : Nat, expected : Nat]

RequestType == {p \in AnyRequest : p.kind = "save" => p.ttl \in TTL}

-----------------------------------------------------------------------------
(* Sizes *)

\* The sum of a function's values, as the number of units they count.
Units(f) == UNION {{x} \X (1 .. f[x]) : x \in DOMAIN f}
SumOf(f) == Cardinality(Units(f))

HistoryBytes(hist) ==
    SumOf([i \in DOMAIN hist |-> TextLen[hist[i].text] + EntryBytes])

\* estimateBytes plus historyBytes.
Bytes(r) == RoomBase + TextLen[r.text] + r.items * ItemBytes + HistoryBytes(r.hist)

Present(st) == {k \in Key : st.items[k] # None}

CanAccept(st, k, r) ==
    /\ st.items[k] = None => Cardinality(Present(st)) < MaxRooms
    /\ \/ Bytes(r) <= st.sizeBy[k]
       \/ st.total + Bytes(r) - st.sizeBy[k] <= MaxTotal

-----------------------------------------------------------------------------
(* The locked helpers *)

\* removeLocked, for a set of keys (CleanupExpired removes them in one hold of
\* the lock).  Mutant: the bytes of the removed rooms are not given back.
RemoveKeepsTotal(st, ks) ==
    [st EXCEPT !.items = [k \in Key |-> IF k \in ks THEN None ELSE @[k]],
               !.sizeBy = [k \in Key |-> IF k \in ks THEN 0 ELSE @[k]],
               !.dirty = @ \ ks,
               !.deleted = @ \cup ks]

Remove(st, ks) ==
    LET left == st.total - SumOf([k \in ks |-> st.sizeBy[k]])
    IN  [st EXCEPT !.items = [k \in Key |-> IF k \in ks THEN None ELSE @[k]],
                   !.sizeBy = [k \in Key |-> IF k \in ks THEN 0 ELSE @[k]],
                   !.total = IF left < 0 THEN 0 ELSE left,
                   !.dirty = @ \ ks,
                   !.deleted = @ \cup ks]

\* putLocked
Put(st, k, r) ==
    [st EXCEPT !.items[k] = r,
               !.sizeBy[k] = Bytes(r),
               !.total = @ - st.sizeBy[k] + Bytes(r),
               !.dirty = @ \cup {k}]

PutIfAccepted(st, k, r) == IF CanAccept(st, k, r) THEN Put(st, k, r) ELSE st

\* s.items[key] = r, without and with markDirtyLocked.
Refresh(st, k, r) == [st EXCEPT !.items[k] = r]
Rewrite(st, k, r) == [Refresh(st, k, r) EXCEPT !.dirty = @ \cup {k}]

Expired(st) == {k \in Present(st) : st.items[k].exp <= now}

\* getLiveLocked: an expired room is removed before it is looked at.
GetLive(k) == IF k \in Expired(store) THEN Remove(store, {k}) ELSE store

\* newGenerationLocked and existingGenerationLocked.
WithGeneration(st, k) ==
    IF st.items[k] = None THEN [st EXCEPT !.nextGeneration = @ + 1]
    ELSE [st EXCEPT !.nextGeneration = IF @ < st.items[k].gen THEN st.items[k].gen ELSE @]

Generation(st, k) == IF st.items[k] = None THEN st.nextGeneration ELSE st.items[k].gen
Version(st, k) == IF st.items[k] = None THEN 0 ELSE st.items[k].ver
LockOf(st, k) == IF st.items[k] = None THEN NoLock ELSE st.items[k].lock
HistoryOf(st, k) == IF st.items[k] = None THEN << >> ELSE st.items[k].hist

Locked(lock) == lock.salt # 0

\* verifyPassword
Verify(lock, pw) == pw # None /\ pw = lock.pw

\* maybeCaptureHistoryLocked, on the trail of a room with this text.
Captures(hist, text, manual) ==
    /\ text # EmptyText
    /\ hist # << >> =>
         LET last == hist[Len(hist)]
         IN  last.text # text /\ (manual \/ now - last.at >= Throttle)

\* Mutant: the cap keeps one entry too many.
NewestPlusOne(hist) ==
    IF Len(hist) <= MaxHistory + 1 THEN hist
    ELSE SubSeq(hist, Len(hist) - MaxHistory, Len(hist))

Newest(hist) ==
    IF Len(hist) <= MaxHistory THEN hist
    ELSE SubSeq(hist, Len(hist) - MaxHistory + 1, Len(hist))

Capture(hist, text, ver, manual) ==
    IF Captures(hist, text, manual)
    THEN Newest(Append(hist, [text |-> text, ver |-> ver, at |-> now]))
    ELSE hist

-----------------------------------------------------------------------------
Init ==
    /\ now = 0
    /\ store = [items |-> [k \in Key |-> None], sizeBy |-> [k \in Key |-> 0],
                total |-> 0, nextGeneration |-> 0, dirty |-> {}, deleted |-> {}]
    /\ pending = [h \in Handler |-> None]
    /\ session = [h \in Handler |->
                    [cred |-> 0, proved |-> None, seen |-> [k \in Key |-> NothingRead]]]
    /\ salts = 0

InBounds(k) ==
    /\ Version(store, k) < MaxVersion
    /\ store.nextGeneration < MaxGeneration

(***************************************************************************)
(* Reads.  Every one of them goes through getLiveLocked.                   *)
(***************************************************************************)

\* Get: the client of h learns the room's text, version and incarnation.
Get(h, k) ==
    LET st == GetLive(k)
    IN  /\ store' = st
        /\ session' = [session EXCEPT ![h].seen[k] =
                          IF st.items[k] = None THEN NothingRead
                          ELSE [ver |-> st.items[k].ver, gen |-> st.items[k].gen,
                                text |-> st.items[k].text]]
        /\ UNCHANGED <<now, pending, salts>>

\* AuthCredential: one lock acquisition verifies the password and returns the
\* credential, the salt.
AuthCredential(h, k, pw) ==
    LET st == GetLive(k)
        lock == LockOf(st, k)
    IN  /\ Verify(lock, pw)
        /\ store' = st
        /\ session' = [session EXCEPT ![h].cred = lock.salt, ![h].proved = pw]
        /\ UNCHANGED <<now, pending, salts>>

(***************************************************************************)
(* The first phase of a write: preAuthorize, and prepareClaim for a save   *)
(* that claims the room.  A wrong credential ends the request here.        *)
(***************************************************************************)
Presents(lock, p) == p.cred = lock.salt \/ Verify(lock, p.password)

Begin(h, p) ==
    LET st == GetLive(p.key)
        lock == LockOf(st, p.key)
        claims == p.claim # None
    IN  /\ pending[h] = None
        /\ InBounds(p.key)
        /\ claims => salts < MaxSalt
        /\ store' = st
        /\ IF Locked(lock) /\ ~Presents(lock, p)
           THEN UNCHANGED <<pending, salts>>
           ELSE /\ pending' = [pending EXCEPT ![h] =
                                 [p EXCEPT !.expected = lock.salt,
                                           !.claimSalt = IF claims THEN salts + 1 ELSE 0]]
                /\ salts' = IF claims THEN salts + 1 ELSE salts
        /\ UNCHANGED <<now, session>>

\* The requests the client of h can make about room k.  A save is
\* unconditional or names the version the client last read; a credential is
\* the session's.  Arguments a kind of request does not have stay at one value.
Request(h, k, kind, text, ttl, base, password, claim) ==
    [kind |-> kind, key |-> k, text |-> text, ttl |-> ttl, base |-> base,
     read |-> IF base = 0 THEN NothingRead ELSE session[h].seen[k],
     password |-> password,
     cred |-> session[h].cred, proved |-> session[h].proved,
     claim |-> claim, claimSalt |-> 0, expected |-> 0]

Requests(h, k) ==
    LET pws == Knows[h] \cup {None}
    IN  {Request(h, k, "save", text, ttl, base, pw, claim) :
            text \in Text, ttl \in TTL, base \in {0, session[h].seen[k].ver},
            pw \in pws, claim \in pws}
        \cup {Request(h, k, "ops", EmptyText, ttl, 0, pw, None) :
                ttl \in TTL \cup {0}, pw \in pws}
        \cup {Request(h, k, kind, EmptyText, 0, 0, pw, None) :
                kind \in {"delete", "capture", "clear"}, pw \in pws}

(***************************************************************************)
(* confirmAuthLocked: the re-check under the lock.  A lock or a rotation   *)
(* that landed after the pre-check is not bypassed.                        *)
(* Mutant: the pre-check is trusted.                                       *)
(***************************************************************************)
ConfirmedByPrecheck(st, p) == TRUE

Confirmed(st, p) ==
    LET lock == LockOf(st, p.key)
    IN  Locked(lock) => \/ Presents(lock, p)
                        \/ p.expected # 0 /\ p.expected = lock.salt

Committing(h, kind) == pending[h] # None /\ pending[h].kind = kind

Answer(h) ==
    /\ pending' = [pending EXCEPT ![h] = None]
    /\ UNCHANGED <<now, session, salts>>

(***************************************************************************)
(* SaveWithBase                                                            *)
(***************************************************************************)
\* Mutant: the version is not compared again under the lock.
VersionMatchesAlways(st, p) == TRUE

VersionMatches(st, p) == p.base > 0 => Version(st, p.key) = p.base

SaveIsIdentical(st, p) ==
    LET r == st.items[p.key]
    IN  r # None /\ r.text = p.text /\ r.ttl = p.ttl

SaveRejected(h) ==
    /\ Committing(h, "save")
    /\ LET p == pending[h]
       IN  \/ /\ TextLen[p.text] > MaxContent
              /\ store' = store
           \/ /\ TextLen[p.text] <= MaxContent
              /\ ~(Confirmed(GetLive(p.key), p) /\ VersionMatches(GetLive(p.key), p))
              /\ store' = GetLive(p.key)
    /\ Answer(h)

SaveAdmitted(h) ==
    /\ Committing(h, "save")
    /\ LET p == pending[h]
       IN  /\ TextLen[p.text] <= MaxContent
           /\ Confirmed(GetLive(p.key), p)
           /\ VersionMatches(GetLive(p.key), p)

\* The claim of a save: only an unlocked room takes the new password.
ClaimedLock(lock, p) ==
    IF ~Locked(lock) /\ p.claim # None
    THEN [pw |-> p.claim, salt |-> p.claimSalt, scope |-> "edit"]
    ELSE lock

\* Same text and lifetime: the expiry is refreshed; the version moves and the
\* room is persisted only if the save also claimed the room.
SaveRefreshes(h) ==
    /\ SaveAdmitted(h)
    /\ LET p == pending[h]
           st == WithGeneration(GetLive(p.key), p.key)
           r == st.items[p.key]
           lock == ClaimedLock(r.lock, p)
           fresh == [r EXCEPT !.exp = now + p.ttl]
       IN  /\ SaveIsIdentical(st, p)
           /\ store' = IF lock = r.lock THEN Refresh(st, p.key, fresh)
                       ELSE Rewrite(st, p.key, [fresh EXCEPT !.lock = lock, !.ver = @ + 1])
    /\ Answer(h)

\* The document is rebuilt from the text, one item per character.
\* Mutant: the version starts again with the new document.
VersionAfterReplaceReset(st, k) == 1

VersionAfterReplace(st, k) == Version(st, k) + 1

SaveReplaces(h) ==
    /\ SaveAdmitted(h)
    /\ LET p == pending[h]
           k == p.key
           st == WithGeneration(GetLive(k), k)
           ver == VersionAfterReplace(st, k)
       IN  /\ ~SaveIsIdentical(GetLive(k), p)
           /\ store' = PutIfAccepted(st, k,
                 [text |-> p.text, items |-> TextLen[p.text], ttl |-> p.ttl,
                  exp |-> now + p.ttl, ver |-> ver, gen |-> Generation(st, k),
                  lock |-> ClaimedLock(LockOf(st, k), p),
                  hist |-> Capture(HistoryOf(st, k), p.text, ver, FALSE)])
    /\ Answer(h)

(***************************************************************************)
(* ApplyOps.  The batch works on a clone; what it can make of a document   *)
(* is every text the length of which the insertions allow, with the items  *)
(* they add, or only deletions, which shorten the text.                    *)
(***************************************************************************)
Batches(text, items) ==
    {d \in [text : Text, items : items .. items + MaxBatch] :
        LET inserted == d.items - items
        IN  /\ TextLen[d.text] <= MaxContent
            /\ TextLen[d.text] <= TextLen[text] + inserted
            /\ inserted = 0 => TextLen[d.text] < TextLen[text]}

OpsAdmitted(h) ==
    /\ Committing(h, "ops")
    /\ LET p == pending[h]
       IN  /\ Confirmed(GetLive(p.key), p)
           /\ GetLive(p.key).items[p.key] = None => p.ttl > 0

OpsRejected(h) ==
    /\ Committing(h, "ops")
    /\ ~OpsAdmitted(h)
    /\ store' = GetLive(pending[h].key)
    /\ Answer(h)

\* An operation is malformed or names an unknown parent, the text grows too
\* long, or nothing changes in a room that is not there: the clone is dropped,
\* but the incarnation a missing room was given is used up.
OpsFail(h) ==
    /\ OpsAdmitted(h)
    /\ store' = WithGeneration(GetLive(pending[h].key), pending[h].key)
    /\ Answer(h)

NewTTL(st, p) == IF p.ttl > 0 THEN p.ttl ELSE st.items[p.key].ttl

\* An empty batch, or one applied before: the lifetime is refreshed, and the
\* version moves if it changed.
OpsRefresh(h) ==
    /\ OpsAdmitted(h)
    /\ LET p == pending[h]
           st == WithGeneration(GetLive(p.key), p.key)
           r == st.items[p.key]
           ttl == NewTTL(st, p)
           fresh == [r EXCEPT !.ttl = ttl, !.exp = now + ttl]
       IN  /\ r # None
           /\ store' = IF ttl = r.ttl THEN Refresh(st, p.key, fresh)
                       ELSE Rewrite(st, p.key, [fresh EXCEPT !.ver = @ + 1])
    /\ Answer(h)

\* An empty batch on a missing room creates it empty.
OpsCreate(h) ==
    /\ OpsAdmitted(h)
    /\ LET p == pending[h]
           st == WithGeneration(GetLive(p.key), p.key)
       IN  /\ st.items[p.key] = None
           /\ store' = PutIfAccepted(st, p.key,
                 [text |-> EmptyText, items |-> 0, ttl |-> p.ttl, exp |-> now + p.ttl,
                  ver |-> 1, gen |-> Generation(st, p.key), lock |-> NoLock,
                  hist |-> << >>])
    /\ Answer(h)

OpsChange(h) ==
    /\ OpsAdmitted(h)
    /\ LET p == pending[h]
           k == p.key
           st == WithGeneration(GetLive(k), k)
           r == st.items[k]
           ttl == NewTTL(st, p)
           ver == Version(st, k) + 1
       IN  \E d \in IF r = None THEN Batches(EmptyText, 0) ELSE Batches(r.text, r.items) :
              store' = PutIfAccepted(st, k,
                 [text |-> d.text, items |-> d.items, ttl |-> ttl, exp |-> now + ttl,
                  ver |-> ver, gen |-> Generation(st, k), lock |-> LockOf(st, k),
                  hist |-> Capture(HistoryOf(st, k), d.text, ver, FALSE)])
    /\ Answer(h)

(***************************************************************************)
(* DeleteAuth, CaptureHistory, ClearHistory                                *)
(***************************************************************************)
DeleteAuth(h) ==
    /\ Committing(h, "delete")
    /\ LET p == pending[h]
           st == GetLive(p.key)
       IN  store' = IF Confirmed(st, p) THEN Remove(st, {p.key}) ELSE st
    /\ Answer(h)

\* The trail changes without a new version.
CaptureHistory(h) ==
    /\ Committing(h, "capture")
    /\ LET p == pending[h]
           st == GetLive(p.key)
           r == st.items[p.key]
       IN  store' = IF r # None /\ Confirmed(st, p) /\ Captures(r.hist, r.text, TRUE)
                    THEN PutIfAccepted(st, p.key,
                           [r EXCEPT !.hist = Capture(@, r.text, r.ver, TRUE)])
                    ELSE st
    /\ Answer(h)

ClearHistory(h) ==
    /\ Committing(h, "clear")
    /\ LET p == pending[h]
           st == GetLive(p.key)
           r == st.items[p.key]
       IN  store' = IF r # None /\ Confirmed(st, p) /\ r.hist # << >>
                    THEN Put(st, p.key, [r EXCEPT !.hist = << >>])
                    ELSE st
    /\ Answer(h)

(***************************************************************************)
(* SetPassword verifies and hashes under the lock, in one action.  A wrong *)
(* current password or a missing room changes what Peek changes.           *)
(***************************************************************************)
Relock(k, current, lock) ==
    LET st == GetLive(k)
        r == st.items[k]
    IN  /\ r # None
        /\ Locked(r.lock) => Verify(r.lock, current)
        /\ InBounds(k)
        /\ store' = Rewrite(st, k, [r EXCEPT !.lock = lock, !.ver = @ + 1])
        /\ UNCHANGED <<now, pending, session>>

Unlock(k, current) ==
    /\ Locked(LockOf(GetLive(k), k))
    /\ Relock(k, current, NoLock)
    /\ UNCHANGED salts

\* The same password again: only another scope changes anything.
Rescope(k, current, scope) ==
    LET lock == LockOf(GetLive(k), k)
    IN  /\ Locked(lock)
        /\ scope # lock.scope
        /\ Relock(k, current, [lock EXCEPT !.scope = scope])
        /\ UNCHANGED salts

\* A new password takes a fresh salt, and keeps the scope if none is given.
Rotate(k, current, next, scope) ==
    LET lock == LockOf(GetLive(k), k)
        kept == IF Locked(lock) THEN lock.scope ELSE "edit"
    IN  /\ salts < MaxSalt
        /\ ~Verify(lock, next)
        /\ Relock(k, current, [pw |-> next, salt |-> salts + 1,
                               scope |-> IF scope = None THEN kept ELSE scope])
        /\ salts' = salts + 1

(***************************************************************************)
(* Expiry                                                                  *)
(***************************************************************************)
Peek(k) ==
    /\ store' = GetLive(k)
    /\ UNCHANGED <<now, pending, session, salts>>

CleanupExpired ==
    /\ store' = Remove(store, Expired(store))
    /\ UNCHANGED <<now, pending, session, salts>>

Tick ==
    /\ now < MaxNow
    /\ now' = now + 1
    /\ UNCHANGED <<store, pending, session, salts>>

Commit(h) ==
    \/ SaveRejected(h) \/ SaveRefreshes(h) \/ SaveReplaces(h)
    \/ OpsRejected(h) \/ OpsFail(h) \/ OpsRefresh(h) \/ OpsCreate(h) \/ OpsChange(h)
    \/ DeleteAuth(h) \/ CaptureHistory(h) \/ ClearHistory(h)

Handle(h) ==
    \/ h \in Reader /\ \E k \in Key : Get(h, k)
    \/ \E k \in Key, pw \in Knows[h] : AuthCredential(h, k, pw)
    \/ \E k \in Key : \E p \in Requests(h, k) : Begin(h, p)
    \/ Commit(h)

SetPassword(k) ==
    \E current \in Password \cup {None} :
        \/ Unlock(k, current)
        \/ \E scope \in Scope : Rescope(k, current, scope)
        \/ \E next \in Password, scope \in Scope \cup {None} : Rotate(k, current, next, scope)

Next ==
    \/ \E h \in Handler : Handle(h)
    \/ \E k \in Key : SetPassword(k) \/ Peek(k)
    \/ CleanupExpired
    \/ Tick

Spec == Init /\ [][Next]_vars

-----------------------------------------------------------------------------
(* Properties *)

\* The types of the variables.
TypeOK ==
    /\ now \in Nat
    /\ store \in StoreType
    /\ pending \in [Handler -> RequestType \cup {None}]
    /\ session \in [Handler -> SessionType]
    /\ salts \in Nat

\* The accounting never drifts: each room is charged what its document and
\* trail are estimated at now, an absent room nothing, and total is the sum,
\* over every path that rewrites, refreshes, expires or deletes a room
\* (putLocked, removeLocked and the writes that bypass them).
Accounting ==
    /\ \A k \in Key : store.sizeBy[k] =
                       IF store.items[k] = None THEN 0 ELSE Bytes(store.items[k])
    /\ store.total = SumOf(store.sizeBy)

\* The hard caps of WithLimits hold in every state, although a write that
\* does not grow its room skips the budget check (canAcceptLocked).
Limits ==
    /\ store.total <= MaxTotal
    /\ Cardinality(Present(store)) <= MaxRooms

\* The version trail of a room: at most MaxHistory entries, none empty, no two
\* neighbours equal, in the order of versions and of time, none newer than the
\* room; an entry of the room's own version holds the room's text
\* (maybeCaptureHistoryLocked, whatever bumps versions between captures).
HistoryOrdered ==
    \A k \in Present(store) :
        LET r == store.items[k]
        IN  /\ Len(r.hist) <= MaxHistory
            /\ \A i \in DOMAIN r.hist :
                 /\ r.hist[i].text # EmptyText
                 /\ r.hist[i].ver <= r.ver
                 /\ r.hist[i].ver = r.ver => r.hist[i].text = r.text
                 /\ i > 1 => /\ r.hist[i].text # r.hist[i - 1].text
                             /\ r.hist[i].ver > r.hist[i - 1].ver
                             /\ r.hist[i].at >= r.hist[i - 1].at

\* What clients order snapshots by: within an incarnation the version never
\* decreases, and as long as it stays the document, its lifetime and its lock
\* stay too; a room that appears, or takes another's place in the same step,
\* has a greater incarnation than any room before it.
VersionIdentifiesDocument ==
    [][\A k \in Key :
        LET r == store.items[k]
            n == store'.items[k]
        IN  n # None =>
              \/ /\ r # None /\ n.gen = r.gen
                 /\ n.ver >= r.ver
                 /\ n.ver = r.ver => /\ n.text = r.text /\ n.items = r.items
                                     /\ n.ttl = r.ttl /\ n.lock = r.lock
              \/ n.gen > store.nextGeneration /\ n.gen <= store'.nextGeneration]_vars

\* A live locked room changes its text, its items or its trail, or disappears,
\* only on behalf of a caller that has presented the password in force at that
\* moment, itself or when its session's credential was issued (the comment on
\* SaveWithBase: a concurrent lock or rotate cannot race past the check).
AuthorizedWrites ==
    [][\A k \in Key :
        LET r == store.items[k]
            n == store'.items[k]
        IN  /\ r # None /\ Locked(r.lock) /\ r.exp > now
            /\ n # None => <<n.text, n.items, n.hist>> # <<r.text, r.items, r.hist>>
            => \E h \in Handler :
                 /\ pending[h] # None /\ pending'[h] = None
                 /\ pending[h].key = k
                 /\ r.lock.pw \in {pending[h].password, pending[h].proved}]_vars

\* A conditional save on the incarnation its client read replaces the very
\* text the client read, however many handlers save, edit, refresh or lock the
\* room between the read, the pre-check and the commit.
NoLostUpdate ==
    [][\A h \in Handler :
        LET p == pending[h]
            r == store.items[p.key]
        IN  /\ SaveReplaces(h) /\ p.base > 0
            /\ r # None /\ r.gen = p.read.gen
            /\ store'.items[p.key] # r
            => r.text = p.read.text]_vars

=============================================================================
