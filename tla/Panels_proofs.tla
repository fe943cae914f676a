--------------------------- MODULE Panels_proofs ---------------------------
(***************************************************************************)
(* Proofs about the panels of a page, for every room, every password and   *)
(* every bound: a file that was chosen once is stored once, and the gate   *)
(* of the page ends up where the lock of the room puts it.                 *)
(*                                                                         *)
(* The files of one choice are a batch.  A batch that is not over has one  *)
(* holder: the dialog that asks for its passwords, or one request that     *)
(* carries one of its files.  What is stored of it is behind the holder:   *)
(* earlier files, or the same one if the request was served.  A dialog has *)
(* nothing stored behind it, because the server asks for another password  *)
(* only of a batch whose password never let a file in; a room closed for   *)
(* uploads in the meantime is the exception the property names.            *)
(*                                                                         *)
(* The gate follows what the page hears of the lock.  Until the page has   *)
(* heard of the last change a frame that tells it is on its way; every     *)
(* answer and frame that speaks of the present lock speaks the truth; and  *)
(* an open gate before a sealed room, or a batch kept in spite of an open  *)
(* gate, has something on its way that ends it.  An answer that came late  *)
(* voids all this, as the properties say.                                  *)
(***************************************************************************)
EXTENDS Panels, SequenceTheorems, TLAPS

-----------------------------------------------------------------------------
(* Shapes                                                                  *)

PageFields == {"set", "scope", "ver", "seen", "late", "shown", "gate", "edit", "tab", "own",
               "modal", "ops", "up", "net", "on", "listed", "admin", "filepw"}
RoomFields == {"pw", "scope", "cred", "ver", "files", "ids", "open", "rev", "shut"}

\* A request; one that carries a file says of which batch, and which of its files.
IsRequest(r) ==
    /\ DOMAIN r = {"do", "pw", "arg", "ans", "seen"}
    /\ r.do = "upload" =>
        /\ DOMAIN r.arg = {"admin", "filepw", "batch", "item"}
        /\ r.arg.batch \in Nat /\ r.arg.item \in Nat

\* What the dialog may ask for.
IsDialog(m) ==
    /\ m.do \in RoomFlows \cup {"upload", "download", "delete", "toggle"}
    /\ m.do = "upload" =>
        /\ DOMAIN m.arg = {"stage", "admin", "filepw", "batch"}
        /\ m.arg.batch \in Nat /\ m.arg.stage \in {"admin", "file", "again"}

\* Holders of batches: the requests that carry a file, the batch of the dialog.
Carriers(p) == {r \in DOMAIN p.net : r.do = "upload"}
Asking(p) == IF p.modal # None /\ p.modal.do = "upload" THEN {p.modal.arg.batch} ELSE {}

IsPage(p) ==
    /\ DOMAIN p = PageFields
    /\ \A r \in DOMAIN p.net : IsRequest(r)
    /\ p.modal # None => IsDialog(p.modal)

\* A step of the page adds no request that carries a file, and asks for no batch
\* but those of B.
Leaves(p, q, B) ==
    /\ IsPage(q)
    /\ Carriers(q) \subseteq Carriers(p)
    /\ \A r \in Carriers(q) : q.net[r] = p.net[r]
    /\ Asking(q) \subseteq B

\* It adds no holder at all.
Keeps(p, q) == Leaves(p, q, Asking(p))

\* It does not touch its requests and its dialog.
Same(p, q) == DOMAIN q = PageFields /\ q.net = p.net /\ q.modal = p.modal

-----------------------------------------------------------------------------
(* The invariant                                                           *)

\* Batches are numbered downwards; 0 is the file that was there to begin with.
Numbered(rm, p, n) ==
    /\ \A f \in rm.files : f.batch = 0 \/ f.batch > n
    /\ \A r \in Carriers(p) : r.arg.batch > n
    /\ \A b \in Asking(p) : b > n

OneHolder(p) ==
    /\ \A r \in Carriers(p) : p.net[r] = 1 /\ r.arg.batch \notin Asking(p)
    /\ \A r, s \in Carriers(p) : r.arg.batch = s.arg.batch => r = s

\* A file of the batch that r carries is behind r.
BehindRequest(rm, f, r) ==
    /\ f.item <= r.arg.item
    /\ f.item = r.arg.item => r.ans # Waits
    /\ r.arg.admin = "good" \/ rm.open
    /\ r.ans.code # "admin"

Behind(rm, p) ==
    rm.shut \/
    \A f \in rm.files :
        /\ f.batch \notin Asking(p)
        /\ \A r \in Carriers(p) : r.arg.batch = f.batch => BehindRequest(rm, f, r)

Once(rm) ==
    rm.shut \/ \A f, g \in rm.files : f.batch = g.batch /\ f.item = g.item => f = g

IsRoom(rm) ==
    /\ DOMAIN rm = RoomFields
    /\ rm.shut \in BOOLEAN
    /\ \A f \in rm.files : f.batch \in Nat /\ f.item \in Nat

Uploading(rm, p, n) ==
    /\ n \in Nat
    /\ IsPage(p)
    /\ IsRoom(rm)
    /\ Numbered(rm, p, n)
    /\ OneHolder(p)
    /\ Behind(rm, p)
    /\ Once(rm)

IsFrame(f) ==
    /\ f.type \in {"state", "ack", "files"}
    /\ f.type = "ack" => f.code \in {"ok", "invalid", "locked"}

IsWire(w) ==
    /\ w \in Seq({w[i] : i \in DOMAIN w})
    /\ \A i \in DOMAIN w : IsFrame(w[i])

PanelsInv ==
    /\ left \in BudgetType
    /\ IsWire(wire)
    /\ Uploading(room, page, left.files)
-----------------------------------------------------------------------------
(* The page's operators                                                    *)

LEMMA SameKeeps ==
    ASSUME NEW p, NEW q, IsPage(p), Same(p, q)
    PROVE  Keeps(p, q)
BY DEF Same, Keeps, Leaves, IsPage, Carriers, Asking

LEMMA SameTwice ==
    ASSUME NEW p, NEW q, NEW s, Same(p, q), Same(q, s)
    PROVE  Same(p, s)
BY DEF Same

LEMMA LeavesAfter ==
    ASSUME NEW p, NEW q, NEW s, NEW B, Keeps(p, q), Leaves(q, s, B)
    PROVE  Leaves(p, s, B)
BY DEF Keeps, Leaves

LEMMA KeepsTwice ==
    ASSUME NEW p, NEW q, NEW s, Keeps(p, q), Keeps(q, s)
    PROVE  Keeps(p, s)
BY DEF Keeps, Leaves

LEMMA KeepsItself ==
    ASSUME NEW p, IsPage(p)
    PROVE  Keeps(p, p) /\ Leaves(p, p, Asking(p))
BY DEF Keeps, Leaves

LEMMA KeepsPage ==
    ASSUME NEW p, NEW q, Keeps(p, q)
    PROVE  IsPage(q)
BY DEF Keeps, Leaves

LEMMA FetchKeeps ==
    ASSUME NEW p, NEW do, NEW pw, NEW arg, IsPage(p), do # "upload"
    PROVE  Keeps(p, Fetch(p, do, pw, arg))
<1> DEFINE x == [do |-> do, pw |-> pw, arg |-> arg, ans |-> Waits, seen |-> p.seen]
           q == Fetch(p, do, pw, arg)
<1>1. DOMAIN q = PageFields /\ q.net = BagAdd(p.net, x) /\ q.modal = p.modal
  BY DEF Fetch, IsPage, PageFields
<1>2. DOMAIN q.net = DOMAIN p.net \cup {x} /\ \A r \in DOMAIN p.net : r # x => q.net[r] = p.net[r]
  BY <1>1 DEF BagAdd
<1>3. IsRequest(x) /\ x.do = do
  BY DEF IsRequest
<1> HIDE DEF x, q
<1>4. IsPage(q)
  BY <1>1, <1>2, <1>3 DEF IsPage
<1>5. Carriers(q) \subseteq Carriers(p) /\ \A r \in Carriers(q) : q.net[r] = p.net[r]
  BY <1>2, <1>3 DEF Carriers
<1>6. Asking(q) \subseteq Asking(p)
  BY <1>1 DEF Asking
<1> QED
  BY <1>4, <1>5, <1>6 DEF Keeps, Leaves, q

LEMMA SmallSteps ==
    ASSUME NEW p, IsPage(p)
    PROVE  /\ Same(p, ShowLock(p)) /\ Same(p, HideLock(p)) /\ Same(p, ScheduleFlush(p))
           /\ Same(p, ForgetEdit(p)) /\ Same(p, ForgetRoom(p))
           /\ \A pw, scope : Same(p, RememberRoom(p, pw, scope))
           /\ \A pw : Same(p, SendAuth(p, pw))
           /\ \A f : Same(p, NoteLock(p, f))
           /\ \A files : Same(p, RenderFileList(p, files))
           /\ \A ver : Same(p, Noticed(p, ver))
BY DEF Same, IsPage, PageFields, ShowLock, HideLock, ScheduleFlush, ForgetEdit, ForgetRoom,
       RememberRoom, SendAuth, NoteLock, RenderFileList, Noticed

LEMMA SamePage ==
    ASSUME NEW p, NEW q, IsPage(p), Same(p, q)
    PROVE  IsPage(q)
BY DEF Same, IsPage

LEMMA RequestViewPasswordSame ==
    ASSUME NEW p, IsPage(p)
    PROVE  Same(p, RequestViewPassword(p))
BY SmallSteps DEF RequestViewPassword

LEMMA OnInvalidViewPasswordSame ==
    ASSUME NEW p, IsPage(p)
    PROVE  Same(p, OnInvalidViewPassword(p))
<1>1. Same(p, ForgetRoom(p)) /\ IsPage(ForgetRoom(p))
  BY SmallSteps, SamePage
<1> QED
  BY <1>1, SmallSteps, SameTwice DEF OnInvalidViewPassword

LEMMA SyncEditLockGateKeeps ==
    ASSUME NEW p, IsPage(p)
    PROVE  Keeps(p, SyncEditLockGate(p))
<1>1. Keeps(p, HideLock(p)) /\ Keeps(p, ShowLock(p))
  BY SmallSteps, SameKeeps
<1>2. Keeps(p, Fetch(p, "check", p.edit, None))
  BY FetchKeeps
<1> QED
  BY <1>1, <1>2 DEF SyncEditLockGate

LEMMA LoadFilesKeeps ==
    ASSUME NEW p, IsPage(p)
    PROVE  Keeps(p, LoadFiles(p)) /\ LoadFiles(p).modal = p.modal
<1>1. Keeps(p, LoadFiles(p))
  BY FetchKeeps DEF LoadFiles
<1> QED
  BY <1>1 DEF LoadFiles, Fetch, IsPage, PageFields

-----------------------------------------------------------------------------
(* The dialog                                                              *)

\* What a dialog holds.
Held(do, arg) == IF do = "upload" THEN {arg.batch} ELSE {}

LEMMA GivesUpKeeps ==
    ASSUME NEW p, NEW m, IsPage(p)
    PROVE  Keeps(p, GivesUp(p, m)) /\ GivesUp(p, m).modal = p.modal
<1>1. Same(p, [p EXCEPT !.own = FALSE])
  BY DEF Same, IsPage, PageFields
<1>2. Keeps(p, [p EXCEPT !.own = FALSE]) /\ [p EXCEPT !.own = FALSE].modal = p.modal
  BY <1>1, SameKeeps DEF Same
<1> QED
  BY <1>2, LoadFilesKeeps, KeepsItself DEF GivesUp

LEMMA AskLeaves ==
    ASSUME NEW p, NEW do, NEW arg, IsPage(p), IsDialog([do |-> do, arg |-> arg])
    PROVE  Leaves(p, Ask(p, do, arg), Held(do, arg))
<1> DEFINE g == GivesUp(p, p.modal)
           m == [do |-> do, arg |-> arg]
           q == Ask(p, do, arg)
<1>1. Keeps(p, g) /\ IsPage(g)
  BY GivesUpKeeps, KeepsPage
<1>2. q = [g EXCEPT !.modal = m]
  BY DEF Ask
<1>3. m.do = do /\ m.arg = arg /\ IsDialog(m)
  OBVIOUS
<1> HIDE DEF g, m, q
<1>4. DOMAIN q = PageFields /\ q.net = g.net /\ q.modal = m
  BY <1>1, <1>2 DEF IsPage, PageFields
<1>5. IsPage(q) /\ Asking(q) \subseteq Held(do, arg)
  BY <1>1, <1>3, <1>4 DEF IsPage, Asking, Held
<1>6. Carriers(q) = Carriers(g)
  BY <1>4 DEF Carriers
<1>7. Leaves(g, q, Held(do, arg))
  BY <1>4, <1>5, <1>6 DEF Leaves
<1> QED
  BY <1>1, <1>7, LeavesAfter DEF q

LEMMA ClosedLeaves ==
    ASSUME NEW p, IsPage(p)
    PROVE  /\ Leaves(p, [p EXCEPT !.modal = None], {})
           /\ [p EXCEPT !.modal = None].modal = None
BY DEF Leaves, IsPage, PageFields, Carriers, Asking

LEMMA DismissedKeeps ==
    ASSUME NEW p, IsPage(p), p.modal # None
    PROVE  Keeps(p, Dismissed(p))
<1> DEFINE q == [p EXCEPT !.modal = None]
           arg == [p.modal.arg EXCEPT !.stage = "file"]
<1>1. Leaves(p, q, {}) /\ IsPage(q) /\ q.modal = None
  BY ClosedLeaves DEF Leaves
<1>2. Keeps(p, q)
  BY <1>1 DEF Leaves, Keeps
<1>3. CASE p.modal.do = "upload" /\ p.modal.arg.stage = "admin" /\ p.on
  <2>1. IsDialog([do |-> "upload", arg |-> arg]) /\ arg.batch = p.modal.arg.batch
    BY <1>3 DEF IsPage, IsDialog
  <2>2. Dismissed(p) = Ask(q, "upload", arg)
    BY <1>3 DEF Dismissed
  <2>3. Held("upload", arg) = Asking(p)
    BY <1>3, <2>1 DEF Held, Asking
  <2> HIDE DEF arg, q
  <2> QED
    BY <1>1, <1>2, <2>1, <2>2, <2>3, AskLeaves, LeavesAfter DEF Keeps
<1>4. CASE ~(p.modal.do = "upload" /\ p.modal.arg.stage = "admin" /\ p.on)
  BY <1>1, <1>2, <1>4, GivesUpKeeps, KeepsTwice DEF Dismissed
<1> QED
  BY <1>3, <1>4

LEMMA AskOverLeaves ==
    ASSUME NEW p, NEW do, NEW arg, IsPage(p), IsDialog([do |-> do, arg |-> arg])
    PROVE  Leaves(p, AskOver(p, do, arg), Held(do, arg))
<1> DEFINE d == IF p.modal = None THEN p ELSE Dismissed(p)
<1>1. Keeps(p, d)
  BY DismissedKeeps, KeepsItself
<1>2. AskOver(p, do, arg) = Ask(d, do, arg)
  BY DEF AskOver
<1> HIDE DEF d
<1> QED
  BY <1>1, <1>2, KeepsPage, AskLeaves, LeavesAfter

LEMMA AskOverKeeps ==
    ASSUME NEW p, NEW do, NEW arg, IsPage(p), IsDialog([do |-> do, arg |-> arg]), do # "upload"
    PROVE  Keeps(p, AskOver(p, do, arg))
BY AskOverLeaves DEF Keeps, Leaves, Held

-----------------------------------------------------------------------------
(* What keeps the invariant                                                *)

LEMMA KeepsUploading ==
    ASSUME NEW rm, NEW p, NEW q, NEW n, Uploading(rm, p, n), Keeps(p, q)
    PROVE  Uploading(rm, q, n)
<1>1. Numbered(rm, q, n)
  BY DEF Uploading, Numbered, Keeps, Leaves
<1>2. OneHolder(q)
  BY DEF Uploading, OneHolder, Keeps, Leaves
<1>3. Behind(rm, q)
  BY DEF Uploading, Behind, Keeps, Leaves
<1> QED
  BY <1>1, <1>2, <1>3 DEF Uploading, Keeps, Leaves

LEMMA FewerLeft ==
    ASSUME NEW rm, NEW p, NEW n, NEW m \in Nat, Uploading(rm, p, n), m <= n
    PROVE  Uploading(rm, p, m)
<1>1. n \in Nat /\ IsPage(p) /\ IsRoom(rm)
  BY DEF Uploading
<1>2. \A r \in Carriers(p) : r.arg.batch \in Nat
  BY <1>1 DEF IsPage, IsRequest, Carriers
<1>3. \A b \in Asking(p) : b \in Nat
  BY <1>1 DEF IsPage, IsDialog, Asking
<1>4. \A f \in rm.files : f.batch \in Nat
  BY <1>1 DEF IsRoom
<1>5. Numbered(rm, p, m)
  BY <1>1, <1>2, <1>3, <1>4 DEF Uploading, Numbered
<1> QED
  BY <1>5 DEF Uploading

\* Files go, and a switch that is turned off is remembered.
LEMMA RoomUploading ==
    ASSUME NEW rm, NEW rn, NEW p, NEW n, Uploading(rm, p, n),
           DOMAIN rn = RoomFields, rn.shut \in BOOLEAN,
           rn.files \subseteq rm.files, rm.shut => rn.shut, rm.open => rn.open \/ rn.shut
    PROVE  Uploading(rn, p, n)
<1>1. IsRoom(rn)
  BY DEF Uploading, IsRoom
<1>2. Numbered(rn, p, n)
  BY DEF Uploading, Numbered
<1>3. Behind(rn, p)
  BY DEF Uploading, Behind, BehindRequest
<1>4. Once(rn)
  BY DEF Uploading, Once
<1> QED
  BY <1>1, <1>2, <1>3, <1>4 DEF Uploading

\* The dialog of a new batch.
LEMMA NewBatch ==
    ASSUME NEW rm, NEW p, NEW q, NEW n, Uploading(rm, p, n), n > 0, Leaves(p, q, {n})
    PROVE  Uploading(rm, q, n - 1)
<1>1. n \in Nat /\ IsPage(p) /\ IsRoom(rm) /\ IsPage(q) /\ n - 1 \in Nat
  BY DEF Uploading, Leaves
<1>2. \A r \in Carriers(p) : r.arg.batch \in Nat /\ r.arg.batch > n
  BY <1>1 DEF Uploading, Numbered, IsPage, IsRequest, Carriers
<1>3. \A f \in rm.files : f.batch \in Nat /\ (f.batch = 0 \/ f.batch > n)
  BY <1>1 DEF IsRoom, Uploading, Numbered
<1>4. Asking(q) \subseteq {n} /\ Carriers(q) \subseteq Carriers(p)
  BY DEF Leaves
<1>5. Numbered(rm, q, n - 1)
  BY <1>1, <1>2, <1>3, <1>4 DEF Numbered
<1>6. OneHolder(q)
  BY <1>1, <1>2, <1>4 DEF Uploading, OneHolder, Leaves
<1>7. Behind(rm, q)
  BY <1>1, <1>3, <1>4 DEF Uploading, Behind
<1> QED
  BY <1>1, <1>5, <1>6, <1>7 DEF Uploading

\* Nobody holds batch b.
Free(p, n, b) ==
    /\ b \in Nat /\ b > n
    /\ \A r \in Carriers(p) : r.arg.batch # b
    /\ b \notin Asking(p)

IsCarried(arg) ==
    /\ DOMAIN arg = {"admin", "filepw", "batch", "item"}
    /\ arg.batch \in Nat /\ arg.item \in Nat

\* What is stored of a batch that nobody holds is behind the file that is sent next.
Clears(rm, arg) ==
    rm.shut \/
    \A f \in rm.files :
        f.batch = arg.batch => f.item < arg.item /\ (arg.admin = "good" \/ rm.open)

\* A batch that nobody holds is carried on.
LEMMA CarriesOn ==
    ASSUME NEW rm, NEW p, NEW n, NEW pw, NEW arg,
           Uploading(rm, p, n), IsCarried(arg), Free(p, n, arg.batch), Clears(rm, arg)
    PROVE  Uploading(rm, Fetch(p, "upload", pw, arg), n)
<1> DEFINE x == [do |-> "upload", pw |-> pw, arg |-> arg, ans |-> Waits, seen |-> p.seen]
           q == Fetch(p, "upload", pw, arg)
<1>1. IsPage(p) /\ IsRoom(rm) /\ n \in Nat
  BY DEF Uploading
<1>2. DOMAIN q = PageFields /\ q.net = BagAdd(p.net, x) /\ q.modal = p.modal
  BY <1>1 DEF Fetch, IsPage, PageFields
<1>3. IsRequest(x) /\ x.do = "upload" /\ x.arg = arg /\ x.ans = Waits
  BY DEF IsRequest, IsCarried
<1> HIDE DEF x, q
<1>4. x \notin DOMAIN p.net
  BY <1>3 DEF Free, Carriers
<1>5. /\ DOMAIN q.net = DOMAIN p.net \cup {x}
      /\ q.net[x] = 1 /\ \A r \in DOMAIN p.net : q.net[r] = p.net[r]
  BY <1>2, <1>4 DEF BagAdd
<1>6. IsPage(q)
  BY <1>1, <1>2, <1>3, <1>5 DEF IsPage
<1>7. /\ Carriers(q) = Carriers(p) \cup {x} /\ q.net[x] = 1
      /\ \A r \in Carriers(p) : q.net[r] = p.net[r]
  BY <1>3, <1>5 DEF Carriers
<1>8. Asking(q) = Asking(p)
  BY <1>2 DEF Asking
<1>9. Numbered(rm, q, n)
  BY <1>3, <1>7, <1>8 DEF Uploading, Numbered, Free
<1>10. OneHolder(q)
  BY <1>3, <1>7, <1>8 DEF Uploading, OneHolder, Free
<1>11. Behind(rm, q)
  <2> SUFFICES ASSUME ~rm.shut, NEW f \in rm.files
               PROVE  /\ f.batch \notin Asking(q)
                      /\ \A r \in Carriers(q) :
                            r.arg.batch = f.batch => BehindRequest(rm, f, r)
    BY DEF Behind
  <2>1. /\ f.batch \notin Asking(p)
        /\ \A r \in Carriers(p) : r.arg.batch = f.batch => BehindRequest(rm, f, r)
    BY DEF Uploading, Behind
  <2>2. ASSUME x.arg.batch = f.batch
        PROVE  BehindRequest(rm, f, x)
    <3>1. f.item \in Nat /\ arg.item \in Nat
      BY <1>1 DEF IsRoom, IsCarried
    <3>2. f.item < arg.item /\ (arg.admin = "good" \/ rm.open)
      BY <1>3, <2>2 DEF Clears
    <3>3. x.ans.code # "admin"
      BY <1>3 DEF Waits
    <3> QED
      BY <1>3, <3>1, <3>2, <3>3 DEF BehindRequest
  <2> QED
    BY <1>7, <1>8, <2>1, <2>2
<1> QED
  BY <1>1, <1>6, <1>9, <1>10, <1>11 DEF Uploading, q

\* A batch that nobody holds, and of which nothing is stored, is asked for.
LEMMA AsksFor ==
    ASSUME NEW rm, NEW p, NEW q, NEW n, NEW b, Uploading(rm, p, n), Free(p, n, b),
           rm.shut \/ \A f \in rm.files : f.batch # b, Leaves(p, q, {b})
    PROVE  Uploading(rm, q, n)
<1>1. Numbered(rm, q, n)
  BY DEF Uploading, Numbered, Leaves, Free
<1>2. OneHolder(q)
  BY DEF Uploading, OneHolder, Leaves, Free
<1>3. Behind(rm, q)
  BY DEF Uploading, Behind, Leaves
<1> QED
  BY <1>1, <1>2, <1>3 DEF Uploading, Leaves

-----------------------------------------------------------------------------
(* The answer to a dialog                                                  *)

\* The first file of the batch of the dialog that was closed.
LEMMA BeginUploadStep ==
    ASSUME NEW rm, NEW p, NEW n, NEW a, Uploading(rm, p, n),
           a.batch \in Nat, Free(p, n, a.batch),
           rm.shut \/ \A f \in rm.files : f.batch # a.batch
    PROVE  Uploading(rm, BeginUpload(p, a), n)
<1> DEFINE q == [p EXCEPT !.admin = IF a.admin # None THEN a.admin ELSE @, !.filepw = a.filepw]
           arg == [admin |-> a.admin, filepw |-> a.filepw, batch |-> a.batch, item |-> 1]
<1>1. IsPage(p)
  BY DEF Uploading
<1>2. Same(p, q)
  BY <1>1 DEF Same, IsPage, PageFields
<1>3. IsCarried(arg) /\ arg.batch = a.batch
  BY DEF IsCarried
<1>4. BeginUpload(p, a) = Fetch(q, "upload", RoomPassword(p), arg)
  BY DEF BeginUpload
<1>5. Clears(rm, arg)
  BY <1>3 DEF Clears
<1> HIDE DEF q, arg
<1>6. Uploading(rm, q, n)
  BY <1>1, <1>2, SameKeeps, KeepsUploading
<1>7. Free(q, n, arg.batch)
  BY <1>2, <1>3 DEF Free, Same, Carriers, Asking
<1> QED
  BY <1>3, <1>4, <1>5, <1>6, <1>7, CarriesOn

LEMMA SubmittedKeeps ==
    ASSUME NEW p, NEW m, NEW v, NEW scope, IsPage(p), IsDialog(m), m.do # "upload"
    PROVE  Keeps(p, Submitted(p, m, v, scope))
<1> DEFINE a == m.arg
           own == [p EXCEPT !.own = @ \/ m.do = "set"]
           filepw == [p EXCEPT !.filepw = v]
           admin == [p EXCEPT !.admin = v]
<1>1. Same(p, own) /\ Same(p, filepw) /\ Same(p, admin) /\ Same(p, RememberRoom(p, v, p.scope))
  BY SmallSteps DEF Same, IsPage, PageFields
<1>2. IsPage(own) /\ IsPage(filepw) /\ IsPage(admin) /\ IsPage(RememberRoom(p, v, p.scope))
  BY <1>1, SamePage
<1>3. Keeps(p, own) /\ Keeps(p, filepw) /\ Keeps(p, admin) /\ Keeps(p, RememberRoom(p, v, p.scope))
  BY <1>1, SameKeeps
<1> HIDE DEF own, filepw, admin
<1>4. m.do \in RoomFlows \cup {"download", "delete", "toggle"}
  BY DEF IsDialog
<1>5. CASE m.do = "unlock"
  BY <1>5, FetchKeeps DEF Submitted
<1>6. CASE m.do \in {"set", "change"} /\ a = None
  <2>1. Keeps(own, Fetch(own, m.do, p.edit, [next |-> v, scope |-> scope]))
    BY <1>2, <1>6, FetchKeeps
  <2>2. Submitted(p, m, v, scope) = Fetch(own, m.do, p.edit, [next |-> v, scope |-> scope])
    BY <1>6 DEF Submitted, own
  <2> QED
    BY <2>1, <2>2, <1>3, KeepsTwice
<1>7. CASE m.do = "clear" \/ (m.do \in {"set", "change"} /\ a # None)
  BY <1>7, FetchKeeps DEF Submitted
<1>8. CASE m.do = "copy"
  BY <1>8, FetchKeeps DEF Submitted
<1>9. CASE m.do \in {"history", "archive"}
  <2>1. Keeps(RememberRoom(p, v, p.scope), Fetch(RememberRoom(p, v, p.scope), m.do, v, a))
    BY <1>2, <1>9, FetchKeeps
  <2>2. Submitted(p, m, v, scope) = Fetch(RememberRoom(p, v, p.scope), m.do, v, a)
    BY <1>9 DEF Submitted
  <2> QED
    BY <2>1, <2>2, <1>3, KeepsTwice
<1>10. CASE m.do = "download"
  <2> DEFINE pw == IF a.again THEN None ELSE RoomPassword(p)
  <2>1. Keeps(filepw, Fetch(filepw, "download", pw, [a EXCEPT !.key = v]))
    BY <1>2, FetchKeeps
  <2>2. Submitted(p, m, v, scope) = Fetch(filepw, "download", pw, [a EXCEPT !.key = v])
    BY <1>10 DEF Submitted, filepw
  <2> QED
    BY <2>1, <2>2, <1>3, KeepsTwice
<1>11. CASE m.do \in {"delete", "toggle"}
  <2>1. Keeps(admin, Fetch(admin, m.do, RoomPassword(p), [a EXCEPT !.key = v]))
    BY <1>2, <1>11, FetchKeeps
  <2>2. Submitted(p, m, v, scope) = Fetch(admin, m.do, RoomPassword(p), [a EXCEPT !.key = v])
    BY <1>11 DEF Submitted, admin
  <2> QED
    BY <2>1, <2>2, <1>3, KeepsTwice
<1> QED
  BY <1>4, <1>5, <1>6, <1>7, <1>8, <1>9, <1>10, <1>11 DEF RoomFlows

LEMMA SubmittedStep ==
    ASSUME NEW rm, NEW p, NEW n, NEW v, NEW scope, Uploading(rm, p, n), p.modal # None
    PROVE  Uploading(rm, Submitted([p EXCEPT !.modal = None], p.modal, v, scope), n)
<1> DEFINE c == [p EXCEPT !.modal = None]
           m == p.modal
           a == m.arg
           q == Submitted(c, m, v, scope)
<1>1. IsPage(p) /\ IsDialog(m)
  BY DEF Uploading, IsPage
<1>2. Leaves(p, c, {}) /\ Keeps(p, c) /\ IsPage(c) /\ Asking(c) = {}
  BY <1>1, ClosedLeaves DEF Leaves, Keeps
<1>3. Uploading(rm, c, n)
  BY <1>2, KeepsUploading
<1>4. CASE m.do # "upload"
  BY <1>1, <1>2, <1>3, <1>4, SubmittedKeeps, KeepsUploading
<1>5. CASE m.do = "upload"
  <2>1. Asking(p) = {a.batch} /\ a.batch \in Nat /\ a.batch > n
        /\ DOMAIN a = {"stage", "admin", "filepw", "batch"}
        /\ a.stage \in {"admin", "file", "again"}
    BY <1>1, <1>5 DEF Asking, IsDialog, Uploading, Numbered
  <2>2. Free(c, n, a.batch)
    BY <1>2, <2>1 DEF Free, Uploading, OneHolder, Leaves
  <2>3. rm.shut \/ \A f \in rm.files : f.batch # a.batch
    BY <2>1 DEF Uploading, Behind
  <2>4. CASE a.stage = "admin"
    <3> DEFINE b == [a EXCEPT !.stage = "file", !.admin = v]
    <3>1. IsDialog([do |-> "upload", arg |-> b]) /\ b.batch = a.batch
      BY <2>1 DEF IsDialog
    <3>2. q = Ask(c, "upload", b)
      BY <1>5, <2>4 DEF Submitted
    <3> HIDE DEF b
    <3>3. Leaves(c, q, {a.batch})
      BY <1>2, <3>1, <3>2, AskLeaves DEF Held
    <3> QED
      BY <1>3, <2>2, <2>3, <3>3, AsksFor
  <2>5. CASE a.stage = "file"
    <3> DEFINE b == [a EXCEPT !.filepw = v]
    <3>1. b.batch = a.batch /\ q = BeginUpload(c, b)
      BY <1>5, <2>1, <2>5 DEF Submitted
    <3> QED
      BY <1>3, <2>1, <2>2, <2>3, <3>1, BeginUploadStep
  <2>6. CASE a.stage = "again"
    <3> DEFINE b == [a EXCEPT !.admin = v]
    <3>1. b.batch = a.batch /\ q = BeginUpload(c, b)
      BY <1>5, <2>1, <2>6 DEF Submitted
    <3> QED
      BY <1>3, <2>1, <2>2, <2>3, <3>1, BeginUploadStep
  <2> QED
    BY <2>1, <2>4, <2>5, <2>6
<1> QED
  BY <1>4, <1>5

-----------------------------------------------------------------------------
(* Answers                                                                 *)

\* The page without the request it has the answer to.
Released(p, r, late) == [p EXCEPT !.net = BagRemove(@, r), !.late = late]

LEMMA ReleasedKeeps ==
    ASSUME NEW rm, NEW p, NEW n, NEW late, Uploading(rm, p, n), NEW r \in DOMAIN p.net
    PROVE  /\ Keeps(p, Released(p, r, late))
           /\ r.do = "upload" => Free(Released(p, r, late), n, r.arg.batch)
<1> DEFINE q == Released(p, r, late)
<1>1. IsPage(p) /\ OneHolder(p) /\ Numbered(rm, p, n)
  BY DEF Uploading
<1>2. DOMAIN q = PageFields /\ q.net = BagRemove(p.net, r) /\ q.modal = p.modal
  BY <1>1 DEF Released, IsPage, PageFields
<1> HIDE DEF q
<1>3. DOMAIN q.net \subseteq DOMAIN p.net
  BY <1>2 DEF BagRemove
<1>4. \A s \in DOMAIN q.net : s # r => q.net[s] = p.net[s]
  BY <1>2 DEF BagRemove
<1>5. p.net[r] = 1 => r \notin DOMAIN q.net
  BY <1>2 DEF BagRemove
<1>6. r.do = "upload" => r \in Carriers(p) /\ p.net[r] = 1
  BY <1>1 DEF OneHolder, Carriers
<1>7. IsPage(q)
  BY <1>1, <1>2, <1>3 DEF IsPage
<1>8. Carriers(q) \subseteq Carriers(p) \ {r}
  BY <1>3, <1>5, <1>6 DEF Carriers
<1>9. \A s \in Carriers(q) : q.net[s] = p.net[s]
  BY <1>4, <1>8 DEF Carriers
<1>10. Asking(q) = Asking(p)
  BY <1>2 DEF Asking
<1>11. Keeps(p, q)
  BY <1>7, <1>8, <1>9, <1>10 DEF Keeps, Leaves
<1>12. ASSUME r.do = "upload" PROVE Free(q, n, r.arg.batch)
  <2>1. r \in Carriers(p) /\ IsRequest(r)
    BY <1>1, <1>6, <1>12 DEF IsPage
  <2>2. r.arg.batch \in Nat /\ r.arg.batch > n /\ r.arg.batch \notin Asking(p)
    BY <1>1, <1>12, <2>1 DEF IsRequest, Numbered, OneHolder
  <2>3. \A s \in Carriers(q) : s.arg.batch # r.arg.batch
    BY <1>1, <1>8, <2>1 DEF OneHolder
  <2> QED
    BY <1>10, <2>2, <2>3 DEF Free
<1> QED
  BY <1>11, <1>12 DEF q

LEMMA UnlockedSame ==
    ASSUME NEW p, NEW r, IsPage(p)
    PROVE  Same(p, Unlocked(p, r)) /\ Same(p, ScheduleFlush(Unlocked(p, r)))
<1> DEFINE q == RememberRoom(p, r.pw, p.scope)
           s == [q EXCEPT !.own = TRUE]
<1>1. Same(p, q) /\ IsPage(q)
  BY SmallSteps, SamePage
<1>2. Same(q, s)
  BY <1>1 DEF Same, IsPage, PageFields
<1>3. Same(p, s) /\ IsPage(s)
  BY <1>1, <1>2, SameTwice, SamePage
<1>4. Unlocked(p, r) = HideLock(s)
  BY DEF Unlocked
<1> HIDE DEF q, s
<1>5. Same(p, Unlocked(p, r)) /\ IsPage(Unlocked(p, r))
  BY <1>3, <1>4, SmallSteps, SameTwice, SamePage
<1> QED
  BY <1>5, SmallSteps, SameTwice

LEMMA PanelAnsweredKeeps ==
    ASSUME NEW p, NEW r, IsPage(p)
    PROVE  Keeps(p, PanelAnswered(p, r))
<1> DEFINE u == Unlocked(p, r)
           q == ScheduleFlush(u)
<1>1. Keeps(p, u) /\ IsPage(u) /\ Keeps(p, q) /\ IsPage(q)
  BY UnlockedSame, SameKeeps, SamePage
<1> HIDE DEF u, q
<1>2. Keeps(p, RequestViewPassword(u))
  BY <1>1, RequestViewPasswordSame, SameKeeps, KeepsTwice
<1>3. Keeps(p, Fetch(q, "load", RoomPassword(q), [force |-> TRUE]))
  BY <1>1, FetchKeeps, KeepsTwice
<1> QED
  BY <1>2, <1>3 DEF PanelAnswered, u, q

LEMMA PasswordSetKeeps ==
    ASSUME NEW p, NEW r, IsPage(p)
    PROVE  Keeps(p, PasswordSet(p, r))
<1> DEFINE s == [p EXCEPT !.set = @ \/ r.do = "set", !.scope = r.arg.scope]
           q == RememberRoom(s, r.arg.next, r.arg.scope)
<1>1. Same(p, s)
  BY DEF Same, IsPage, PageFields
<1>2. IsPage(s)
  BY <1>1, SamePage
<1> HIDE DEF s
<1>3. Same(p, q) /\ IsPage(q)
  BY <1>1, <1>2, SmallSteps, SameTwice, SamePage
<1> HIDE DEF q
<1>4. Same(p, SendAuth(q, r.arg.next))
  BY <1>3, SmallSteps, SameTwice
<1> QED
  BY <1>3, <1>4, SameKeeps DEF PasswordSet, q, s

LEMMA LoadedKeeps ==
    ASSUME NEW p, NEW r, IsPage(p)
    PROVE  Keeps(p, Loaded(p, r))
<1> DEFINE s == NoteLock(p, r.ans)
           g == SyncEditLockGate(s)
           q == [g EXCEPT !.ver = r.ans.ver, !.ops = "none", !.shown = TRUE]
<1>1. Keeps(p, s) /\ IsPage(s)
  BY SmallSteps, SameKeeps, SamePage
<1> HIDE DEF s
<1>2. Keeps(p, g) /\ IsPage(g)
  BY <1>1, SyncEditLockGateKeeps, KeepsTwice, KeepsPage
<1> HIDE DEF g
<1>3. Same(g, q)
  BY <1>2 DEF Same, IsPage, PageFields
<1>4. Keeps(p, q)
  BY <1>2, <1>3, SameKeeps, KeepsTwice
<1> QED
  BY <1>4, KeepsItself DEF Loaded, g, s

LEMMA AcceptedKeeps ==
    ASSUME NEW p, NEW r, IsPage(p)
    PROVE  Keeps(p, Accepted(p, r))
<1>1. Keeps(p, ScheduleFlush(Unlocked(p, r)))
  BY UnlockedSame, SameKeeps
<1>2. Keeps(p, [ForgetRoom(p) EXCEPT !.set = FALSE, !.scope = ""])
  <2> DEFINE g == ForgetRoom(p)
             q == [g EXCEPT !.set = FALSE, !.scope = ""]
  <2>1. Same(p, g)
    BY SmallSteps
  <2> HIDE DEF g
  <2>2. Same(p, q)
    BY <2>1 DEF Same, PageFields
  <2> QED
    BY <2>2, SameKeeps DEF g
<1>3. Keeps(p, RememberRoom(p, r.pw, p.scope))
  BY SmallSteps, SameKeeps
<1>4. Keeps(p, RenderFileList([p EXCEPT !.on = r.ans.on], r.ans.files))
  <2> DEFINE q == [p EXCEPT !.on = r.ans.on]
  <2>1. Same(p, q)
    BY DEF Same, IsPage, PageFields
  <2> HIDE DEF q
  <2>2. Same(p, RenderFileList(q, r.ans.files))
    BY <2>1, SamePage, SmallSteps, SameTwice
  <2> QED
    BY <2>2, SameKeeps DEF q
<1>5. Keeps(p, LoadFiles([p EXCEPT !.on = r.arg.on]))
  <2> DEFINE q == [p EXCEPT !.on = r.arg.on]
  <2>1. Same(p, q)
    BY DEF Same, IsPage, PageFields
  <2> HIDE DEF q
  <2> QED
    BY <2>1, SameKeeps, SamePage, LoadFilesKeeps, KeepsTwice DEF q
<1> QED
  BY <1>1, <1>2, <1>3, <1>4, <1>5, PanelAnsweredKeeps, PasswordSetKeeps, LoadedKeeps,
     LoadFilesKeeps, KeepsItself DEF Accepted

LEMMA RefusedKeeps ==
    ASSUME NEW p, NEW r, IsPage(p), r.do # "upload"
    PROVE  Keeps(p, Refused(p, r))
<1> DEFINE own == [p EXCEPT !.own = FALSE]
           filepw == [p EXCEPT !.filepw = None]
           admin == [p EXCEPT !.admin = None]
<1>1. Same(p, own) /\ Same(p, filepw) /\ Same(p, admin)
  BY DEF Same, IsPage, PageFields
<1> HIDE DEF own, filepw, admin
<1>2. Keeps(p, own) /\ Keeps(p, filepw) /\ Keeps(p, admin) /\ IsPage(filepw) /\ IsPage(admin)
  BY <1>1, SameKeeps, SamePage
<1>3. ASSUME r.do \in {"set", "change", "clear"} PROVE Keeps(p, AskOver(p, r.do, r.arg))
  <2>1. IsDialog([do |-> r.do, arg |-> r.arg])
    BY <1>3 DEF IsDialog, RoomFlows
  <2> QED
    BY <2>1, AskOverKeeps
<1>4. Keeps(p, AskOver(p, "history", [again |-> TRUE]))
  <2>1. IsDialog([do |-> "history", arg |-> [again |-> TRUE]])
    BY DEF IsDialog, RoomFlows
  <2> QED
    BY <2>1, AskOverKeeps
<1>5. Keeps(p, AskOver(filepw, "download", [r.arg EXCEPT !.again = TRUE]))
  <2> DEFINE arg == [r.arg EXCEPT !.again = TRUE]
  <2> HIDE DEF arg
  <2>1. IsDialog([do |-> "download", arg |-> arg])
    BY DEF IsDialog, RoomFlows
  <2> QED
    BY <1>2, <2>1, AskOverKeeps, KeepsTwice DEF arg
<1>6. ASSUME r.do \in {"delete", "toggle"}
      PROVE  Keeps(p, AskOver(admin, r.do, [r.arg EXCEPT !.again = TRUE]))
  <2> DEFINE arg == [r.arg EXCEPT !.again = TRUE]
  <2> HIDE DEF arg
  <2>1. IsDialog([do |-> r.do, arg |-> arg])
    BY <1>6 DEF IsDialog, RoomFlows
  <2> QED
    BY <1>2, <2>1, AskOverKeeps, KeepsTwice DEF arg
<1> QED
  BY <1>2, <1>3, <1>4, <1>5, <1>6, KeepsItself DEF Refused, own, filepw, admin

LEMMA CheckedKeeps ==
    ASSUME NEW p, NEW r, IsPage(p)
    PROVE  Keeps(p, Checked(p, r))
<1>1. Same(p, ForgetRoom(p)) /\ IsPage(ForgetRoom(p))
  BY SmallSteps, SamePage
<1>2. Same(p, ShowLock(ForgetRoom(p))) /\ Same(p, HideLock(p))
  BY <1>1, SmallSteps, SameTwice
<1> QED
  BY <1>2, SameKeeps DEF Checked

\* An answer about a file of a batch: nobody holds the batch any more, and what is
\* stored of it is behind the request.
LEMMA UploadAnsweredStep ==
    ASSUME NEW rm, NEW p, NEW n, NEW r, Uploading(rm, p, n), IsRequest(r), r.do = "upload",
           Free(p, n, r.arg.batch),
           rm.shut \/ \A f \in rm.files : f.batch = r.arg.batch => BehindRequest(rm, f, r)
    PROVE  Uploading(rm, UploadAnswered(p, r), n)
<1>1. IsPage(p) /\ IsRoom(rm) /\ IsCarried(r.arg)
  BY DEF Uploading, IsRequest, IsCarried
<1>2. ASSUME r.ans.code = "admin" PROVE Uploading(rm, UploadAgain(p, r), n)
  <2> DEFINE a == [p EXCEPT !.admin = None]
             l == LoadFiles(a)
             arg == [stage |-> "again", admin |-> None, filepw |-> r.arg.filepw,
                     batch |-> r.arg.batch]
             q == AskOver(l, "upload", arg)
  <2>1. Same(p, a)
    BY <1>1 DEF Same, IsPage, PageFields
  <2> HIDE DEF a
  <2>2. Keeps(p, l) /\ IsPage(l)
    BY <1>1, <2>1, SameKeeps, SamePage, LoadFilesKeeps, KeepsTwice, KeepsPage
  <2>3. IsDialog([do |-> "upload", arg |-> arg]) /\ arg.batch = r.arg.batch
    BY <1>1 DEF IsDialog, IsCarried
  <2> HIDE DEF l, arg
  <2>4. Leaves(p, q, {r.arg.batch})
    BY <2>2, <2>3, AskOverLeaves, LeavesAfter DEF Held
  <2>5. rm.shut \/ \A f \in rm.files : f.batch # r.arg.batch
    BY <1>2 DEF BehindRequest
  <2>6. Uploading(rm, q, n)
    BY <2>4, <2>5, AsksFor
  <2> QED
    BY <2>6 DEF UploadAgain, q, l, a, arg
<1>3. Uploading(rm, UploadNext(p, r), n)
  <2> DEFINE arg == [r.arg EXCEPT !.item = @ + 1]
  <2>1. IsCarried(arg) /\ arg.batch = r.arg.batch /\ arg.item = r.arg.item + 1
        /\ arg.admin = r.arg.admin
    BY <1>1 DEF IsCarried
  <2> HIDE DEF arg
  <2>2. Clears(rm, arg)
    <3> SUFFICES ASSUME ~rm.shut, NEW f \in rm.files, f.batch = r.arg.batch
                 PROVE  f.item < arg.item /\ (arg.admin = "good" \/ rm.open)
      BY <2>1 DEF Clears
    <3>1. BehindRequest(rm, f, r) /\ f.item \in Nat /\ r.arg.item \in Nat
      BY <1>1 DEF IsRoom, IsCarried
    <3> QED
      BY <2>1, <3>1 DEF BehindRequest
  <2>3. Uploading(rm, Fetch(p, "upload", RoomPassword(p), arg), n)
    BY <2>1, <2>2, CarriesOn
  <2>4. Uploading(rm, LoadFiles(p), n)
    BY <1>1, LoadFilesKeeps, KeepsUploading
  <2> QED
    BY <2>3, <2>4 DEF UploadNext, arg
<1> QED
  BY <1>2, <1>3 DEF UploadAnswered

LEMMA HandledStep ==
    ASSUME NEW rm, NEW p, NEW n, NEW r \in DOMAIN p.net, NEW late, Uploading(rm, p, n)
    PROVE  Uploading(rm, Handled(Released(p, r, late), r), n)
<1> DEFINE q == Released(p, r, late)
<1>1. Keeps(p, q) /\ IsPage(q) /\ (r.do = "upload" => Free(q, n, r.arg.batch))
  BY ReleasedKeeps, KeepsPage
<1>2. Uploading(rm, q, n)
  BY <1>1, KeepsUploading
<1> HIDE DEF q
<1>3. CASE r.do = "upload"
  <2>1. IsRequest(r) /\ r \in Carriers(p)
    BY <1>3 DEF Uploading, IsPage, Carriers
  <2>2. rm.shut \/ \A f \in rm.files : f.batch = r.arg.batch => BehindRequest(rm, f, r)
    BY <2>1 DEF Uploading, Behind
  <2>3. Uploading(rm, UploadAnswered(q, r), n)
    BY <1>1, <1>2, <1>3, <2>1, <2>2, UploadAnsweredStep
  <2> QED
    BY <1>3, <2>3 DEF Handled, q
<1>4. CASE r.do # "upload"
  <2>1. Keeps(q, Handled(q, r))
    BY <1>1, <1>4, CheckedKeeps, AcceptedKeeps, RefusedKeeps DEF Handled
  <2> QED
    BY <1>2, <2>1, KeepsUploading DEF q
<1> QED
  BY <1>3, <1>4

-----------------------------------------------------------------------------
(* The server                                                              *)

\* A request is given an answer.
Given(p, r, ans) == [p EXCEPT !.net = BagAdd(BagRemove(@, r), [r EXCEPT !.ans = ans])]

LEMMA GivenKeeps ==
    ASSUME NEW p, NEW ans, IsPage(p), NEW r \in DOMAIN p.net, r.do # "upload"
    PROVE  Keeps(p, Given(p, r, ans))
<1> DEFINE q == Given(p, r, ans)
           s == [r EXCEPT !.ans = ans]
           b == BagRemove(p.net, r)
<1>1. IsRequest(r)
  BY DEF IsPage
<1>2. IsRequest(s) /\ s.do # "upload"
  BY <1>1 DEF IsRequest
<1>3. DOMAIN q = PageFields /\ q.net = BagAdd(b, s) /\ q.modal = p.modal
  BY DEF Given, IsPage, PageFields
<1> HIDE DEF q, s
<1>4. DOMAIN b \subseteq DOMAIN p.net /\ \A x \in DOMAIN b : x # r => b[x] = p.net[x]
  BY DEF BagRemove
<1> HIDE DEF b
<1>5. /\ DOMAIN q.net \subseteq DOMAIN p.net \cup {s}
      /\ \A x \in DOMAIN q.net : x # r /\ x # s => q.net[x] = p.net[x]
  BY <1>3, <1>4 DEF BagAdd
<1>6. IsPage(q)
  BY <1>2, <1>3, <1>5 DEF IsPage
<1>7. Carriers(q) \subseteq Carriers(p) /\ \A x \in Carriers(q) : q.net[x] = p.net[x]
  BY <1>2, <1>5 DEF Carriers
<1>8. Asking(q) = Asking(p)
  BY <1>3 DEF Asking
<1> QED
  BY <1>6, <1>7, <1>8 DEF Keeps, Leaves, q

LEMMA GivenCarrier ==
    ASSUME NEW p, NEW ans, IsPage(p), OneHolder(p), NEW r \in Carriers(p),
           NEW q, q = Given(p, r, ans), NEW s, s = [r EXCEPT !.ans = ans]
    PROVE  /\ IsPage(q) /\ Asking(q) = Asking(p) /\ s.arg = r.arg /\ s.ans = ans
           /\ Carriers(q) = (Carriers(p) \ {r}) \cup {s}
           /\ \A x \in Carriers(q) : q.net[x] = 1
<1> DEFINE b == BagRemove(p.net, r)
<1>1. IsRequest(r) /\ p.net[r] = 1 /\ r \in DOMAIN p.net /\ r.do = "upload"
  BY DEF IsPage, OneHolder, Carriers
<1>2. IsRequest(s) /\ s.do = "upload" /\ s.arg = r.arg /\ s.ans = ans
  BY <1>1 DEF IsRequest
<1>3. DOMAIN q = PageFields /\ q.net = BagAdd(b, s) /\ q.modal = p.modal
  BY DEF Given, IsPage, PageFields
<1>4. DOMAIN b = DOMAIN p.net \ {r} /\ \A x \in DOMAIN b : b[x] = p.net[x]
  BY <1>1 DEF BagRemove
<1> HIDE DEF b
<1>5. s \notin DOMAIN b
  BY <1>2, <1>4 DEF OneHolder, Carriers
<1>6. /\ DOMAIN q.net = (DOMAIN p.net \ {r}) \cup {s} /\ q.net[s] = 1
      /\ \A x \in DOMAIN p.net \ {r} : q.net[x] = p.net[x]
  BY <1>3, <1>4, <1>5 DEF BagAdd
<1>7. IsPage(q)
  BY <1>2, <1>3, <1>6 DEF IsPage
<1>8. Carriers(q) = (Carriers(p) \ {r}) \cup {s}
  BY <1>2, <1>4, <1>5, <1>6 DEF Carriers
<1>9. \A x \in Carriers(q) : q.net[x] = 1
  BY <1>6, <1>8 DEF Carriers, OneHolder
<1>10. Asking(q) = Asking(p)
  BY <1>3 DEF Asking
<1> QED
  BY <1>2, <1>7, <1>8, <1>9, <1>10

\* Of the holder's file, at most that one is new in the room.
LEMMA GivenStep ==
    ASSUME NEW rm, NEW rn, NEW p, NEW n, NEW ans, NEW r \in Carriers(p),
           Uploading(rm, p, n), IsRoom(rn), ans # Waits,
           rn.open = rm.open, rn.shut = rm.shut,
           ans.code = "admin" => r.ans.code = "admin" \/ (~rm.open /\ r.arg.admin # "good"),
           \A f \in rn.files :
              f \in rm.files \/ (/\ f.batch = r.arg.batch /\ f.item = r.arg.item
                                 /\ r.ans = Waits /\ ans.code # "admin"
                                 /\ r.arg.admin = "good" \/ rm.open),
           \A f, g \in rn.files : f \notin rm.files /\ g \notin rm.files => f = g
    PROVE  Uploading(rn, Given(p, r, ans), n)
<1> DEFINE q == Given(p, r, ans)
           s == [r EXCEPT !.ans = ans]
<1>1. IsPage(p) /\ OneHolder(p) /\ n \in Nat /\ IsRoom(rm)
  BY DEF Uploading
<1>2. q = Given(p, r, ans) /\ s = [r EXCEPT !.ans = ans]
  OBVIOUS
<1> HIDE DEF q, s
<1>3. /\ IsPage(q) /\ Asking(q) = Asking(p) /\ s.arg = r.arg /\ s.ans = ans
      /\ Carriers(q) = (Carriers(p) \ {r}) \cup {s}
      /\ \A x \in Carriers(q) : q.net[x] = 1
  BY <1>1, <1>2, GivenCarrier
<1>4. Numbered(rn, q, n)
  BY <1>3 DEF Uploading, Numbered
<1>5. OneHolder(q)
  BY <1>1, <1>3 DEF OneHolder
<1>6. \A f \in rn.files : f \notin rm.files => f.batch = r.arg.batch /\ f.item = r.arg.item
  OBVIOUS
<1>7. \A f \in rm.files : ~rm.shut /\ f.batch = r.arg.batch => BehindRequest(rm, f, r)
  BY DEF Uploading, Behind
<1>8. Behind(rn, q)
  <2> SUFFICES ASSUME ~rn.shut, NEW f \in rn.files
               PROVE  /\ f.batch \notin Asking(q)
                      /\ \A x \in Carriers(q) :
                            x.arg.batch = f.batch => BehindRequest(rn, f, x)
    BY DEF Behind
  <2>1. f.batch \notin Asking(q)
    BY <1>1, <1>3, <1>6 DEF Uploading, Behind, OneHolder
  <2>2. ASSUME NEW x \in Carriers(p) \ {r}, x.arg.batch = f.batch
        PROVE  BehindRequest(rn, f, x)
    <3>1. f \in rm.files
      BY <1>1, <1>6, <2>2 DEF OneHolder
    <3> QED
      BY <2>2, <3>1 DEF Uploading, Behind, BehindRequest
  <2>3. ASSUME s.arg.batch = f.batch
        PROVE  BehindRequest(rn, f, s)
    <3>1. CASE f \in rm.files
      <4>1. BehindRequest(rm, f, r)
        BY <1>3, <1>7, <2>3, <3>1
      <4> QED
        BY <1>3, <4>1 DEF BehindRequest
    <3>2. CASE f \notin rm.files
      <4>1. f.item = r.arg.item /\ f.item \in Nat
        BY <1>6, <3>2 DEF IsRoom
      <4> QED
        BY <1>3, <3>2, <4>1 DEF BehindRequest
    <3> QED
      BY <3>1, <3>2
  <2> QED
    BY <1>3, <2>1, <2>2, <2>3
<1>9. Once(rn)
  <2> SUFFICES ASSUME ~rn.shut, NEW f \in rn.files, NEW g \in rn.files,
                      f.batch = g.batch, f.item = g.item
               PROVE  f = g
    BY DEF Once
  <2>1. CASE f \in rm.files /\ g \in rm.files
    BY <2>1 DEF Uploading, Once
  <2>2. CASE f \notin rm.files /\ g \notin rm.files
    BY <2>2
  <2>3. CASE f \in rm.files /\ g \notin rm.files
    BY <1>7, <2>3 DEF BehindRequest
  <2>4. CASE f \notin rm.files /\ g \in rm.files
    BY <1>7, <2>4 DEF BehindRequest
  <2> QED
    BY <2>1, <2>2, <2>3, <2>4
<1> QED
  BY <1>1, <1>4, <1>5, <1>8, <1>9, <1>3 DEF Uploading, q

LEMMA CodeCases ==
    ASSUME NEW r
    PROVE  Code(r) \in {"refused", "ok", "view", "admin", "missing", "file"}
BY DEF Code

LEMMA AnswerCode ==
    ASSUME NEW r
    PROVE  Answer(r).code = Code(r) /\ Answer(r) # Waits
<1>1. Answer(r).code = Code(r)
  BY DEF Answer
<1> QED
  BY <1>1, CodeCases DEF Waits

LEMMA RelockedRoom ==
    ASSUME NEW next, NEW scope, DOMAIN room = RoomFields
    PROVE  LET rn == Relocked(next, scope)
           IN  /\ DOMAIN rn = RoomFields
               /\ rn.files = room.files /\ rn.open = room.open /\ rn.shut = room.shut
BY DEF Relocked, RoomFields

LEMMA KeptRoom ==
    ASSUME NEW files, DOMAIN room = RoomFields
    PROVE  /\ DOMAIN Kept(files) = RoomFields /\ Kept(files).files = files
           /\ Kept(files).open = room.open /\ Kept(files).shut = room.shut
BY DEF Kept, RoomFields

LEMMA ServeStep ==
    ASSUME PanelsInv, Serve
    PROVE  Uploading(room', page', left.files)
<1> DEFINE n == left.files
<1>1. Uploading(room, page, n) /\ IsRoom(room) /\ IsPage(page)
  BY DEF PanelsInv, Uploading
<1>2. PICK r \in DOMAIN page.net :
        /\ r.ans = Waits
        /\ page' = Given(page, r, Answer(r))
        /\ room' = IF Code(r) = "ok" THEN Effect(r) ELSE room
  BY DEF Serve, Replace, Given
<1> HIDE DEF n
<1>3. CASE r.do = "upload"
  <2>1. r \in Carriers(page) /\ IsRequest(r)
    BY <1>1, <1>2, <1>3 DEF Carriers, IsPage
  <2>2. Answer(r) # Waits /\ Answer(r).code = Code(r)
    BY AnswerCode
  <2>3. Code(r) = "admin" => ~room.open /\ r.arg.admin # "good"
    BY <1>3 DEF Code
  <2>4. Code(r) = "ok" => r.arg.admin = "good" \/ room.open
    BY <1>3 DEF Code
  <2> DEFINE f == [id |-> room.ids + 1, key |-> r.arg.filepw, batch |-> r.arg.batch,
                   item |-> r.arg.item]
             k == Kept(room.files \cup {f})
  <2>5. Effect(r) = [k EXCEPT !.ids = @ + 1]
    BY <1>3 DEF Effect
  <2>6. f.batch = r.arg.batch /\ f.item = r.arg.item /\ f.batch \in Nat /\ f.item \in Nat
    BY <1>3, <2>1 DEF IsRequest
  <2> HIDE DEF f
  <2>7. /\ DOMAIN k = RoomFields /\ k.files = room.files \cup {f}
        /\ k.open = room.open /\ k.shut = room.shut
    BY <1>1, KeptRoom DEF IsRoom
  <2> HIDE DEF k
  <2>8. /\ DOMAIN Effect(r) = RoomFields /\ Effect(r).files = room.files \cup {f}
        /\ Effect(r).open = room.open /\ Effect(r).shut = room.shut
    BY <2>5, <2>7 DEF RoomFields
  <2>9. IsRoom(Effect(r))
    BY <1>1, <2>6, <2>8 DEF IsRoom
  <2>10. CASE Code(r) = "ok"
    <3>1. room' = Effect(r)
      BY <1>2, <2>10
    <3> QED
      BY <1>1, <1>2, <2>1, <2>2, <2>4, <2>6, <2>8, <2>9, <2>10, <3>1, GivenStep DEF n
  <2>11. CASE Code(r) # "ok"
    <3>1. room' = room
      BY <1>2, <2>11
    <3> QED
      BY <1>1, <1>2, <2>1, <2>2, <2>3, <3>1, GivenStep DEF n
  <2> QED
    BY <2>10, <2>11
<1>4. CASE r.do # "upload"
  <2>1. Uploading(room, page', n)
    BY <1>1, <1>2, <1>4, GivenKeeps, KeepsUploading
  <2>2. DOMAIN room = RoomFields /\ room.shut \in BOOLEAN
    BY <1>1 DEF IsRoom
  <2>3. /\ DOMAIN Effect(r) = RoomFields /\ Effect(r).files \subseteq room.files
        /\ room.shut => Effect(r).shut
        /\ room.open => Effect(r).open \/ Effect(r).shut
        /\ Effect(r).shut \in BOOLEAN
    <3>1. CASE r.do \in {"set", "change", "clear"}
      BY <2>2, <3>1, RelockedRoom DEF Effect
    <3>2. CASE r.do = "delete"
      BY <2>2, <3>2, KeptRoom DEF Effect
    <3>3. CASE r.do = "toggle"
      BY <2>2, <3>3 DEF Effect, RoomFields
    <3>4. CASE r.do \notin {"set", "change", "clear", "delete", "toggle"}
      BY <1>4, <2>2, <3>4 DEF Effect
    <3> QED
      BY <3>1, <3>2, <3>3, <3>4
  <2>4. CASE room' = room
    BY <2>1, <2>4 DEF n
  <2>5. CASE room' = Effect(r)
    BY <2>1, <2>3, <2>5, RoomUploading DEF n
  <2> QED
    BY <1>2, <2>4, <2>5
<1> QED
  BY <1>3, <1>4

LEMMA LoseStep ==
    ASSUME PanelsInv, Lose
    PROVE  Uploading(room', page', left.files)
<1> DEFINE n == left.files
           ans == [code |-> "lost", ver |-> page.seen]
<1>1. Uploading(room, page, n) /\ IsRoom(room) /\ IsPage(page)
  BY DEF PanelsInv, Uploading
<1>2. PICK r \in DOMAIN page.net : page' = Given(page, r, ans)
  BY DEF Lose, Replace, Given
<1>3. room' = room
  BY DEF Lose
<1>4. ans # Waits /\ ans.code # "admin"
  BY DEF Waits
<1> HIDE DEF n, ans
<1>5. CASE r.do = "upload"
  <2>1. r \in Carriers(page)
    BY <1>5 DEF Carriers
  <2>2. Uploading(room, Given(page, r, ans), n)
    BY <1>1, <1>4, <2>1, GivenStep
  <2> QED
    BY <1>2, <1>3, <2>2 DEF n
<1>6. CASE r.do # "upload"
  BY <1>1, <1>2, <1>3, <1>6, GivenKeeps, KeepsUploading DEF n
<1> QED
  BY <1>5, <1>6

-----------------------------------------------------------------------------
(* Frames                                                                  *)

LEMMA WireOf ==
    ASSUME NEW w, NEW S, w \in Seq(S), \A f \in S : IsFrame(f)
    PROVE  IsWire(w)
<1>1. w \in [1 .. Len(w) -> S] /\ DOMAIN w = 1 .. Len(w) /\ Len(w) \in Nat
  OBVIOUS
<1> DEFINE W == {w[i] : i \in DOMAIN w}
<1>2. w \in [1 .. Len(w) -> W]
  BY <1>1
<1> HIDE DEF W
<1>3. w \in Seq(W)
  BY <1>1, <1>2, SeqDef
<1> QED
  BY <1>1, <1>3 DEF IsWire, W

LEMMA WiderSeq ==
    ASSUME NEW S, NEW T, S \subseteq T, NEW w \in Seq(S)
    PROVE  w \in Seq(T)
OBVIOUS

LEMMA WireJoins ==
    ASSUME NEW v, NEW w, IsWire(v), IsWire(w)
    PROVE  IsWire(v \o w)
<1> DEFINE V == {v[i] : i \in DOMAIN v}
           W == {w[i] : i \in DOMAIN w}
           S == V \cup W
<1>1. v \in Seq(V) /\ w \in Seq(W)
  BY DEF IsWire
<1>2. \A f \in S : IsFrame(f)
  BY DEF IsWire
<1> HIDE DEF V, W
<1>3. v \in Seq(S) /\ w \in Seq(S)
  BY <1>1, WiderSeq
<1> HIDE DEF S
<1>4. v \o w \in Seq(S)
  BY <1>3
<1> QED
  BY <1>2, <1>4, WireOf

LEMMA FramesWire ==
    ASSUME NEW forced, NEW authed, NEW sent, NEW told
    PROVE  IsWire(Frames(forced, authed, sent, told))
<1> DEFINE S == {StateFrame(authed), FilesFrame}
<1>1. \A f \in S : IsFrame(f)
  BY DEF IsFrame, StateFrame, FilesFrame
<1>2. StateFrame(authed) \in S /\ FilesFrame \in S
  OBVIOUS
<1> HIDE DEF S
<1> DEFINE a == IF forced \/ sent # room.ver THEN <<StateFrame(authed)>> ELSE << >>
           b == IF ~(Sealed /\ ~authed) /\ (forced \/ told # room.rev)
                THEN <<FilesFrame>> ELSE << >>
<1>3. a \in Seq(S) /\ b \in Seq(S)
  BY <1>2
<1>4. Frames(forced, authed, sent, told) = a \o b
  BY DEF Frames
<1> HIDE DEF a, b
<1>5. Frames(forced, authed, sent, told) \in Seq(S)
  BY <1>3, <1>4
<1> QED
  BY <1>1, <1>5, WireOf

LEMMA AckWire ==
    ASSUME NEW code \in {"ok", "invalid", "locked"}, IsWire(wire), Ack(code)
    PROVE  IsWire(wire')
<1> DEFINE f == [type |-> "ack", code |-> code]
           W == {wire[i] : i \in DOMAIN wire}
           S == W \cup {f}
<1>1. IsFrame(f)
  BY DEF IsFrame
<1>2. wire' = Append(wire, f) /\ wire \in Seq(W) /\ \A g \in W : IsFrame(g)
  BY DEF Ack, IsWire
<1> HIDE DEF f, W
<1>3. wire \in Seq(S) /\ f \in S /\ \A g \in S : IsFrame(g)
  BY <1>1, <1>2, WiderSeq
<1> HIDE DEF S
<1>4. wire' \in Seq(S)
  BY <1>2, <1>3
<1> QED
  BY <1>3, <1>4, WireOf

LEMMA WireTail ==
    ASSUME NEW w, IsWire(w), w # << >>
    PROVE  IsWire(Tail(w)) /\ IsFrame(Head(w))
<1> DEFINE W == {w[i] : i \in DOMAIN w}
<1>1. w \in Seq(W) /\ \A f \in W : IsFrame(f)
  BY DEF IsWire
<1> HIDE DEF W
<1>2. Tail(w) \in Seq(W) /\ Head(w) \in W
  BY <1>1
<1> QED
  BY <1>1, <1>2, WireOf

LEMMA HandleStateKeeps ==
    ASSUME NEW p, NEW f, IsPage(p)
    PROVE  Keeps(p, HandleState(p, f))
<1> DEFINE a == [p EXCEPT !.shown = TRUE]
           b == NoteLock(a, f)
           q == SyncEditLockGate(b)
           c == [q EXCEPT !.ver = f.ver]
<1>1. Same(p, a) /\ IsPage(a)
  BY SamePage DEF Same, IsPage, PageFields
<1> HIDE DEF a
<1>2. Keeps(p, b) /\ IsPage(b)
  BY <1>1, SmallSteps, SameTwice, SameKeeps, SamePage
<1> HIDE DEF b
<1>3. Keeps(p, q) /\ IsPage(q)
  BY <1>2, SyncEditLockGateKeeps, KeepsTwice, KeepsPage
<1> HIDE DEF q
<1>4. Keeps(p, RequestViewPassword(q))
  BY <1>3, RequestViewPasswordSame, SameKeeps, KeepsTwice
<1>5. Same(q, c) /\ IsPage(c)
  BY <1>3, SamePage DEF Same, IsPage, PageFields
<1> HIDE DEF c
<1>6. Same(q, ScheduleFlush(c))
  BY <1>5, SmallSteps, SameTwice
<1>7. Keeps(p, ScheduleFlush(c))
  BY <1>3, <1>6, SameKeeps, KeepsTwice
<1> QED
  BY <1>4, <1>7, KeepsItself DEF HandleState, a, b, q, c

LEMMA HandleAckKeeps ==
    ASSUME NEW p, NEW f, IsPage(p), f.code \in {"ok", "invalid", "locked"}
    PROVE  Keeps(p, HandleAck(p, f))
<1> DEFINE g == ForgetEdit(p)
           q == [g EXCEPT !.ops = IF @ = "sent" THEN "kept" ELSE @]
<1>1. Keeps(p, [p EXCEPT !.ops = IF @ = "sent" THEN "none" ELSE @])
  <2> DEFINE s == [p EXCEPT !.ops = IF @ = "sent" THEN "none" ELSE @]
  <2>1. Same(p, s)
    BY DEF Same, IsPage, PageFields
  <2> QED
    BY <2>1, SameKeeps
<1>2. Same(p, g) /\ IsPage(g)
  BY SmallSteps, SamePage
<1> HIDE DEF g
<1>3. Same(p, q) /\ IsPage(q)
  BY <1>2, SamePage DEF Same, IsPage, PageFields
<1> HIDE DEF q
<1>4. Keeps(p, ShowLock(q))
  BY <1>3, SmallSteps, SameTwice, SameKeeps
<1>5. Keeps(p, OnInvalidViewPassword(p))
  BY OnInvalidViewPasswordSame, SameKeeps
<1> QED
  BY <1>1, <1>4, <1>5 DEF HandleAck, q, g

LEMMA HandleRemoteFilesKeeps ==
    ASSUME NEW p, NEW f, IsPage(p)
    PROVE  Keeps(p, HandleRemoteFiles(p, f))
<1> DEFINE q == [p EXCEPT !.on = f.on]
<1>1. Same(p, q) /\ IsPage(q)
  BY SamePage DEF Same, IsPage, PageFields
<1> HIDE DEF q
<1> QED
  BY <1>1, SmallSteps, SameTwice, SameKeeps DEF HandleRemoteFiles, q

LEMMA DeliverStep ==
    ASSUME PanelsInv, Deliver
    PROVE  IsWire(wire') /\ Keeps(page, page')
<1>1. IsWire(wire) /\ IsPage(page) /\ wire # << >> /\ wire' = Tail(wire)
  BY DEF PanelsInv, Uploading, Deliver
<1> DEFINE f == Head(wire)
           q == Noticed(page, f.ver)
<1>2. IsWire(wire') /\ IsFrame(f)
  BY <1>1, WireTail
<1>3. page' = CASE f.type = "state" -> HandleState(q, f)
                [] f.type = "ack" -> HandleAck(page, f)
                [] f.type = "files" -> HandleRemoteFiles(page, f)
  BY DEF Deliver
<1>4. Same(page, q) /\ IsPage(q)
  BY <1>1, SmallSteps, SamePage
<1> HIDE DEF f, q
<1>5. Keeps(page, HandleState(q, f))
  BY <1>1, <1>4, SameKeeps, HandleStateKeeps, KeepsTwice
<1>6. f.type = "ack" => Keeps(page, HandleAck(page, f))
  BY <1>1, <1>2, HandleAckKeeps DEF IsFrame
<1>7. Keeps(page, HandleRemoteFiles(page, f))
  BY <1>1, HandleRemoteFilesKeeps
<1> QED
  BY <1>2, <1>3, <1>5, <1>6, <1>7 DEF IsFrame

-----------------------------------------------------------------------------
(* The steps                                                               *)

LEMMA BudgetStep ==
    ASSUME NEW kind \in {"locks", "switches", "asks", "files", "fails", "drops"},
           left \in BudgetType, left[kind] > 0, left' = [left EXCEPT ![kind] = @ - 1]
    PROVE  /\ left' \in BudgetType
           /\ left'.files \in Nat
           /\ kind = "files" => left.files > 0 /\ left'.files = left.files - 1
           /\ kind # "files" => left'.files = left.files
BY DEF BudgetType

\* What the user begins without a file to send.
LEMMA BeginStep ==
    ASSUME NEW kind \in {"asks", "files"}, NEW q, PanelsInv, Begin(kind, q), Keeps(page, q)
    PROVE  PanelsInv'
<1>1. left' \in BudgetType /\ left'.files \in Nat /\ left'.files <= left.files
  BY BudgetStep DEF PanelsInv, Begin, BudgetType
<1>2. Uploading(room, q, left.files)
  BY KeepsUploading DEF PanelsInv
<1>3. left.files \in Nat /\ page' = q /\ room' = room /\ wire' = wire
  BY DEF PanelsInv, Uploading, Begin
<1>4. Uploading(room', page', left'.files)
  BY <1>1, <1>2, <1>3, FewerLeft
<1> QED
  BY <1>1, <1>3, <1>4 DEF PanelsInv

LEMMA PromptUploadFilesStep ==
    ASSUME PanelsInv, PromptUploadFiles
    PROVE  PanelsInv'
<1> DEFINE arg == [stage |-> IF page.on THEN "file" ELSE "admin", admin |-> None,
                   filepw |-> None, batch |-> left.files]
           q == AskOver(page, "upload", arg)
<1>1. Begin("files", q)
  BY DEF PromptUploadFiles
<1>2. left' \in BudgetType /\ left.files > 0 /\ left'.files = left.files - 1
  BY <1>1, BudgetStep DEF PanelsInv, Begin
<1>3. IsPage(page) /\ left.files \in Nat /\ Uploading(room, page, left.files)
  BY DEF PanelsInv, Uploading
<1>4. IsDialog([do |-> "upload", arg |-> arg]) /\ arg.batch = left.files
  BY <1>3 DEF IsDialog
<1> HIDE DEF arg
<1>5. Leaves(page, q, {left.files})
  BY <1>3, <1>4, AskOverLeaves DEF Held
<1>6. page' = q /\ room' = room /\ wire' = wire
  BY <1>1 DEF Begin
<1> HIDE DEF q
<1>7. Uploading(room', page', left'.files)
  BY <1>2, <1>3, <1>5, <1>6, NewBatch
<1> QED
  BY <1>2, <1>6, <1>7 DEF PanelsInv

LEMMA AskKeeps ==
    ASSUME NEW p, NEW do, NEW arg, IsPage(p), do # "upload",
           do \in RoomFlows \cup {"download", "delete", "toggle"}
    PROVE  Keeps(p, Ask(p, do, arg))
<1>1. IsDialog([do |-> do, arg |-> arg])
  BY DEF IsDialog
<1>2. Leaves(p, Ask(p, do, arg), {})
  BY <1>1, AskLeaves DEF Held
<1> QED
  BY <1>2 DEF Leaves, Keeps

LEMMA UserStep ==
    ASSUME PanelsInv, User
    PROVE  PanelsInv'
<1>1. IsPage(page) /\ Uploading(room, page, left.files) /\ left \in BudgetType /\ IsWire(wire)
  BY DEF PanelsInv, Uploading
<1>2. CASE SubmitRoomLock
  <2>1. PICK pw \in Passwords : Begin("asks", Fetch(page, "panel", pw, None))
    BY <1>2 DEF SubmitRoomLock
  <2> QED
    BY <1>1, <2>1, FetchKeeps, BeginStep
<1>3. CASE PromptEditUnlock
  <2>1. Keeps(page, Ask(page, "unlock", None))
    BY <1>1, AskKeeps DEF RoomFlows
  <2> QED
    BY <1>3, <2>1, BeginStep DEF PromptEditUnlock
<1>4. CASE OpenRoomPasswordDialog
  <2> DEFINE do == IF page.set THEN "change" ELSE "set"
  <2>1. do \in RoomFlows /\ do # "upload"
    BY DEF RoomFlows
  <2>2. Begin("asks", Ask(page, do, None))
    BY <1>4 DEF OpenRoomPasswordDialog
  <2> HIDE DEF do
  <2>3. Keeps(page, Ask(page, do, None))
    BY <1>1, <2>1, AskKeeps
  <2> QED
    BY <2>2, <2>3, BeginStep
<1>5. CASE UnlockRoom
  <2> DEFINE arg == [next |-> None, scope |-> ""]
  <2>1. Begin("asks", Fetch(page, "clear", page.edit, arg))
    BY <1>5 DEF UnlockRoom
  <2> QED
    BY <1>1, <2>1, FetchKeeps, BeginStep
<1>6. CASE CopyPassword
  <2>1. Keeps(page, Ask(page, "copy", None))
    BY <1>1, AskKeeps DEF RoomFlows
  <2> QED
    BY <1>6, <2>1, BeginStep DEF CopyPassword
<1>7. CASE History
  <2> DEFINE arg == [again |-> FALSE]
  <2> HIDE DEF arg
  <2>1. PICK do \in {"history", "archive"} :
          Begin("asks", IF page.set /\ RoomPassword(page) = None
                        THEN Ask(page, do, arg)
                        ELSE Fetch(page, do, RoomPassword(page), arg))
    BY <1>7 DEF History, arg
  <2>2. Keeps(page, Ask(page, do, arg))
    BY <1>1, AskKeeps DEF RoomFlows
  <2>3. Keeps(page, Fetch(page, do, RoomPassword(page), arg))
    BY <1>1, FetchKeeps
  <2>4. CASE page.set /\ RoomPassword(page) = None
    BY <2>1, <2>2, <2>4, BeginStep
  <2>5. CASE ~(page.set /\ RoomPassword(page) = None)
    BY <2>1, <2>3, <2>5, BeginStep
  <2> QED
    BY <2>4, <2>5
<1>8. CASE PromptUploadFiles
  BY <1>8, PromptUploadFilesStep
<1>9. CASE DownloadFile
  <2>1. PICK id \in page.listed :
          Begin("files", Ask(page, "download", [id |-> id, key |-> None, again |-> FALSE]))
    BY <1>9 DEF DownloadFile
  <2>2. Keeps(page, Ask(page, "download", [id |-> id, key |-> None, again |-> FALSE]))
    BY <1>1, AskKeeps
  <2> QED
    BY <2>1, <2>2, BeginStep
<1>10. CASE DeleteFile
  <2>1. PICK id \in page.listed :
          Begin("files", Ask(page, "delete", [id |-> id, key |-> None, again |-> FALSE]))
    BY <1>10 DEF DeleteFile
  <2>2. Keeps(page, Ask(page, "delete", [id |-> id, key |-> None, again |-> FALSE]))
    BY <1>1, AskKeeps
  <2> QED
    BY <2>1, <2>2, BeginStep
<1>11. CASE ToggleRoomFileUpload
  <2>1. Keeps(page, Ask(page, "toggle", [on |-> ~page.on, key |-> None, again |-> FALSE]))
    BY <1>1, AskKeeps
  <2> QED
    BY <1>11, <2>1, BeginStep DEF ToggleRoomFileUpload
<1>12. CASE Type
  <2> DEFINE q == [page EXCEPT !.ops = "due"]
  <2>1. Same(page, q)
    BY <1>1 DEF Same, IsPage, PageFields
  <2>2. Begin("asks", q)
    BY <1>12 DEF Type
  <2> HIDE DEF q
  <2> QED
    BY <1>1, <2>1, <2>2, SameKeeps, BeginStep
<1>13. CASE Submit
  <2>1. PICK v, scope : page' = Submitted([page EXCEPT !.modal = None], page.modal, v, scope)
    BY <1>13 DEF Submit
  <2>2. page.modal # None /\ room' = room /\ wire' = wire /\ left' = left
    BY <1>13 DEF Submit
  <2>3. Uploading(room, page', left.files)
    BY <1>1, <2>1, <2>2, SubmittedStep
  <2> QED
    BY <1>1, <2>2, <2>3 DEF PanelsInv
<1>14. CASE Cancel
  <2>1. page.modal # None /\ page' = Dismissed(page) /\ room' = room /\ wire' = wire
        /\ left' = left
    BY <1>14 DEF Cancel
  <2>2. Uploading(room, page', left.files)
    BY <1>1, <2>1, DismissedKeeps, KeepsUploading
  <2> QED
    BY <1>1, <2>1, <2>2 DEF PanelsInv
<1> QED
  BY <1>2, <1>3, <1>4, <1>5, <1>6, <1>7, <1>8, <1>9, <1>10, <1>11, <1>12, <1>13, <1>14 DEF User

LEMMA ServerStep ==
    ASSUME PanelsInv, Server
    PROVE  PanelsInv'
<1>1. /\ IsPage(page) /\ IsRoom(room) /\ Uploading(room, page, left.files)
      /\ left \in BudgetType /\ IsWire(wire)
  BY DEF PanelsInv, Uploading
<1>2. CASE Serve
  <2>1. wire' = wire /\ left' = left
    BY <1>2 DEF Serve
  <2> QED
    BY <1>1, <1>2, <2>1, ServeStep DEF PanelsInv
<1>3. CASE Lose
  <2>1. wire' = wire /\ left.fails > 0 /\ left' = [left EXCEPT !.fails = @ - 1]
    BY <1>3 DEF Lose
  <2>2. left' \in BudgetType /\ left'.files = left.files
    BY <1>1, <2>1, BudgetStep
  <2> QED
    BY <1>1, <1>3, <2>1, <2>2, LoseStep DEF PanelsInv
<1>4. CASE OthersLock
  <2>1. PICK next, scope : room' = Relocked(next, scope)
    BY <1>4 DEF OthersLock
  <2>2. wire' = wire /\ page' = page /\ left.locks > 0 /\ left' = [left EXCEPT !.locks = @ - 1]
    BY <1>4 DEF OthersLock
  <2>3. left' \in BudgetType /\ left'.files = left.files
    BY <1>1, <2>2, BudgetStep
  <2>4. /\ DOMAIN room' = RoomFields /\ room'.files = room.files
        /\ room'.open = room.open /\ room'.shut = room.shut
    BY <1>1, <2>1, RelockedRoom DEF IsRoom
  <2>5. Uploading(room', page, left.files)
    BY <1>1, <2>4, RoomUploading DEF IsRoom
  <2> QED
    BY <1>1, <2>2, <2>3, <2>5 DEF PanelsInv
<1>5. CASE OthersFiles
  <2>1. wire' = wire /\ page' = page /\ left.switches > 0
        /\ left' = [left EXCEPT !.switches = @ - 1]
    BY <1>5 DEF OthersFiles
  <2>2. left' \in BudgetType /\ left'.files = left.files
    BY <1>1, <2>1, BudgetStep
  <2>3. CASE \E f \in room.files : room' = Kept(room.files \ {f})
    <3>1. /\ DOMAIN room' = RoomFields /\ room'.files \subseteq room.files
          /\ room'.open = room.open /\ room'.shut = room.shut
      BY <1>1, <2>3, KeptRoom DEF IsRoom
    <3>2. Uploading(room', page, left.files)
      BY <1>1, <3>1, RoomUploading DEF IsRoom
    <3> QED
      BY <1>1, <2>1, <2>2, <3>2 DEF PanelsInv
  <2>4. CASE room' = [room EXCEPT !.open = ~@, !.rev = @ + 1, !.shut = @ \/ room.open]
    <3>1. /\ DOMAIN room' = RoomFields /\ room'.files = room.files
          /\ room'.shut = (room.shut \/ room.open)
      BY <1>1, <2>4 DEF IsRoom, RoomFields
    <3>2. Uploading(room', page, left.files)
      BY <1>1, <3>1, RoomUploading DEF IsRoom
    <3> QED
      BY <1>1, <2>1, <2>2, <3>2 DEF PanelsInv
  <2> QED
    BY <1>5, <2>3, <2>4 DEF OthersFiles
<1>6. CASE Push
  <2>1. PICK forced, authed, sent, told : wire' = wire \o Frames(forced, authed, sent, told)
    BY <1>6 DEF Push
  <2>2. room' = room /\ page' = page /\ left' = left
    BY <1>6 DEF Push
  <2>3. IsWire(wire')
    BY <1>1, <2>1, FramesWire, WireJoins
  <2> QED
    BY <1>1, <2>2, <2>3 DEF PanelsInv
<1>7. CASE Receive
  <2>1. IsWire(wire')
    BY <1>1, <1>7, AckWire DEF Receive, Authenticate
  <2>2. page' = [page EXCEPT !.up = Tail(@)] /\ room' = room /\ left' = left
    BY <1>7 DEF Receive
  <2>3. Same(page, page')
    BY <1>1, <2>2 DEF Same, IsPage, PageFields
  <2>4. Uploading(room, page', left.files)
    BY <1>1, <2>3, SameKeeps, KeepsUploading
  <2> QED
    BY <1>1, <2>1, <2>2, <2>4 DEF PanelsInv
<1>8. CASE Connect
  <2>1. wire' = Frames(TRUE, FALSE, 0, 0) /\ room' = room /\ page' = page /\ left' = left
    BY <1>8 DEF Connect
  <2> QED
    BY <1>1, <2>1, FramesWire DEF PanelsInv
<1>9. CASE Disconnect
  <2>1. /\ wire' = << >> /\ room' = room
        /\ page' = [page EXCEPT !.up = << >>, !.ops = IF @ = "sent" THEN "kept" ELSE @]
        /\ left.drops > 0 /\ left' = [left EXCEPT !.drops = @ - 1]
    BY <1>9 DEF Disconnect
  <2>2. left' \in BudgetType /\ left'.files = left.files
    BY <1>1, <2>1, BudgetStep
  <2>3. Same(page, page')
    BY <1>1, <2>1 DEF Same, IsPage, PageFields
  <2>4. Uploading(room, page', left.files)
    BY <1>1, <2>3, SameKeeps, KeepsUploading
  <2>5. IsWire(wire')
    BY <2>1 DEF IsWire
  <2> QED
    BY <2>1, <2>2, <2>4, <2>5 DEF PanelsInv
<1> QED
  BY <1>2, <1>3, <1>4, <1>5, <1>6, <1>7, <1>8, <1>9 DEF Server

LEMMA NextStep ==
    ASSUME PanelsInv, [Next]_vars
    PROVE  PanelsInv'
<1>1. /\ IsPage(page) /\ Uploading(room, page, left.files)
      /\ left \in BudgetType /\ IsWire(wire)
  BY DEF PanelsInv, Uploading
<1>2. CASE User
  BY <1>2, UserStep
<1>3. CASE Server
  BY <1>3, ServerStep
<1>4. CASE FlushPending
  <2>1. page' = [page EXCEPT !.ops = "sent",
                             !.up = Append(@, [type |-> "ops", pw |-> RoomPassword(page)])]
        /\ room' = room /\ wire' = wire /\ left' = left
    BY <1>4 DEF FlushPending
  <2>2. Same(page, page')
    BY <1>1, <2>1 DEF Same, IsPage, PageFields
  <2> QED
    BY <1>1, <2>1, <2>2, SameKeeps, KeepsUploading DEF PanelsInv
<1>5. CASE Poll
  <2>1. page' = LoadFiles(page) /\ room' = room /\ wire' = wire /\ left' = left
    BY <1>5 DEF Poll
  <2> QED
    BY <1>1, <2>1, LoadFilesKeeps, KeepsUploading DEF PanelsInv
<1>6. CASE Deliver
  <2>1. room' = room /\ left' = left
    BY <1>6 DEF Deliver
  <2> QED
    BY <1>1, <1>6, <2>1, DeliverStep, KeepsUploading DEF PanelsInv
<1>7. CASE Answered
  <2>1. PICK r \in DOMAIN page.net :
          page' = Handled(Released(page, r, page.late \/ Late(page, r)), r)
    BY <1>7 DEF Answered, Released
  <2>2. room' = room /\ wire' = wire /\ left' = left
    BY <1>7 DEF Answered
  <2>3. Uploading(room, page', left.files)
    BY <1>1, <2>1, HandledStep
  <2> QED
    BY <1>1, <2>2, <2>3 DEF PanelsInv
<1>8. CASE UNCHANGED vars
  BY <1>8 DEF vars, PanelsInv
<1> QED
  BY <1>2, <1>3, <1>4, <1>5, <1>6, <1>7, <1>8 DEF Next

LEMMA InitStep ==
    ASSUME Init
    PROVE  PanelsInv
<1>1. PICK s \in Scenarios :
        /\ room = [pw |-> s.lock.pw, scope |-> s.lock.scope,
                   cred |-> IF s.lock.pw = None THEN 0 ELSE 1, ver |-> 1,
                   files |-> {[id |-> 1, key |-> "good", batch |-> 0, item |-> 1]}, ids |-> 1,
                   open |-> s.open, rev |-> 1, shut |-> FALSE]
        /\ wire = << >>
        /\ left = s.left
        /\ page = Fetch(IF s.left.polled THEN LoadFiles(Start(s.edit)) ELSE Start(s.edit),
                        "load", s.edit, [force |-> FALSE])
  BY DEF Init
<1>2. left \in BudgetType /\ left.files \in Nat
  BY <1>1, PanelsAssumption DEF ScenarioType, BudgetType
<1>3. IsWire(wire)
  BY <1>1 DEF IsWire
<1> DEFINE q == Start(s.edit)
           f == [id |-> 1, key |-> "good", batch |-> 0, item |-> 1]
<1>4. DOMAIN q = PageFields /\ q.net = EmptyBag /\ q.modal = None
  BY DEF Start, PageFields
<1>5. DOMAIN EmptyBag = {}
  BY DEF EmptyBag, SetToBag
<1> HIDE DEF q
<1>6. IsPage(q) /\ Carriers(q) = {} /\ Asking(q) = {}
  BY <1>4, <1>5 DEF IsPage, Carriers, Asking
<1>7. DOMAIN room = RoomFields /\ room.files = {f} /\ room.shut = FALSE
  BY <1>1 DEF RoomFields
<1>8. f.batch = 0 /\ f.item = 1
  OBVIOUS
<1> HIDE DEF f
<1>9. Uploading(room, q, left.files)
  <2>1. Once(room)
    BY <1>7 DEF Once
  <2>3. \A x \in room.files : x = f
    BY <1>7
  <2>4. IsRoom(room)
    <3>1. room.shut \in BOOLEAN
      BY <1>7
    <3>2. f.batch \in Nat /\ f.item \in Nat
      BY <1>8
    <3>3. \A x \in room.files : x.batch \in Nat /\ x.item \in Nat
      BY <2>3, <3>2, Zenon
    <3> QED
      BY <1>7, <3>1, <3>3 DEF IsRoom
  <2>2. Numbered(room, q, left.files) /\ OneHolder(q) /\ Behind(room, q)
    BY <1>6, <1>7, <1>8 DEF Numbered, OneHolder, Behind
  <2> QED
    BY <1>2, <1>6, <2>1, <2>2, <2>4 DEF Uploading
<1>10. Keeps(q, page)
  <2> DEFINE l == IF s.left.polled THEN LoadFiles(q) ELSE q
  <2>1. Keeps(q, l) /\ IsPage(l)
    BY <1>6, LoadFilesKeeps, KeepsItself, KeepsPage
  <2>2. page = Fetch(l, "load", s.edit, [force |-> FALSE])
    BY <1>1 DEF q
  <2> HIDE DEF l
  <2> QED
    BY <2>1, <2>2, FetchKeeps, KeepsTwice
<1> QED
  BY <1>2, <1>3, <1>9, <1>10, KeepsUploading DEF PanelsInv

-----------------------------------------------------------------------------
(* The gate: the invariant                                                 *)

AuthedIn(rm, ss) == ss.cred # 0 /\ ss.cred = rm.cred

IsLock(rm) ==
    /\ rm.ver \in Nat /\ rm.scope \in {"", "edit", "view"}
    /\ rm.pw = None <=> rm.scope = ""
    /\ rm.pw # None => rm.cred # 0

\* The change of the lock that a request or a dialog carries.
IsChange(do, arg) ==
    /\ do \in {"set", "change"} => arg.next # None /\ arg.scope \in Scopes
    /\ do = "clear" => arg.next = None

DialogFits(m) == m # None /\ (m.do = "clear" \/ m.arg # None) => IsChange(m.do, m.arg)

\* A request n versions of the lock after the first.
Asked(r, n) ==
    /\ r.seen \in Nat /\ r.seen <= n
    /\ r.do \in {"panel", "unlock", "copy"} => r.pw # None
    /\ IsChange(r.do, r.arg)

\* What an answer says of the lock was so, and is so if the lock did not change.
AnswerFits(rm, r) ==
    r.ans.code = "ok" =>
        /\ r.do \in {"set", "change", "clear", "load"} => r.ans.ver \in Nat /\ r.ans.ver <= rm.ver
        /\ r.do = "load" /\ r.seen = rm.ver => r.ans.ver = rm.ver
        /\ r.do = "load" /\ r.ans.ver = rm.ver =>
              (r.ans.set <=> rm.pw # None) /\ r.ans.scope = rm.scope
        /\ r.do \in {"set", "change"} /\ r.ans.ver = rm.ver =>
              rm.pw # None /\ rm.scope = r.arg.scope
        /\ r.do = "clear" /\ r.ans.ver = rm.ver => rm.pw = None

\* A state frame that tells the lock as it is; acks that shut the gate.
Now(rm, f) == f.type = "state" /\ f.ver = rm.ver
Bad(f) == f.type = "ack" /\ f.code \in {"invalid", "locked"}

FrameFits(rm, ss, f) ==
    f.type = "state" =>
        /\ f.ver \in Nat /\ f.ver <= rm.ver
        /\ f.required => f.scope = "view"
        /\ f.ver = rm.ver =>
             /\ f.set <=> rm.pw # None
             /\ f.scope = rm.scope
             /\ rm.scope = "view" /\ ~f.required => AuthedIn(rm, ss)

\* A frame that comes after the page has heard of the lock.
Fresh(rm, f) == (f.type = "state" => f.ver = rm.ver) /\ (Bad(f) => rm.pw # None)

WireFits(rm, ss, w, seen) ==
    \A i \in DOMAIN w :
        /\ FrameFits(rm, ss, w[i])
        /\ seen = rm.ver \/ (\E j \in DOMAIN w : j < i /\ Now(rm, w[j])) => Fresh(rm, w[i])

Told(rm, w) == \E i \in DOMAIN w : Now(rm, w[i])
Invalid(w) == \E i \in DOMAIN w : w[i].type = "ack" /\ w[i].code = "invalid"
Auths(up) == \E i \in DOMAIN up : up[i].type = "auth"

\* The page of an open session has heard of the lock, or is about to.
SessionFits(rm, ss, w, p) ==
    /\ DOMAIN ss = {"open", "cred", "authed", "ring", "sent", "told"}
    /\ ss.sent \in Nat /\ ss.sent <= rm.ver
    /\ ~ss.open => w = << >> /\ p.up = << >>
    /\ ss.open => p.seen = rm.ver \/ ss.sent # rm.ver \/ Told(rm, w)

IsUp(u) == u \in Seq({u[i] : i \in DOMAIN u})

Linked(rm, ss, w, p) ==
    /\ DOMAIN p = PageFields
    /\ IsLock(rm)
    /\ IsUp(p.up)
    /\ p.seen \in Nat /\ p.seen <= rm.ver
    /\ p.ver \in Nat /\ p.ver <= rm.ver
    /\ \A r \in DOMAIN p.net : Asked(r, p.seen) /\ AnswerFits(rm, r)
    /\ DialogFits(p.modal)
    /\ WireFits(rm, ss, w, p.seen)
    /\ SessionFits(rm, ss, w, p)

\* The page shows the lock it has heard of.
Heard(rm, p) == p.seen = rm.ver => (p.set <=> rm.pw # None) /\ p.scope = rm.scope

Gated(rm, p) ==
    p.seen = rm.ver =>
        /\ rm.pw = None => p.gate = "open"
        /\ rm.scope = "edit" /\ p.gate = "open" => p.edit # None

AsksFit(rm, p) ==
    \A r \in DOMAIN p.net :
        /\ r.do = "check" => p.edit # None /\ (r.seen = rm.ver => rm.scope = "edit")
        /\ r.do = "load" /\ r.seen = rm.ver => rm.scope # "view"

\* A sealed room is behind the panel, or something is on its way that decides it.
SealFits(rm, ss, w, p) ==
    p.seen = rm.ver /\ ss.open /\ rm.scope = "view" /\ ~AuthedIn(rm, ss) =>
        p.gate = "panel" \/ Auths(p.up) \/ Invalid(w) \/ Told(rm, w)

Pending(rm, ss, w, p) ==
    ss.sent # rm.ver \/ ss.ring \/ Told(rm, w) \/ Invalid(w) \/ (Auths(p.up) /\ rm.scope = "view")

Checking(rm, p) == \E r \in DOMAIN p.net : r.do = "check" /\ r.seen = rm.ver

\* A kept batch is behind the gate, or something is on its way that sends it.
KeptFits(rm, ss, w, p) ==
    p.ops = "kept" /\ ss.open /\ (p.gate = "open" \/ Checking(rm, p)) => Pending(rm, ss, w, p)

\* What an answer that came late may break.
GateFits(rm, ss, w, p) ==
    ~p.late =>
        /\ Heard(rm, p) /\ Gated(rm, p) /\ AsksFit(rm, p)
        /\ SealFits(rm, ss, w, p) /\ KeptFits(rm, ss, w, p)

GateInv == Linked(room, sess, wire, page) /\ GateFits(room, sess, wire, page)

-----------------------------------------------------------------------------
(* Steps of the page that keep the gate                                    *)

\* A new request.
Sends(r, n) == Asked(r, n) /\ r.seen = n /\ r.ans = Waits

\* The page stays linked.
Minor(rm, ss, p, q) ==
    /\ DOMAIN q = PageFields
    /\ q.seen = p.seen
    /\ q.ver = p.ver \/ (q.ver \in Nat /\ q.ver <= rm.ver)
    /\ p.late => q.late
    /\ IsUp(p.up) => IsUp(q.up)
    /\ ~ss.open => q.up = p.up
    /\ \A r \in DOMAIN q.net : r \in DOMAIN p.net \/ Sends(r, p.seen)
    /\ q.modal = p.modal \/ DialogFits(q.modal)

\* The gate is not touched either.
Quiet(rm, ss, p, q) ==
    /\ Minor(rm, ss, p, q)
    /\ q.set = p.set /\ q.scope = p.scope /\ q.gate = p.gate
    /\ p.edit # None => q.edit # None
    /\ q.ops = "kept" => p.ops = "kept"
    /\ Auths(p.up) => Auths(q.up)
    /\ \A r \in DOMAIN q.net : r.do \in {"check", "load"} => r \in DOMAIN p.net

LEMMA MinorLinked ==
    ASSUME NEW rm, NEW ss, NEW w, NEW p, NEW q, Linked(rm, ss, w, p), Minor(rm, ss, p, q)
    PROVE  Linked(rm, ss, w, q)
<1>1. \A r \in DOMAIN q.net : Asked(r, q.seen) /\ AnswerFits(rm, r)
  <2>1. Waits.code # "ok"
    BY DEF Waits
  <2> QED
    BY <2>1 DEF Linked, Minor, Sends, AnswerFits
<1>2. SessionFits(rm, ss, w, q)
  BY DEF Linked, Minor, SessionFits
<1> QED
  BY <1>1, <1>2 DEF Linked, Minor

LEMMA MinorTwice ==
    ASSUME NEW rm, NEW ss, NEW p, NEW q, NEW s, Minor(rm, ss, p, q), Minor(rm, ss, q, s)
    PROVE  Minor(rm, ss, p, s)
BY DEF Minor

LEMMA QuietTwice ==
    ASSUME NEW rm, NEW ss, NEW p, NEW q, NEW s, Quiet(rm, ss, p, q), Quiet(rm, ss, q, s)
    PROVE  Quiet(rm, ss, p, s)
<1>1. Minor(rm, ss, p, s)
  BY MinorTwice DEF Quiet
<1> QED
  BY <1>1 DEF Quiet

LEMMA QuietItself ==
    ASSUME NEW rm, NEW ss, NEW p, DOMAIN p = PageFields
    PROVE  Quiet(rm, ss, p, p)
BY DEF Quiet, Minor

LEMMA QuietFits ==
    ASSUME NEW rm, NEW ss, NEW w, NEW p, NEW q, GateFits(rm, ss, w, p), Quiet(rm, ss, p, q)
    PROVE  GateFits(rm, ss, w, q)
<1> SUFFICES ASSUME ~q.late PROVE
        /\ Heard(rm, q) /\ Gated(rm, q) /\ AsksFit(rm, q)
        /\ SealFits(rm, ss, w, q) /\ KeptFits(rm, ss, w, q)
  BY DEF GateFits
<1>1. /\ Heard(rm, p) /\ Gated(rm, p) /\ AsksFit(rm, p)
      /\ SealFits(rm, ss, w, p) /\ KeptFits(rm, ss, w, p)
  BY DEF GateFits, Quiet, Minor
<1>2. Heard(rm, q) /\ Gated(rm, q)
  BY <1>1 DEF Heard, Gated, Quiet, Minor
<1>3. AsksFit(rm, q)
  BY <1>1 DEF AsksFit, Quiet, Minor
<1>4. SealFits(rm, ss, w, q)
  BY <1>1 DEF SealFits, Quiet, Minor
<1>5. KeptFits(rm, ss, w, q)
  <2>1. Checking(rm, q) => Checking(rm, p)
    BY DEF Checking, Quiet
  <2>2. Pending(rm, ss, w, p) => Pending(rm, ss, w, q)
    BY DEF Pending, Quiet
  <2> QED
    BY <1>1, <2>1, <2>2 DEF KeptFits, Quiet
<1> QED
  BY <1>2, <1>3, <1>4, <1>5

LEMMA FetchMinor ==
    ASSUME NEW rm, NEW ss, NEW p, NEW do, NEW pw, NEW arg, DOMAIN p = PageFields,
           p.seen \in Nat, IsChange(do, arg), do \in {"panel", "unlock", "copy"} => pw # None
    PROVE  /\ Minor(rm, ss, p, Fetch(p, do, pw, arg))
           /\ do \notin {"check", "load"} => Quiet(rm, ss, p, Fetch(p, do, pw, arg))
<1> DEFINE x == [do |-> do, pw |-> pw, arg |-> arg, ans |-> Waits, seen |-> p.seen]
           q == Fetch(p, do, pw, arg)
<1>1. /\ DOMAIN q = PageFields /\ q.net = BagAdd(p.net, x)
      /\ q.modal = p.modal /\ q.seen = p.seen /\ q.ver = p.ver /\ q.late = p.late
      /\ q.up = p.up /\ q.set = p.set /\ q.scope = p.scope /\ q.gate = p.gate
      /\ q.edit = p.edit /\ q.ops = p.ops
  BY DEF Fetch, PageFields
<1>2. Sends(x, p.seen) /\ x.do = do
  BY DEF Sends, Asked
<1> HIDE DEF x, q
<1>3. DOMAIN q.net = DOMAIN p.net \cup {x}
  BY <1>1 DEF BagAdd
<1>4. Minor(rm, ss, p, q)
  BY <1>1, <1>2, <1>3 DEF Minor
<1>5. do \notin {"check", "load"} => Quiet(rm, ss, p, q)
  BY <1>1, <1>2, <1>3, <1>4 DEF Quiet
<1> QED
  BY <1>4, <1>5 DEF q

\* No lock is spoken of: the change of a request that is none.
LEMMA NoChange ==
    ASSUME NEW do, NEW arg, do \notin {"set", "change", "clear"}
    PROVE  IsChange(do, arg)
BY DEF IsChange

LEMMA LoadFilesQuiet ==
    ASSUME NEW rm, NEW ss, NEW p, DOMAIN p = PageFields, p.seen \in Nat
    PROVE  Quiet(rm, ss, p, LoadFiles(p)) /\ LoadFiles(p).modal = p.modal
<1>1. Quiet(rm, ss, p, LoadFiles(p))
  BY FetchMinor, NoChange DEF LoadFiles
<1> QED
  BY <1>1 DEF LoadFiles, Fetch, PageFields

LEMMA UpOf ==
    ASSUME NEW u, NEW S, u \in Seq(S)
    PROVE  IsUp(u)
<1> DEFINE U == {u[i] : i \in DOMAIN u}
<1>1. \A i \in DOMAIN u : u[i] \in U
  OBVIOUS
<1>2. u \in [1 .. Len(u) -> S] /\ Len(u) \in Nat /\ DOMAIN u = 1 .. Len(u)
  OBVIOUS
<1> HIDE DEF U
<1>3. u \in Seq(U)
  BY <1>1, <1>2
<1> QED
  BY <1>3 DEF IsUp, U

LEMMA UpGrows ==
    ASSUME NEW u, NEW m, IsUp(u)
    PROVE  /\ IsUp(Append(u, m))
           /\ Auths(u) => Auths(Append(u, m))
           /\ m.type = "auth" => Auths(Append(u, m))
<1> DEFINE U == {u[i] : i \in DOMAIN u}
           T == U \cup {m}
<1>1. u \in Seq(U)
  BY DEF IsUp
<1> HIDE DEF U
<1>2. u \in Seq(T) /\ m \in T
  BY <1>1
<1> HIDE DEF T
<1>3. Append(u, m) \in Seq(T) /\ Len(u) \in Nat
      /\ DOMAIN u = 1 .. Len(u) /\ DOMAIN Append(u, m) = 1 .. Len(u) + 1
      /\ Append(u, m)[Len(u) + 1] = m
      /\ \A i \in DOMAIN u : Append(u, m)[i] = u[i]
  BY <1>2
<1>4. Auths(u) => Auths(Append(u, m))
  BY <1>3 DEF Auths
<1>5. m.type = "auth" => Auths(Append(u, m))
  BY <1>3 DEF Auths
<1> QED
  BY <1>3, <1>4, <1>5, UpOf

\* Taking a message that is not an authentication loses none.
LEMMA UpShrinks ==
    ASSUME NEW u, IsUp(u), u # << >>
    PROVE  IsUp(Tail(u)) /\ (Head(u).type # "auth" => (Auths(u) <=> Auths(Tail(u))))
<1> DEFINE U == {u[i] : i \in DOMAIN u}
<1>1. u \in Seq(U)
  BY DEF IsUp
<1> HIDE DEF U
<1>2. Tail(u) \in Seq(U) /\ Len(u) \in Nat /\ Len(u) > 0
      /\ DOMAIN u = 1 .. Len(u) /\ DOMAIN Tail(u) = 1 .. Len(u) - 1
      /\ Head(u) = u[1]
      /\ \A i \in 1 .. Len(u) - 1 : Tail(u)[i] = u[i + 1]
  BY <1>1
<1>3. ASSUME Head(u).type # "auth", NEW i \in DOMAIN u, u[i].type = "auth"
      PROVE  Auths(Tail(u))
  <2>1. i # 1 /\ i - 1 \in DOMAIN Tail(u) /\ Tail(u)[i - 1] = u[i]
    BY <1>2, <1>3
  <2> QED
    BY <1>3, <2>1 DEF Auths
<1>4. ASSUME NEW i \in DOMAIN Tail(u), Tail(u)[i].type = "auth"
      PROVE  Auths(u)
  <2>1. i + 1 \in DOMAIN u /\ u[i + 1] = Tail(u)[i]
    BY <1>2
  <2> QED
    BY <1>4, <2>1 DEF Auths
<1> QED
  BY <1>2, <1>3, <1>4, UpOf DEF Auths

LEMMA QuietSteps ==
    ASSUME NEW rm, NEW ss, NEW p, DOMAIN p = PageFields
    PROVE  /\ Quiet(rm, ss, p, ScheduleFlush(p))
           /\ \A pw, scope : pw # None => Quiet(rm, ss, p, RememberRoom(p, pw, scope))
           /\ \A files : Quiet(rm, ss, p, RenderFileList(p, files))
           /\ \A x : Quiet(rm, ss, p, [p EXCEPT !.on = x])
           /\ \A x : Quiet(rm, ss, p, [p EXCEPT !.own = x])
           /\ \A x : Quiet(rm, ss, p, [p EXCEPT !.admin = x])
           /\ \A x : Quiet(rm, ss, p, [p EXCEPT !.filepw = x])
           /\ \A x, y : Quiet(rm, ss, p, [p EXCEPT !.admin = x, !.filepw = y])
<1>1. Quiet(rm, ss, p, ScheduleFlush(p))
  BY DEF ScheduleFlush, Quiet, Minor, PageFields
<1>2. ASSUME NEW pw, NEW scope, pw # None PROVE Quiet(rm, ss, p, RememberRoom(p, pw, scope))
  BY <1>2 DEF RememberRoom, Quiet, Minor, PageFields
<1>3. \A files : Quiet(rm, ss, p, RenderFileList(p, files))
  BY DEF RenderFileList, Quiet, Minor, PageFields
<1>4. \A x : Quiet(rm, ss, p, [p EXCEPT !.on = x])
  BY DEF Quiet, Minor, PageFields
<1>5. \A x : Quiet(rm, ss, p, [p EXCEPT !.own = x])
  BY DEF Quiet, Minor, PageFields
<1>6. \A x : Quiet(rm, ss, p, [p EXCEPT !.admin = x])
  BY DEF Quiet, Minor, PageFields
<1>7. \A x : Quiet(rm, ss, p, [p EXCEPT !.filepw = x])
  BY DEF Quiet, Minor, PageFields
<1>8. \A x, y : Quiet(rm, ss, p, [p EXCEPT !.admin = x, !.filepw = y])
  BY DEF Quiet, Minor, PageFields
<1> QED
  BY <1>1, <1>2, <1>3, <1>4, <1>5, <1>6, <1>7, <1>8

LEMMA ModalQuiet ==
    ASSUME NEW rm, NEW ss, NEW p, NEW m, DOMAIN p = PageFields, DialogFits(m)
    PROVE  Quiet(rm, ss, p, [p EXCEPT !.modal = m])
BY DEF Quiet, Minor, PageFields

LEMMA SendAuthQuiet ==
    ASSUME NEW rm, NEW p, NEW pw, DOMAIN p = PageFields, IsUp(p.up)
    PROVE  /\ Quiet(rm, sess, p, SendAuth(p, pw))
           /\ sess.open => Auths(SendAuth(p, pw).up)
           /\ SendAuth(p, pw).ops = p.ops /\ SendAuth(p, pw).edit = p.edit
<1> DEFINE m == [type |-> "auth", pw |-> pw]
           q == SendAuth(p, pw)
<1>1. m.type = "auth"
  OBVIOUS
<1>2. q = IF sess.open THEN [p EXCEPT !.up = Append(@, m)] ELSE p
  BY DEF SendAuth
<1> HIDE DEF m, q
<1>3. IsUp(Append(p.up, m)) /\ Auths(Append(p.up, m))
  BY <1>1, UpGrows
<1> HIDE DEF PageFields
<1>4. CASE sess.open
  <2>1. q = [p EXCEPT !.up = Append(@, m)]
    BY <1>2, <1>4
  <2>2. /\ DOMAIN q = PageFields /\ q.net = p.net
        /\ q.modal = p.modal /\ q.seen = p.seen /\ q.ver = p.ver /\ q.late = p.late
        /\ q.up = Append(p.up, m) /\ q.set = p.set /\ q.scope = p.scope /\ q.gate = p.gate
        /\ q.edit = p.edit /\ q.ops = p.ops
    BY <2>1 DEF PageFields
  <2> QED
    BY <1>3, <1>4, <2>2 DEF Quiet, Minor, q
<1>5. CASE ~sess.open
  BY <1>2, <1>5, QuietItself DEF q
<1> QED
  BY <1>4, <1>5

-----------------------------------------------------------------------------
(* Quiet steps: the dialog, the files                                      *)

Ready(p) == DOMAIN p = PageFields /\ p.seen \in Nat

LEMMA QuietReady ==
    ASSUME NEW rm, NEW ss, NEW p, NEW q, Ready(p), Quiet(rm, ss, p, q)
    PROVE  Ready(q)
BY DEF Ready, Quiet, Minor

LEMMA GivesUpQuiet ==
    ASSUME NEW rm, NEW ss, NEW p, NEW m, Ready(p)
    PROVE  Quiet(rm, ss, p, GivesUp(p, m)) /\ GivesUp(p, m).modal = p.modal
<1>1. [p EXCEPT !.own = FALSE].modal = p.modal
  BY DEF Ready, PageFields
<1> QED
  BY <1>1, LoadFilesQuiet, QuietSteps, QuietItself DEF GivesUp, Ready

LEMMA AskQuiet ==
    ASSUME NEW rm, NEW ss, NEW p, NEW do, NEW arg, Ready(p), DialogFits([do |-> do, arg |-> arg])
    PROVE  Quiet(rm, ss, p, Ask(p, do, arg))
<1> DEFINE g == GivesUp(p, p.modal)
           m == [do |-> do, arg |-> arg]
<1>1. Quiet(rm, ss, p, g) /\ Ready(g)
  BY GivesUpQuiet, QuietReady
<1>2. Ask(p, do, arg) = [g EXCEPT !.modal = m] /\ DialogFits(m)
  BY DEF Ask
<1> HIDE DEF g, m
<1>3. Quiet(rm, ss, g, Ask(p, do, arg))
  BY <1>1, <1>2, ModalQuiet DEF Ready
<1> QED
  BY <1>1, <1>3, QuietTwice

\* A dialog that does not speak of the lock.
LEMMA FitsUnasked ==
    ASSUME NEW do, NEW arg, do \notin {"set", "change", "clear"}
    PROVE  DialogFits([do |-> do, arg |-> arg])
BY DEF DialogFits, IsChange

LEMMA ClosedQuiet ==
    ASSUME NEW rm, NEW ss, NEW p, Ready(p)
    PROVE  Quiet(rm, ss, p, [p EXCEPT !.modal = None]) /\ Ready([p EXCEPT !.modal = None])
<1>1. DialogFits(None)
  BY DEF DialogFits
<1> QED
  BY <1>1, ModalQuiet, QuietReady DEF Ready

LEMMA DismissedQuiet ==
    ASSUME NEW rm, NEW ss, NEW p, Ready(p)
    PROVE  Quiet(rm, ss, p, Dismissed(p))
<1> DEFINE q == [p EXCEPT !.modal = None]
           arg == [p.modal.arg EXCEPT !.stage = "file"]
<1>1. Quiet(rm, ss, p, q) /\ Ready(q)
  BY ClosedQuiet
<1>2. DialogFits([do |-> "upload", arg |-> arg])
  BY FitsUnasked
<1>3. Dismissed(p) \in {Ask(q, "upload", arg), GivesUp(q, p.modal)}
  BY DEF Dismissed
<1> HIDE DEF q, arg
<1>4. Quiet(rm, ss, q, Ask(q, "upload", arg)) /\ Quiet(rm, ss, q, GivesUp(q, p.modal))
  BY <1>1, <1>2, AskQuiet, GivesUpQuiet
<1> QED
  BY <1>1, <1>3, <1>4, QuietTwice

LEMMA AskOverQuiet ==
    ASSUME NEW rm, NEW ss, NEW p, NEW do, NEW arg, Ready(p), DialogFits([do |-> do, arg |-> arg])
    PROVE  Quiet(rm, ss, p, AskOver(p, do, arg))
<1> DEFINE d == IF p.modal = None THEN p ELSE Dismissed(p)
<1>1. Quiet(rm, ss, p, d) /\ Ready(d)
  BY DismissedQuiet, QuietItself, QuietReady DEF Ready
<1>2. AskOver(p, do, arg) = Ask(d, do, arg)
  BY DEF AskOver
<1> HIDE DEF d
<1> QED
  BY <1>1, <1>2, AskQuiet, QuietTwice

LEMMA BeginUploadQuiet ==
    ASSUME NEW rm, NEW ss, NEW p, NEW a, Ready(p)
    PROVE  Quiet(rm, ss, p, BeginUpload(p, a))
<1> DEFINE q == [p EXCEPT !.admin = IF a.admin # None THEN a.admin ELSE @, !.filepw = a.filepw]
           arg == [admin |-> a.admin, filepw |-> a.filepw, batch |-> a.batch, item |-> 1]
           x == IF a.admin # None THEN a.admin ELSE p.admin
<1>1. q = [p EXCEPT !.admin = x, !.filepw = a.filepw]
  BY DEF Ready, PageFields
<1>2. BeginUpload(p, a) = Fetch(q, "upload", RoomPassword(p), arg)
  BY DEF BeginUpload
<1> HIDE DEF q, arg, x
<1>3. Quiet(rm, ss, p, q) /\ Ready(q)
  BY <1>1, QuietSteps, QuietReady DEF Ready
<1>4. Quiet(rm, ss, q, BeginUpload(p, a))
  BY <1>2, <1>3, FetchMinor, NoChange DEF Ready
<1> QED
  BY <1>3, <1>4, QuietTwice

\* A flow of the room is given a password people choose.
LEMMA SubmittedQuiet ==
    ASSUME NEW rm, NEW ss, NEW p, NEW m, NEW v, NEW scope, Ready(p), IsDialog(m),
           m # None, DialogFits(m), m.do \in RoomFlows => v # None,
           m.do \in {"set", "change"} /\ m.arg = None => scope \in Scopes
    PROVE  Quiet(rm, ss, p, Submitted(p, m, v, scope))
<1> DEFINE a == m.arg
           own == [p EXCEPT !.own = @ \/ m.do = "set"]
           filepw == [p EXCEPT !.filepw = v]
           admin == [p EXCEPT !.admin = v]
           room1 == RememberRoom(p, v, p.scope)
<1>1. Quiet(rm, ss, p, own) /\ Quiet(rm, ss, p, filepw) /\ Quiet(rm, ss, p, admin)
  <2>1. own = [p EXCEPT !.own = (p.own \/ m.do = "set")]
    BY DEF Ready, PageFields
  <2> QED
    BY <2>1, QuietSteps DEF Ready
<1>2. m.do \in RoomFlows => Quiet(rm, ss, p, room1)
  BY QuietSteps DEF Ready
<1>3. Ready(own) /\ Ready(filepw) /\ Ready(admin) /\ (m.do \in RoomFlows => Ready(room1))
  BY <1>1, <1>2, QuietReady
<1> HIDE DEF own, filepw, admin, room1
<1>4. m.do \in RoomFlows \cup {"upload", "download", "delete", "toggle"}
  BY DEF IsDialog
<1>5. CASE m.do = "unlock"
  BY <1>5, FetchMinor, NoChange DEF Submitted, Ready, RoomFlows
<1>6. CASE m.do \in {"set", "change"} /\ a = None
  <2> DEFINE arg == [next |-> v, scope |-> scope]
  <2>1. IsChange(m.do, arg)
    BY <1>6 DEF IsChange, RoomFlows
  <2>2. Submitted(p, m, v, scope) = Fetch(own, m.do, p.edit, arg)
    BY <1>6 DEF Submitted, own
  <2> HIDE DEF arg
  <2>3. Quiet(rm, ss, own, Fetch(own, m.do, p.edit, arg))
    BY <1>3, <1>6, <2>1, FetchMinor DEF Ready
  <2> QED
    BY <1>1, <2>2, <2>3, QuietTwice
<1>7. CASE m.do = "clear" \/ (m.do \in {"set", "change"} /\ a # None)
  <2>1. IsChange(m.do, a)
    BY <1>7 DEF DialogFits
  <2>2. Submitted(p, m, v, scope) = Fetch(p, m.do, v, a)
    BY <1>7 DEF Submitted
  <2> QED
    BY <1>7, <2>1, <2>2, FetchMinor DEF Ready
<1>8. CASE m.do = "copy"
  BY <1>8, FetchMinor, NoChange DEF Submitted, Ready, RoomFlows
<1>9. CASE m.do \in {"history", "archive"}
  <2>1. Quiet(rm, ss, room1, Fetch(room1, m.do, v, a))
    BY <1>3, <1>9, FetchMinor, NoChange DEF Ready, RoomFlows
  <2>2. Submitted(p, m, v, scope) = Fetch(room1, m.do, v, a)
    BY <1>9 DEF Submitted, room1
  <2> QED
    BY <1>2, <1>9, <2>1, <2>2, QuietTwice DEF RoomFlows
<1>10. CASE m.do = "upload"
  <2>1. m.arg.stage \in {"admin", "file", "again"}
    BY <1>10 DEF IsDialog
  <2>2. \A b : Quiet(rm, ss, p, Ask(p, "upload", b)) /\ Quiet(rm, ss, p, BeginUpload(p, b))
    BY AskQuiet, FitsUnasked, BeginUploadQuiet
  <2>3. Submitted(p, m, v, scope) \in
          {Ask(p, "upload", [a EXCEPT !.stage = "file", !.admin = v]),
           BeginUpload(p, [a EXCEPT !.filepw = v]), BeginUpload(p, [a EXCEPT !.admin = v])}
    BY <1>10, <2>1 DEF Submitted
  <2> QED
    BY <2>2, <2>3
<1>11. CASE m.do = "download"
  <2> DEFINE pw == IF a.again THEN None ELSE RoomPassword(p)
             arg == [a EXCEPT !.key = v]
  <2>1. Submitted(p, m, v, scope) = Fetch(filepw, "download", pw, arg)
    BY <1>11 DEF Submitted, filepw
  <2> HIDE DEF pw, arg
  <2>2. Quiet(rm, ss, filepw, Fetch(filepw, "download", pw, arg))
    BY <1>3, FetchMinor, NoChange DEF Ready
  <2> QED
    BY <1>1, <2>1, <2>2, QuietTwice
<1>12. CASE m.do \in {"delete", "toggle"}
  <2> DEFINE arg == [a EXCEPT !.key = v]
  <2>1. Submitted(p, m, v, scope) = Fetch(admin, m.do, RoomPassword(p), arg)
    BY <1>12 DEF Submitted, admin
  <2> HIDE DEF arg
  <2>2. Quiet(rm, ss, admin, Fetch(admin, m.do, RoomPassword(p), arg))
    BY <1>3, <1>12, FetchMinor, NoChange DEF Ready
  <2> QED
    BY <1>1, <2>1, <2>2, QuietTwice
<1> QED
  BY <1>4, <1>5, <1>6, <1>7, <1>8, <1>9, <1>10, <1>11, <1>12 DEF RoomFlows

LEMMA ReleasedQuiet ==
    ASSUME NEW rm, NEW ss, NEW p, NEW r, NEW late, Ready(p), p.late => late
    PROVE  Quiet(rm, ss, p, Released(p, r, late))
<1> DEFINE q == Released(p, r, late)
<1>1. /\ DOMAIN q = PageFields /\ q.net = BagRemove(p.net, r)
      /\ q.modal = p.modal /\ q.seen = p.seen /\ q.ver = p.ver /\ q.late = late
      /\ q.up = p.up /\ q.set = p.set /\ q.scope = p.scope /\ q.gate = p.gate
      /\ q.edit = p.edit /\ q.ops = p.ops
  BY DEF Released, Ready, PageFields
<1> HIDE DEF q
<1>2. DOMAIN q.net \subseteq DOMAIN p.net
  BY <1>1 DEF BagRemove
<1> QED
  BY <1>1, <1>2 DEF Quiet, Minor, q

LEMMA UploadAnsweredQuiet ==
    ASSUME NEW rm, NEW ss, NEW p, NEW r, Ready(p)
    PROVE  Quiet(rm, ss, p, UploadAnswered(p, r))
<1>1. Quiet(rm, ss, p, UploadNext(p, r))
  <2> DEFINE arg == [r.arg EXCEPT !.item = @ + 1]
  <2>1. UploadNext(p, r) \in {Fetch(p, "upload", RoomPassword(p), arg), LoadFiles(p)}
    BY DEF UploadNext
  <2> HIDE DEF arg
  <2>2. Quiet(rm, ss, p, Fetch(p, "upload", RoomPassword(p), arg))
    BY FetchMinor, NoChange DEF Ready
  <2> QED
    BY <2>1, <2>2, LoadFilesQuiet DEF Ready
<1>2. Quiet(rm, ss, p, UploadAgain(p, r))
  <2> DEFINE q == [p EXCEPT !.admin = None]
             arg == [stage |-> "again", admin |-> None, filepw |-> r.arg.filepw,
                     batch |-> r.arg.batch]
  <2>1. Quiet(rm, ss, p, q) /\ Ready(q)
    BY QuietSteps, QuietReady DEF Ready
  <2>2. UploadAgain(p, r) = AskOver(LoadFiles(q), "upload", arg)
    BY DEF UploadAgain
  <2> HIDE DEF q, arg
  <2>3. Quiet(rm, ss, p, LoadFiles(q)) /\ Ready(LoadFiles(q))
    BY <2>1, LoadFilesQuiet, QuietTwice, QuietReady DEF Ready
  <2>4. Quiet(rm, ss, LoadFiles(q), UploadAgain(p, r))
    BY <2>2, <2>3, AskOverQuiet, FitsUnasked
  <2> QED
    BY <2>3, <2>4, QuietTwice
<1> QED
  BY <1>1, <1>2 DEF UploadAnswered

LEMMA RefusedQuiet ==
    ASSUME NEW rm, NEW ss, NEW p, NEW r, Ready(p), IsChange(r.do, r.arg)
    PROVE  Quiet(rm, ss, p, Refused(p, r))
<1> DEFINE own == [p EXCEPT !.own = FALSE]
           filepw == [p EXCEPT !.filepw = None]
           admin == [p EXCEPT !.admin = None]
           arg == [r.arg EXCEPT !.again = TRUE]
<1>1. Quiet(rm, ss, p, own) /\ Quiet(rm, ss, p, filepw) /\ Quiet(rm, ss, p, admin)
      /\ Quiet(rm, ss, p, p)
  BY QuietSteps, QuietItself DEF Ready
<1>2. Ready(filepw) /\ Ready(admin)
  BY <1>1, QuietReady
<1>3. Quiet(rm, ss, p, AskOver(p, r.do, r.arg))
  <2>1. DialogFits([do |-> r.do, arg |-> r.arg])
    BY DEF DialogFits
  <2> QED
    BY <2>1, AskOverQuiet
<1>4. Quiet(rm, ss, p, AskOver(p, "history", [again |-> TRUE]))
  BY AskOverQuiet, FitsUnasked
<1> HIDE DEF own, filepw, admin, arg
<1>5. Quiet(rm, ss, p, AskOver(filepw, "download", arg))
  BY <1>1, <1>2, AskOverQuiet, FitsUnasked, QuietTwice
<1>6. r.do \in {"delete", "toggle"} => Quiet(rm, ss, p, AskOver(admin, r.do, arg))
  BY <1>1, <1>2, AskOverQuiet, FitsUnasked, QuietTwice
<1> QED
  BY <1>1, <1>3, <1>4, <1>5, <1>6 DEF Refused, own, filepw, admin, arg

\* The answers that have nothing to do with the gate.
LEMMA AcceptedQuiet ==
    ASSUME NEW rm, NEW ss, NEW p, NEW r, Ready(p), r.do = "copy" => r.pw # None,
           r.do \notin {"unlock", "panel", "set", "change", "clear", "load"}
    PROVE  Quiet(rm, ss, p, Accepted(p, r))
<1> DEFINE list == [p EXCEPT !.on = r.ans.on]
           toggle == [p EXCEPT !.on = r.arg.on]
<1>1. Quiet(rm, ss, p, list) /\ Quiet(rm, ss, p, toggle) /\ Quiet(rm, ss, p, p)
  BY QuietSteps, QuietItself DEF Ready
<1>2. Ready(list) /\ Ready(toggle)
  BY <1>1, QuietReady
<1> HIDE DEF list, toggle
<1>3. Quiet(rm, ss, p, RenderFileList(list, r.ans.files)) /\ Quiet(rm, ss, p, LoadFiles(toggle))
  <2>1. Quiet(rm, ss, list, RenderFileList(list, r.ans.files))
    BY <1>2, QuietSteps DEF Ready
  <2>2. Quiet(rm, ss, toggle, LoadFiles(toggle))
    BY <1>2, LoadFilesQuiet DEF Ready
  <2> QED
    BY <1>1, <2>1, <2>2, QuietTwice
<1>4. Quiet(rm, ss, p, LoadFiles(p))
  BY LoadFilesQuiet DEF Ready
<1>5. r.do = "copy" => Quiet(rm, ss, p, RememberRoom(p, r.pw, p.scope))
  BY QuietSteps DEF Ready
<1> QED
  BY <1>1, <1>3, <1>4, <1>5 DEF Accepted, list, toggle

-----------------------------------------------------------------------------
(* Steps that shut, open or check the gate                                 *)

LEMMA ShutFits ==
    ASSUME NEW rm, NEW ss, NEW v, NEW w, NEW p, NEW q, GateFits(rm, ss, v, p),
           Minor(rm, ss, p, q), q.set = p.set, q.scope = p.scope, q.net = p.net,
           q.gate = IF p.scope = "view" THEN "panel" ELSE "readonly",
           ~q.late => \A r \in DOMAIN p.net : r.do # "check",
           ~p.late /\ p.seen = rm.ver => rm.pw # None
    PROVE  GateFits(rm, ss, w, q)
<1> SUFFICES ASSUME ~q.late PROVE
        /\ Heard(rm, q) /\ Gated(rm, q) /\ AsksFit(rm, q)
        /\ SealFits(rm, ss, w, q) /\ KeptFits(rm, ss, w, q)
  BY DEF GateFits
<1>1. ~p.late /\ Heard(rm, p) /\ AsksFit(rm, p) /\ q.seen = p.seen
  BY DEF GateFits, Minor
<1> QED
  BY <1>1 DEF Heard, Gated, AsksFit, SealFits, KeptFits, Checking

\* A password that the server refused is forgotten, and the gate is shut.
LEMMA ForgottenShut ==
    ASSUME NEW rm, NEW ss, NEW v, NEW w, NEW p, NEW ops, Ready(p), GateFits(rm, ss, v, p),
           ~p.late /\ p.seen = rm.ver => rm.pw # None,
           NEW q, \/ q = ShowLock(ForgetRoom(p))
                  \/ q = ShowLock([ForgetEdit(p) EXCEPT !.ops = ops])
    PROVE  Minor(rm, ss, p, q) /\ GateFits(rm, ss, w, q)
<1>1. /\ DOMAIN q = PageFields /\ q.net = p.net
      /\ q.modal = p.modal /\ q.seen = p.seen /\ q.ver = p.ver
      /\ q.late = (p.late \/ \E r \in DOMAIN p.net : r.do = "check")
      /\ q.up = p.up /\ q.set = p.set /\ q.scope = p.scope
      /\ q.gate = IF p.scope = "view" THEN "panel" ELSE "readonly"
  <2>1. DOMAIN p = PageFields
    BY DEF Ready
  <2>2. CASE q = ShowLock(ForgetRoom(p))
    BY <2>1, <2>2 DEF ShowLock, ForgetRoom, ForgetEdit, PageFields
  <2>3. CASE q = ShowLock([ForgetEdit(p) EXCEPT !.ops = ops])
    BY <2>1, <2>3 DEF ShowLock, ForgetEdit, PageFields
  <2> QED
    BY <2>2, <2>3
<1>2. Minor(rm, ss, p, q)
  BY <1>1 DEF Minor
<1>3. ~q.late => \A r \in DOMAIN p.net : r.do # "check"
  BY <1>1
<1> QED
  BY <1>1, <1>2, <1>3, ShutFits

\* What a check of the remembered password leaves: the gate as it was, or as it fits.
Synced(p, q) ==
    /\ q.set = p.set /\ q.scope = p.scope /\ q.edit = p.edit
    /\ q.ops = p.ops /\ q.up = p.up /\ q.late = p.late /\ q.tab = p.tab
    /\ p.scope # "edit" \/ ~p.set => q.gate = "open"
    /\ p.scope = "edit" /\ p.edit = None => q.gate # "open" \/ ~p.set
    /\ \A r \in DOMAIN q.net :
          \/ r \in DOMAIN p.net
          \/ r.do = "check" /\ r.seen = p.seen /\ p.edit # None /\ p.scope = "edit"

LEMMA SyncSteps ==
    ASSUME NEW rm, NEW ss, NEW p, Ready(p)
    PROVE  Minor(rm, ss, p, SyncEditLockGate(p)) /\ Synced(p, SyncEditLockGate(p))
<1>1. Minor(rm, ss, p, HideLock(p)) /\ Minor(rm, ss, p, ShowLock(p))
  BY DEF HideLock, ShowLock, Minor, Ready, PageFields
<1>2. Minor(rm, ss, p, Fetch(p, "check", p.edit, None))
  BY FetchMinor, NoChange DEF Ready
<1>3. CASE p.scope # "edit" \/ ~p.set
  <2>1. SyncEditLockGate(p) = HideLock(p)
    BY <1>3 DEF SyncEditLockGate
  <2>2. Synced(p, HideLock(p))
    BY <1>3 DEF Synced, HideLock, Ready, PageFields
  <2> QED
    BY <1>1, <2>1, <2>2
<1>4. CASE p.scope = "edit" /\ p.set /\ p.edit = None
  <2>1. SyncEditLockGate(p) = ShowLock(p)
    BY <1>4 DEF SyncEditLockGate
  <2>2. Synced(p, ShowLock(p))
    BY <1>4 DEF Synced, ShowLock, Ready, PageFields
  <2> QED
    BY <1>1, <2>1, <2>2
<1>5. CASE p.scope = "edit" /\ p.set /\ p.edit # None /\ p.own
  <2>1. SyncEditLockGate(p) = HideLock(p)
    BY <1>5 DEF SyncEditLockGate
  <2>2. Synced(p, HideLock(p))
    BY <1>5 DEF Synced, HideLock, Ready, PageFields
  <2> QED
    BY <1>1, <2>1, <2>2
<1>6. CASE p.scope = "edit" /\ p.set /\ p.edit # None /\ ~p.own
  <2> DEFINE x == [do |-> "check", pw |-> p.edit, arg |-> None, ans |-> Waits, seen |-> p.seen]
             q == Fetch(p, "check", p.edit, None)
  <2>1. SyncEditLockGate(p) = q
    BY <1>6 DEF SyncEditLockGate
  <2>2. /\ q.net = BagAdd(p.net, x) /\ q.set = p.set /\ q.scope = p.scope /\ q.edit = p.edit
        /\ q.ops = p.ops /\ q.up = p.up /\ q.late = p.late /\ q.tab = p.tab
    BY DEF Fetch, Ready, PageFields
  <2>3. x.do = "check" /\ x.seen = p.seen
    OBVIOUS
  <2> HIDE DEF x, q
  <2>4. DOMAIN q.net = DOMAIN p.net \cup {x}
    BY <2>2 DEF BagAdd
  <2>5. Synced(p, q)
    BY <1>6, <2>2, <2>3, <2>4 DEF Synced
  <2> QED
    BY <1>2, <2>1, <2>5 DEF q
<1> QED
  BY <1>3, <1>4, <1>5, <1>6

LEMMA SyncedFits ==
    ASSUME NEW rm, NEW ss, NEW p, NEW q, Minor(rm, ss, p, q), Synced(p, q), IsLock(rm),
           Heard(rm, p), AsksFit(rm, p)
    PROVE  Heard(rm, q) /\ Gated(rm, q) /\ AsksFit(rm, q)
<1>1. q.seen = p.seen
  BY DEF Minor
<1>2. Heard(rm, q)
  BY <1>1 DEF Heard, Synced
<1>3. Gated(rm, q)
  BY <1>1 DEF Gated, Heard, Synced, IsLock
<1>4. AsksFit(rm, q)
  <2> SUFFICES ASSUME NEW r \in DOMAIN q.net
               PROVE  /\ r.do = "check" => q.edit # None /\ (r.seen = rm.ver => rm.scope = "edit")
                      /\ r.do = "load" /\ r.seen = rm.ver => rm.scope # "view"
    BY DEF AsksFit
  <2>1. CASE r \in DOMAIN p.net
    BY <2>1 DEF AsksFit, Synced
  <2>2. CASE r.do = "check" /\ r.seen = p.seen /\ p.edit # None /\ p.scope = "edit"
    BY <1>1, <2>2 DEF Heard, Synced
  <2> QED
    BY <2>1, <2>2 DEF Synced
<1> QED
  BY <1>2, <1>3, <1>4

\* While the page has not heard of the lock, something is on its way that tells it.
LEMMA UnheardFits ==
    ASSUME NEW rm, NEW ss, NEW w, NEW p, Linked(rm, ss, w, p), p.seen # rm.ver,
           ~p.late => AsksFit(rm, p)
    PROVE  GateFits(rm, ss, w, p)
BY DEF GateFits, Heard, Gated, SealFits, KeptFits, Pending, Linked, SessionFits

LEMMA RequestViewPasswordFits ==
    ASSUME NEW rm, NEW w, NEW p, Linked(rm, sess, w, p), p.scope = "view",
           ~p.late => Heard(rm, p) /\ Gated(rm, p) /\ AsksFit(rm, p)
    PROVE  Minor(rm, sess, p, RequestViewPassword(p)) /\ GateFits(rm, sess, w, RequestViewPassword(p))
<1> DEFINE kept == IF p.tab # None THEN p.tab ELSE IF p.set THEN p.edit ELSE None
           q == SendAuth(p, kept)
           s == ShowLock(p)
<1>1. RequestViewPassword(p) \in {q, s}
  BY DEF RequestViewPassword
<1>2. Ready(p) /\ IsUp(p.up) /\ p.seen <= rm.ver /\ rm.ver \in Nat /\ p.seen \in Nat
  BY DEF Linked, Ready, IsLock
<1>3. Quiet(rm, sess, p, q) /\ (sess.open => Auths(q.up)) /\ q.ops = p.ops /\ q.edit = p.edit
  BY <1>2, SendAuthQuiet DEF Ready
<1>4. /\ DOMAIN s = PageFields /\ s.net = p.net
      /\ s.modal = p.modal /\ s.seen = p.seen /\ s.ver = p.ver /\ s.late = p.late
      /\ s.up = p.up /\ s.set = p.set /\ s.scope = p.scope /\ s.gate = "panel"
      /\ s.edit = p.edit
  BY <1>2 DEF ShowLock, Ready, PageFields
<1> HIDE DEF kept, q, s
<1>5. Minor(rm, sess, p, q) /\ Minor(rm, sess, p, s)
  BY <1>3, <1>4 DEF Quiet, Minor
<1>6. Linked(rm, sess, w, q) /\ Linked(rm, sess, w, s)
  BY <1>5, MinorLinked
<1>7. ASSUME p.seen # rm.ver
      PROVE  GateFits(rm, sess, w, q) /\ GateFits(rm, sess, w, s)
  <2>1. ~q.late => AsksFit(rm, q)
    BY <1>3 DEF AsksFit, Quiet, Minor
  <2>2. ~s.late => AsksFit(rm, s)
    BY <1>4 DEF AsksFit
  <2> QED
    BY <1>5, <1>6, <1>7, <2>1, <2>2, UnheardFits DEF Minor
<1>8. ASSUME p.seen = rm.ver, ~p.late
      PROVE  GateFits(rm, sess, w, q) /\ GateFits(rm, sess, w, s)
  <2>1. rm.scope = "view" /\ rm.pw # None
    BY <1>8 DEF Heard, Linked, IsLock
  <2>2. GateFits(rm, sess, w, q)
    <3>1. Heard(rm, q) /\ Gated(rm, q) /\ AsksFit(rm, q)
      BY <1>3, <1>8 DEF Heard, Gated, AsksFit, Quiet, Minor
    <3>2. SealFits(rm, sess, w, q) /\ KeptFits(rm, sess, w, q)
      BY <1>3, <2>1 DEF SealFits, KeptFits, Pending
    <3> QED
      BY <3>1, <3>2 DEF GateFits
  <2>3. GateFits(rm, sess, w, s)
    <3>1. Heard(rm, s) /\ Gated(rm, s)
      BY <1>4, <1>8, <2>1 DEF Heard, Gated
    <3>2. AsksFit(rm, s) /\ ~Checking(rm, s)
      BY <1>4, <1>8, <2>1 DEF AsksFit, Checking
    <3>3. SealFits(rm, sess, w, s) /\ KeptFits(rm, sess, w, s)
      BY <1>4, <3>2 DEF SealFits, KeptFits
    <3> QED
      BY <3>1, <3>2, <3>3 DEF GateFits
  <2> QED
    BY <2>2, <2>3
<1>9. ASSUME p.late
      PROVE  GateFits(rm, sess, w, q) /\ GateFits(rm, sess, w, s)
  BY <1>5, <1>9 DEF GateFits, Minor
<1> QED
  BY <1>1, <1>5, <1>7, <1>8, <1>9

-----------------------------------------------------------------------------
(* What the frames say of the lock                                         *)

LEMMA WireTakes ==
    ASSUME NEW rm, NEW ss, NEW w, NEW m, NEW n, IsWire(w), w # << >>, WireFits(rm, ss, w, m),
           n = rm.ver => m = rm.ver \/ Now(rm, Head(w))
    PROVE  /\ FrameFits(rm, ss, Head(w))
           /\ m = rm.ver => Fresh(rm, Head(w))
           /\ WireFits(rm, ss, Tail(w), n)
           /\ Told(rm, w) => Now(rm, Head(w)) \/ Told(rm, Tail(w))
           /\ Invalid(w) => Bad(Head(w)) \/ Invalid(Tail(w))
<1> DEFINE W == {w[i] : i \in DOMAIN w}
           v == Tail(w)
<1>1. w \in Seq(W)
  BY DEF IsWire
<1> HIDE DEF W
<1>2. Len(w) \in Nat /\ Len(w) > 0
      /\ DOMAIN w = 1 .. Len(w) /\ DOMAIN v = 1 .. Len(w) - 1
      /\ Head(w) = w[1]
      /\ \A i \in 1 .. Len(w) - 1 : v[i] = w[i + 1]
  BY <1>1
<1> HIDE DEF v
<1>3. FrameFits(rm, ss, Head(w)) /\ (m = rm.ver => Fresh(rm, Head(w)))
  BY <1>2 DEF WireFits
<1>4. WireFits(rm, ss, v, n)
  <2> SUFFICES ASSUME NEW i \in DOMAIN v
               PROVE  /\ FrameFits(rm, ss, v[i])
                      /\ n = rm.ver \/ (\E j \in DOMAIN v : j < i /\ Now(rm, v[j]))
                            => Fresh(rm, v[i])
    BY DEF WireFits
  <2>1. i + 1 \in DOMAIN w /\ v[i] = w[i + 1] /\ 1 \in DOMAIN w /\ 1 < i + 1
    BY <1>2
  <2>2. FrameFits(rm, ss, v[i])
    BY <2>1 DEF WireFits
  <2>3. ASSUME n = rm.ver PROVE Fresh(rm, v[i])
    BY <1>2, <2>1, <2>3 DEF WireFits
  <2>4. ASSUME NEW j \in DOMAIN v, j < i, Now(rm, v[j]) PROVE Fresh(rm, v[i])
    <3>1. j + 1 \in DOMAIN w /\ j + 1 < i + 1 /\ Now(rm, w[j + 1])
      BY <1>2, <2>4
    <3> QED
      BY <2>1, <3>1 DEF WireFits
  <2> QED
    BY <2>2, <2>3, <2>4
<1>5. ASSUME NEW i \in DOMAIN w, i # 1
      PROVE  i - 1 \in DOMAIN v /\ v[i - 1] = w[i]
  BY <1>2, <1>5
<1>6. Told(rm, w) => Now(rm, Head(w)) \/ Told(rm, v)
  BY <1>2, <1>5 DEF Told
<1>7. Invalid(w) => Bad(Head(w)) \/ Invalid(v)
  BY <1>2, <1>5 DEF Invalid, Bad
<1> QED
  BY <1>3, <1>4, <1>6, <1>7 DEF v

LEMMA WireGrows ==
    ASSUME NEW rm, NEW ss, NEW w, NEW v, NEW n, IsWire(w), IsWire(v), WireFits(rm, ss, w, n),
           \A i \in DOMAIN v : FrameFits(rm, ss, v[i]) /\ Fresh(rm, v[i])
    PROVE  /\ WireFits(rm, ss, w \o v, n)
           /\ Told(rm, w) \/ Told(rm, v) => Told(rm, w \o v)
           /\ Invalid(w) \/ Invalid(v) => Invalid(w \o v)
<1> DEFINE S == {w[i] : i \in DOMAIN w} \cup {v[i] : i \in DOMAIN v}
           u == w \o v
<1>1. w \in Seq(S) /\ v \in Seq(S)
  BY WiderSeq DEF IsWire
<1> HIDE DEF S
<1>2. Len(w) \in Nat /\ Len(v) \in Nat
      /\ DOMAIN w = 1 .. Len(w) /\ DOMAIN v = 1 .. Len(v) /\ DOMAIN u = 1 .. Len(w) + Len(v)
      /\ (\A i \in 1 .. Len(w) : u[i] = w[i])
      /\ (\A i \in 1 .. Len(v) : u[Len(w) + i] = v[i])
  BY <1>1
<1> HIDE DEF u
<1>3. ASSUME NEW i \in DOMAIN u, i \notin DOMAIN w
      PROVE  i - Len(w) \in DOMAIN v /\ u[i] = v[i - Len(w)]
  BY <1>2, <1>3
<1>4. WireFits(rm, ss, u, n)
  <2> SUFFICES ASSUME NEW i \in DOMAIN u
               PROVE  /\ FrameFits(rm, ss, u[i])
                      /\ n = rm.ver \/ (\E j \in DOMAIN u : j < i /\ Now(rm, u[j]))
                            => Fresh(rm, u[i])
    BY DEF WireFits
  <2>1. CASE i \in DOMAIN w
    <3>1. FrameFits(rm, ss, u[i]) /\ (n = rm.ver => Fresh(rm, u[i]))
      BY <1>2, <2>1 DEF WireFits
    <3>2. ASSUME NEW j \in DOMAIN u, j < i, Now(rm, u[j]) PROVE Fresh(rm, u[i])
      <4>1. j \in DOMAIN w /\ u[j] = w[j] /\ u[i] = w[i]
        BY <1>2, <2>1, <3>2
      <4> QED
        BY <2>1, <3>2, <4>1 DEF WireFits
    <3> QED
      BY <3>1, <3>2
  <2>2. CASE i \notin DOMAIN w
    BY <1>3, <2>2
  <2> QED
    BY <2>1, <2>2
<1>5. ASSUME NEW i \in DOMAIN w PROVE i \in DOMAIN u /\ u[i] = w[i]
  BY <1>2
<1>6. ASSUME NEW i \in DOMAIN v PROVE Len(w) + i \in DOMAIN u /\ u[Len(w) + i] = v[i]
  BY <1>2
<1>7. Told(rm, w) \/ Told(rm, v) => Told(rm, u)
  BY <1>5, <1>6 DEF Told
<1>8. Invalid(w) \/ Invalid(v) => Invalid(u)
  BY <1>5, <1>6 DEF Invalid
<1> QED
  BY <1>4, <1>7, <1>8 DEF u

-----------------------------------------------------------------------------
(* What the page does with a frame                                         *)

\* A frame that tells nothing new, and no refusal.
LEMMA TakenFits ==
    ASSUME NEW rm, NEW ss, NEW w, NEW p, IsWire(w), w # << >>, ~Now(rm, Head(w)), ~Bad(Head(w)),
           Linked(rm, ss, w, p), GateFits(rm, ss, w, p), ss.open
    PROVE  Linked(rm, ss, Tail(w), p) /\ GateFits(rm, ss, Tail(w), p)
<1>1. WireFits(rm, ss, Tail(w), p.seen)
      /\ (Told(rm, w) => Told(rm, Tail(w))) /\ (Invalid(w) => Invalid(Tail(w)))
  BY WireTakes DEF Linked
<1>2. Linked(rm, ss, Tail(w), p)
  BY <1>1 DEF Linked, SessionFits
<1>3. GateFits(rm, ss, Tail(w), p)
  BY <1>1 DEF GateFits, SealFits, KeptFits, Pending
<1> QED
  BY <1>2, <1>3

LEMMA HandleAckFits ==
    ASSUME NEW rm, NEW ss, NEW w, NEW p, NEW f, IsWire(w), w # << >>, f = Head(w), f.type = "ack",
           Linked(rm, ss, w, p), GateFits(rm, ss, w, p), ss.open
    PROVE  Linked(rm, ss, Tail(w), HandleAck(p, f)) /\ GateFits(rm, ss, Tail(w), HandleAck(p, f))
<1>1. Ready(p)
  BY DEF Linked, Ready
<1>2. f.code \in {"ok", "invalid", "locked"} /\ ~Now(rm, f)
  BY WireTail DEF IsFrame, Now
<1>3. CASE f.code = "ok"
  <2> DEFINE q == [p EXCEPT !.ops = IF @ = "sent" THEN "none" ELSE @]
  <2>1. Quiet(rm, ss, p, q)
    BY <1>1 DEF Quiet, Minor, Ready, PageFields
  <2>2. HandleAck(p, f) = q
    BY <1>3 DEF HandleAck
  <2> HIDE DEF q
  <2>3. ~Bad(f)
    BY <1>3 DEF Bad
  <2>4. Linked(rm, ss, Tail(w), p) /\ GateFits(rm, ss, Tail(w), p)
    BY <1>2, <2>3, TakenFits
  <2> QED
    BY <2>1, <2>2, <2>4, MinorLinked, QuietFits DEF Quiet
<1>4. CASE f.code # "ok"
  <2> DEFINE g == ForgetEdit(p)
             ops == IF g.ops = "sent" THEN "kept" ELSE g.ops
             q == HandleAck(p, f)
  <2>1. q = ShowLock(ForgetRoom(p)) \/ q = ShowLock([ForgetEdit(p) EXCEPT !.ops = ops])
    BY <1>2, <1>4 DEF HandleAck, OnInvalidViewPassword
  <2> HIDE DEF ops, q
  <2>2. Bad(f)
    BY <1>2, <1>4 DEF Bad
  <2>3. /\ p.seen = rm.ver => rm.pw # None
        /\ WireFits(rm, ss, Tail(w), p.seen) /\ (Told(rm, w) => Told(rm, Tail(w)))
    BY <1>2, <2>2, WireTakes DEF Linked, Fresh
  <2>4. Linked(rm, ss, Tail(w), p)
    BY <2>3 DEF Linked, SessionFits
  <2>5. Minor(rm, ss, p, q) /\ GateFits(rm, ss, Tail(w), q)
    BY <1>1, <2>1, <2>3, ForgottenShut
  <2> QED
    BY <2>4, <2>5, MinorLinked DEF q
<1> QED
  BY <1>3, <1>4

\* The page has heard of a lock: it is linked, and it has heard of the lock if and
\* only if the frame tells it.
LEMMA NoticedLinked ==
    ASSUME NEW rm, NEW ss, NEW w, NEW p, NEW f, NEW q, IsWire(w), w # << >>, f = Head(w),
           f.type = "state", q = Noticed(p, f.ver), Linked(rm, ss, w, p), ss.open
    PROVE  /\ Linked(rm, ss, Tail(w), q) /\ FrameFits(rm, ss, f)
           /\ q.net = p.net /\ q.edit = p.edit /\ q.late = p.late
           /\ q.seen = rm.ver <=> Now(rm, f)
<1>1. FrameFits(rm, ss, f) /\ (p.seen = rm.ver => Fresh(rm, f))
  BY WireTakes DEF Linked
<1>2. /\ DOMAIN q = PageFields /\ q.net = p.net /\ q.modal = p.modal /\ q.ver = p.ver
      /\ q.late = p.late /\ q.up = p.up /\ q.edit = p.edit
      /\ q.seen = IF f.ver > p.seen THEN f.ver ELSE p.seen
  BY DEF Linked, Noticed, PageFields
<1>3. /\ f.ver \in Nat /\ f.ver <= rm.ver /\ p.seen \in Nat /\ p.seen <= rm.ver
      /\ rm.ver \in Nat
  BY <1>1 DEF FrameFits, Linked, IsLock
<1>4. q.seen \in Nat /\ q.seen <= rm.ver /\ p.seen <= q.seen
  BY <1>2, <1>3
<1>5. q.seen = rm.ver <=> p.seen = rm.ver \/ Now(rm, f)
  BY <1>2, <1>3 DEF Now
<1>6. p.seen = rm.ver => Now(rm, f)
  BY <1>1 DEF Fresh, Now
<1>7. WireFits(rm, ss, Tail(w), q.seen) /\ (Told(rm, w) => Now(rm, f) \/ Told(rm, Tail(w)))
  BY <1>5, WireTakes DEF Linked
<1>8. SessionFits(rm, ss, Tail(w), q)
  BY <1>5, <1>7 DEF Linked, SessionFits
<1>9. \A r \in DOMAIN q.net : Asked(r, q.seen) /\ AnswerFits(rm, r)
  BY <1>2, <1>3, <1>4 DEF Linked, Asked
<1>10. Linked(rm, ss, Tail(w), q)
  BY <1>2, <1>4, <1>7, <1>8, <1>9 DEF Linked
<1> QED
  BY <1>1, <1>2, <1>5, <1>6, <1>10

LEMMA HandleStateFits ==
    ASSUME NEW rm, NEW w, NEW p, NEW f, IsWire(w), w # << >>, f = Head(w), f.type = "state",
           Linked(rm, sess, w, p), GateFits(rm, sess, w, p), sess.open,
           NEW q, q = HandleState(Noticed(p, f.ver), f)
    PROVE  Linked(rm, sess, Tail(w), q) /\ GateFits(rm, sess, Tail(w), q)
<1> DEFINE a == Noticed(p, f.ver)
           b == NoteLock([a EXCEPT !.shown = TRUE], f)
           c == SyncEditLockGate(b)
           e == ScheduleFlush([c EXCEPT !.ver = f.ver])
           v == Tail(w)
<1>1. /\ Linked(rm, sess, v, a) /\ FrameFits(rm, sess, f)
      /\ a.net = p.net /\ a.edit = p.edit /\ a.late = p.late
      /\ a.seen = rm.ver <=> Now(rm, f)
  BY NoticedLinked
<1>2. /\ f.ver < a.ver => q = a
      /\ ~(f.ver < a.ver) => q = IF f.required THEN RequestViewPassword(c) ELSE e
  BY DEF HandleState
<1> HIDE DEF a, v
<1>3. DOMAIN a = PageFields /\ IsLock(rm) /\ a.ver \in Nat /\ a.ver <= rm.ver
      /\ f.ver \in Nat /\ f.ver <= rm.ver /\ rm.ver \in Nat
  BY <1>1 DEF Linked, IsLock, FrameFits
<1>4. ~a.late => AsksFit(rm, a)
  BY <1>1 DEF GateFits, AsksFit
<1>5. CASE f.ver < a.ver
  <2>1. a.seen # rm.ver
    BY <1>1, <1>3, <1>5 DEF Now
  <2> QED
    BY <1>1, <1>2, <1>4, <1>5, <2>1, UnheardFits DEF v
<1>6. CASE ~(f.ver < a.ver)
  <2>1. /\ DOMAIN b = PageFields /\ b.net = a.net /\ b.modal = a.modal /\ b.ver = a.ver
        /\ b.seen = a.seen /\ b.late = a.late /\ b.up = a.up /\ b.edit = a.edit
        /\ b.set = f.set /\ b.scope = f.scope
    BY <1>3 DEF NoteLock, PageFields
  <2> HIDE DEF b
  <2>2. Minor(rm, sess, a, b)
    BY <2>1 DEF Minor
  <2>3. Linked(rm, sess, v, b)
    BY <1>1, <2>2, MinorLinked
  <2>4. Ready(b)
    BY <2>3 DEF Linked, Ready
  <2>5. Minor(rm, sess, b, c) /\ Synced(b, c)
    BY <2>4, SyncSteps
  <2> HIDE DEF c
  <2>6. Linked(rm, sess, v, c)
    BY <2>3, <2>5, MinorLinked
  <2>7. Heard(rm, b)
    BY <1>1, <2>1 DEF Heard, FrameFits, Now
  <2>8. ~c.late => Heard(rm, c) /\ Gated(rm, c) /\ AsksFit(rm, c)
    <3>1. ~c.late => AsksFit(rm, b)
      BY <1>4, <2>1, <2>5 DEF Synced, AsksFit
    <3> QED
      BY <1>3, <2>5, <2>7, <3>1, SyncedFits
  <2>9. CASE f.required
    <3>1. c.scope = "view"
      BY <1>1, <2>1, <2>5, <2>9 DEF Now, FrameFits, Synced
    <3>2. Minor(rm, sess, c, RequestViewPassword(c))
          /\ GateFits(rm, sess, v, RequestViewPassword(c))
      BY <2>6, <2>8, <3>1, RequestViewPasswordFits
    <3> QED
      BY <1>2, <1>6, <2>6, <2>9, <3>2, MinorLinked DEF v
  <2>10. CASE ~f.required
    <3>1. /\ DOMAIN e = PageFields /\ e.net = c.net /\ e.modal = c.modal /\ e.ver = f.ver
          /\ e.seen = c.seen /\ e.late = c.late /\ e.up = c.up /\ e.edit = c.edit
          /\ e.set = c.set /\ e.scope = c.scope /\ e.gate = c.gate /\ e.ops # "kept"
      BY <2>6 DEF Linked, ScheduleFlush, PageFields
    <3> HIDE DEF e
    <3>2. Minor(rm, sess, c, e)
      BY <1>3, <3>1 DEF Minor
    <3>3. Linked(rm, sess, v, e)
      BY <2>6, <3>2, MinorLinked
    <3>4. c.seen = a.seen
      BY <2>1, <2>5 DEF Minor
    <3>5. SealFits(rm, sess, v, e)
      BY <1>1, <2>10, <3>1, <3>4 DEF SealFits, FrameFits, Now
    <3>6. GateFits(rm, sess, v, e)
      BY <2>8, <3>1, <3>5 DEF GateFits, Heard, Gated, AsksFit, KeptFits
    <3> QED
      BY <1>2, <1>6, <2>10, <3>3, <3>6 DEF v
  <2> QED
    BY <2>9, <2>10
<1> QED
  BY <1>5, <1>6

LEMMA DeliverFits ==
    ASSUME PanelsInv, GateInv, Deliver
    PROVE  GateInv'
<1> DEFINE f == Head(wire)
<1>1. IsWire(wire) /\ wire # << >> /\ wire' = Tail(wire) /\ room' = room /\ sess' = sess
  BY DEF PanelsInv, Deliver
<1>2. page' = CASE f.type = "state" -> HandleState(Noticed(page, f.ver), f)
                [] f.type = "ack" -> HandleAck(page, f)
                [] f.type = "files" -> HandleRemoteFiles(page, f)
  BY DEF Deliver
<1>3. IsFrame(f) /\ sess.open
  BY <1>1, WireTail DEF GateInv, Linked, SessionFits
<1>4. Linked(room, sess, wire, page) /\ GateFits(room, sess, wire, page)
  BY DEF GateInv
<1> HIDE DEF f
<1>5. Linked(room, sess, Tail(wire), page') /\ GateFits(room, sess, Tail(wire), page')
  <2>1. CASE f.type = "state"
    BY <1>1, <1>2, <1>3, <1>4, <2>1, HandleStateFits DEF f
  <2>2. CASE f.type = "ack"
    BY <1>1, <1>2, <1>3, <1>4, <2>2, HandleAckFits DEF f
  <2>3. CASE f.type = "files"
    <3> DEFINE q == [page EXCEPT !.on = f.on]
    <3>1. ~Now(room, f) /\ ~Bad(f)
      BY <2>3 DEF Now, Bad
    <3>2. Linked(room, sess, Tail(wire), page) /\ GateFits(room, sess, Tail(wire), page)
      BY <1>1, <1>3, <1>4, <3>1, TakenFits DEF f
    <3>3. page' = RenderFileList(q, f.files)
      BY <1>2, <2>3 DEF HandleRemoteFiles
    <3>4. Quiet(room, sess, page, q) /\ DOMAIN q = PageFields
      BY <1>4, QuietSteps DEF Linked, Quiet, Minor
    <3> HIDE DEF q
    <3>5. Quiet(room, sess, page, page')
      BY <3>3, <3>4, QuietSteps, QuietTwice
    <3> QED
      BY <3>2, <3>5, MinorLinked, QuietFits DEF Quiet
  <2> QED
    BY <1>3, <2>1, <2>2, <2>3 DEF IsFrame
<1> QED
  BY <1>1, <1>5 DEF GateInv

-----------------------------------------------------------------------------
(* What the page does with an answer                                       *)

\* The page p that has the answer to r, and is told whether it comes late.
Judged(rm, w, p, r) ==
    /\ Linked(rm, sess, w, p) /\ GateFits(rm, sess, w, p)
    /\ Asked(r, p.seen) /\ AnswerFits(rm, r)
    /\ ~p.late =>
        /\ r.do \in {"check", "panel", "unlock", "load"} => r.seen = p.seen
        /\ r.do \in {"set", "change", "clear"} => ~(r.ans.ver < p.seen)
        /\ r.do = "unlock" => p.scope # "view"
        /\ r.do = "check" =>
              /\ p.edit # None /\ (r.seen = rm.ver => rm.scope = "edit")
              /\ p.ops = "kept" /\ sess.open => Pending(rm, sess, w, p)
        /\ r.do = "load" /\ r.seen = rm.ver => rm.scope # "view"

LEMMA ReleasedJudged ==
    ASSUME NEW rm, NEW w, NEW p, NEW r \in DOMAIN p.net, Linked(rm, sess, w, p),
           GateFits(rm, sess, w, p), NEW q, q = Released(p, r, p.late \/ Late(p, r))
    PROVE  Judged(rm, w, q, r)
<1>1. Ready(p)
  BY DEF Linked, Ready
<1>2. q.late = (p.late \/ Late(p, r)) /\ q.seen = p.seen /\ q.scope = p.scope /\ q.edit = p.edit
      /\ q.ops = p.ops /\ q.up = p.up
  BY <1>1 DEF Released, Ready, PageFields
<1>3. Quiet(rm, sess, p, q)
  BY <1>1, ReleasedQuiet
<1>4. Linked(rm, sess, w, q) /\ GateFits(rm, sess, w, q)
  BY <1>3, MinorLinked, QuietFits DEF Quiet
<1>5. Asked(r, q.seen) /\ AnswerFits(rm, r)
  BY <1>2 DEF Linked
<1>6. ASSUME ~q.late
      PROVE  /\ r.do \in {"check", "panel", "unlock", "load"} => r.seen = q.seen
             /\ r.do \in {"set", "change", "clear"} => ~(r.ans.ver < q.seen)
             /\ r.do = "unlock" => q.scope # "view"
  BY <1>2, <1>6 DEF Late
<1>7. ASSUME ~q.late, r.do = "check"
      PROVE  /\ q.edit # None /\ (r.seen = rm.ver => rm.scope = "edit")
             /\ q.ops = "kept" /\ sess.open => Pending(rm, sess, w, q)
  <2>1. AsksFit(rm, p) /\ KeptFits(rm, sess, w, p)
    BY <1>2, <1>7 DEF GateFits
  <2>2. q.edit # None /\ (r.seen = rm.ver => rm.scope = "edit")
    BY <1>2, <1>7, <2>1 DEF AsksFit
  <2>3. CASE r.seen = rm.ver
    BY <1>2, <1>7, <2>1, <2>2, <2>3 DEF KeptFits, Checking, Pending
  <2>4. CASE r.seen # rm.ver
    BY <1>4, <1>6, <1>7, <2>2, <2>4 DEF Linked, SessionFits, Pending
  <2> QED
    BY <2>3, <2>4
<1>8. ASSUME ~q.late, r.do = "load", r.seen = rm.ver
      PROVE  rm.scope # "view"
  BY <1>2, <1>8 DEF GateFits, AsksFit
<1> QED
  BY <1>4, <1>5, <1>6, <1>7, <1>8 DEF Judged

LEMMA OpenFits ==
    ASSUME NEW rm, NEW ss, NEW w, NEW p, NEW q, Minor(rm, ss, p, q),
           q.set = p.set, q.scope = p.scope, q.gate = "open",
           ~q.late =>
             /\ Heard(rm, p) /\ AsksFit(rm, q)
             /\ q.seen = rm.ver => rm.scope # "view" /\ (rm.scope = "edit" => q.edit # None)
             /\ q.ops = "kept" /\ ss.open => Pending(rm, ss, w, q)
    PROVE  GateFits(rm, ss, w, q)
<1>1. q.seen = p.seen
  BY DEF Minor
<1> QED
  BY <1>1 DEF GateFits, Heard, Gated, SealFits, KeptFits

LEMMA CheckedFits ==
    ASSUME NEW rm, NEW w, NEW p, NEW r, Judged(rm, w, p, r), r.do = "check"
    PROVE  Minor(rm, sess, p, Checked(p, r)) /\ GateFits(rm, sess, w, Checked(p, r))
<1>1. Ready(p) /\ IsLock(rm) /\ GateFits(rm, sess, w, p)
  BY DEF Judged, Linked, Ready
<1>2. CASE r.ans.code = "refused"
  <2>1. ~p.late /\ p.seen = rm.ver => rm.pw # None
    BY <1>1 DEF Judged, IsLock
  <2>2. Checked(p, r) = ShowLock(ForgetRoom(p))
    BY <1>2 DEF Checked
  <2> QED
    BY <1>1, <2>1, <2>2, ForgottenShut
<1>3. CASE r.ans.code # "refused"
  <2> DEFINE q == HideLock(p)
  <2>1. Checked(p, r) = q
    BY <1>3 DEF Checked
  <2>2. /\ DOMAIN q = PageFields /\ q.net = p.net /\ q.modal = p.modal /\ q.ver = p.ver
        /\ q.seen = p.seen /\ q.late = p.late /\ q.up = p.up /\ q.edit = p.edit
        /\ q.set = p.set /\ q.scope = p.scope /\ q.ops = p.ops /\ q.gate = "open"
    BY <1>1 DEF HideLock, Ready, PageFields
  <2> HIDE DEF q
  <2>3. Minor(rm, sess, p, q)
    BY <2>2 DEF Minor
  <2>4. ~p.late => Pending(rm, sess, w, q) \/ ~(q.ops = "kept" /\ sess.open)
    BY <2>2 DEF Judged, Pending
  <2>5. ~p.late => Heard(rm, p) /\ AsksFit(rm, q)
    BY <1>1, <2>2 DEF GateFits, AsksFit
  <2>6. ~p.late /\ q.seen = rm.ver => rm.scope = "edit" /\ q.edit # None
    BY <2>2 DEF Judged
  <2>7. GateFits(rm, sess, w, q)
    BY <2>2, <2>3, <2>4, <2>5, <2>6, OpenFits
  <2> QED
    BY <2>1, <2>3, <2>7 DEF q
<1> QED
  BY <1>2, <1>3

LEMMA UnlockedParts ==
    ASSUME NEW rm, NEW ss, NEW p, NEW r, Ready(p), NEW q, q = Unlocked(p, r)
    PROVE  /\ DOMAIN q = PageFields /\ q.net = p.net /\ q.modal = p.modal /\ q.ver = p.ver
           /\ q.seen = p.seen /\ q.late = p.late /\ q.up = p.up /\ q.edit = r.pw
           /\ q.set = p.set /\ q.scope = p.scope /\ q.ops = p.ops /\ q.gate = "open"
           /\ Minor(rm, ss, p, q)
<1>1. /\ DOMAIN q = PageFields /\ q.net = p.net /\ q.modal = p.modal /\ q.ver = p.ver
      /\ q.seen = p.seen /\ q.late = p.late /\ q.up = p.up /\ q.edit = r.pw
      /\ q.set = p.set /\ q.scope = p.scope /\ q.ops = p.ops /\ q.gate = "open"
  BY DEF Unlocked, RememberRoom, HideLock, Ready, PageFields
<1> QED
  BY <1>1 DEF Minor

LEMMA FlushedParts ==
    ASSUME NEW rm, NEW ss, NEW p, Ready(p), NEW q, q = ScheduleFlush(p)
    PROVE  /\ DOMAIN q = PageFields /\ q.net = p.net /\ q.modal = p.modal /\ q.ver = p.ver
           /\ q.seen = p.seen /\ q.late = p.late /\ q.up = p.up /\ q.edit = p.edit
           /\ q.set = p.set /\ q.scope = p.scope /\ q.ops # "kept" /\ q.gate = p.gate
           /\ Minor(rm, ss, p, q)
<1>1. /\ DOMAIN q = PageFields /\ q.net = p.net /\ q.modal = p.modal /\ q.ver = p.ver
      /\ q.seen = p.seen /\ q.late = p.late /\ q.up = p.up /\ q.edit = p.edit
      /\ q.set = p.set /\ q.scope = p.scope /\ q.ops # "kept" /\ q.gate = p.gate
  BY DEF ScheduleFlush, Ready, PageFields
<1> QED
  BY <1>1 DEF Minor

\* The right password opens the gate where the page is not sealed.
LEMMA UnlockFits ==
    ASSUME NEW rm, NEW w, NEW p, NEW r, Judged(rm, w, p, r), r.do \in {"unlock", "panel"},
           p.scope # "view" \/ r.do = "unlock",
           NEW q, q = ScheduleFlush(Unlocked(p, r))
    PROVE  /\ Minor(rm, sess, p, q) /\ GateFits(rm, sess, w, q) /\ q.scope = p.scope
           /\ q.ops # "kept" /\ q.gate = "open" /\ q.edit # None
<1> DEFINE u == Unlocked(p, r)
<1>1. Ready(p) /\ GateFits(rm, sess, w, p) /\ r.pw # None
  BY DEF Judged, Linked, Ready, Asked
<1>2. /\ DOMAIN u = PageFields /\ u.net = p.net /\ u.seen = p.seen /\ u.late = p.late
      /\ u.edit # None /\ u.set = p.set /\ u.scope = p.scope /\ u.gate = "open"
      /\ Minor(rm, sess, p, u)
  BY <1>1, UnlockedParts
<1>3. q = ScheduleFlush(u) /\ Ready(u)
  BY <1>1, <1>2 DEF Ready
<1> HIDE DEF u
<1>4. /\ q.net = p.net /\ q.seen = p.seen /\ q.late = p.late
      /\ q.edit # None /\ q.set = p.set /\ q.scope = p.scope /\ q.gate = "open"
      /\ q.ops # "kept" /\ Minor(rm, sess, p, q)
  BY <1>2, <1>3, FlushedParts, MinorTwice
<1>5. ~p.late => Heard(rm, p) /\ AsksFit(rm, q)
  BY <1>1, <1>4 DEF GateFits, AsksFit
<1>6. ~p.late /\ p.seen = rm.ver => rm.scope # "view"
  BY <1>5 DEF Judged, Heard
<1>7. GateFits(rm, sess, w, q)
  BY <1>4, <1>5, <1>6, OpenFits
<1> QED
  BY <1>4, <1>7

LEMMA PanelAnsweredFits ==
    ASSUME NEW rm, NEW w, NEW p, NEW r, Judged(rm, w, p, r), r.do = "panel"
    PROVE  Minor(rm, sess, p, PanelAnswered(p, r)) /\ GateFits(rm, sess, w, PanelAnswered(p, r))
<1> DEFINE u == Unlocked(p, r)
           s == ScheduleFlush(u)
           q == Fetch(s, "load", RoomPassword(s), [force |-> TRUE])
<1>1. Ready(p) /\ GateFits(rm, sess, w, p) /\ Linked(rm, sess, w, p) /\ IsLock(rm) /\ r.pw # None
  BY DEF Judged, Linked, Ready, Asked
<1>2. CASE p.scope = "view"
  <2>1. PanelAnswered(p, r) = RequestViewPassword(u)
    BY <1>2 DEF PanelAnswered
  <2>2. /\ u.net = p.net /\ u.seen = p.seen /\ u.late = p.late /\ u.edit # None
        /\ u.set = p.set /\ u.scope = "view" /\ u.gate = "open" /\ Minor(rm, sess, p, u)
    BY <1>1, <1>2, UnlockedParts
  <2> HIDE DEF u
  <2>3. Linked(rm, sess, w, u)
    BY <1>1, <2>2, MinorLinked
  <2>4. ~u.late => Heard(rm, u) /\ Gated(rm, u) /\ AsksFit(rm, u)
    BY <1>1, <1>2, <2>2 DEF GateFits, Heard, Gated, AsksFit, IsLock
  <2> QED
    BY <2>1, <2>2, <2>3, <2>4, RequestViewPasswordFits, MinorTwice
<1>3. CASE p.scope # "view"
  <2>1. PanelAnswered(p, r) = q
    BY <1>3 DEF PanelAnswered
  <2>2. Minor(rm, sess, p, s) /\ GateFits(rm, sess, w, s) /\ s.scope = p.scope
        /\ s.ops # "kept" /\ s.gate = "open" /\ s.edit # None
    BY <1>3, UnlockFits
  <2> DEFINE x == [do |-> "load", pw |-> RoomPassword(s), arg |-> [force |-> TRUE],
                   ans |-> Waits, seen |-> s.seen]
  <2>3. x.do = "load" /\ x.seen = s.seen
    OBVIOUS
  <2> HIDE DEF s, u
  <2>4. DOMAIN s = PageFields /\ s.seen \in Nat /\ s.seen = p.seen
    BY <1>1, <2>2 DEF Minor, Ready
  <2>5. /\ q.net = BagAdd(s.net, x) /\ q.late = s.late
        /\ q.set = s.set /\ q.scope = s.scope /\ q.ops = s.ops /\ q.gate = s.gate
        /\ q.edit = s.edit /\ q.seen = s.seen
    BY <2>4 DEF Fetch, PageFields
  <2>6. Minor(rm, sess, s, q)
    BY <2>4, FetchMinor, NoChange
  <2> HIDE DEF q, x
  <2>7. DOMAIN q.net = DOMAIN s.net \cup {x}
    BY <2>5 DEF BagAdd
  <2>8. ~q.late => Heard(rm, s) /\ AsksFit(rm, s)
    BY <2>2, <2>5 DEF GateFits
  <2>9. ~q.late /\ q.seen = rm.ver => rm.scope # "view"
    BY <1>3, <2>2, <2>5, <2>8 DEF Heard
  <2>10. ~q.late => AsksFit(rm, q)
    BY <2>3, <2>5, <2>7, <2>8, <2>9 DEF AsksFit
  <2>11. GateFits(rm, sess, w, q)
    BY <2>2, <2>5, <2>6, <2>8, <2>9, <2>10, OpenFits
  <2> QED
    BY <2>1, <2>2, <2>6, <2>11, MinorTwice
<1> QED
  BY <1>2, <1>3

\* Whoever changed the lock knows what it is now, unless a newer one was told.
LEMMA PasswordSetFits ==
    ASSUME NEW rm, NEW w, NEW p, NEW r, Judged(rm, w, p, r), r.do \in {"set", "change"},
           r.ans.code = "ok"
    PROVE  Minor(rm, sess, p, PasswordSet(p, r)) /\ GateFits(rm, sess, w, PasswordSet(p, r))
<1> DEFINE s == [p EXCEPT !.set = @ \/ r.do = "set", !.scope = r.arg.scope]
           t == RememberRoom(s, r.arg.next, r.arg.scope)
           q == PasswordSet(p, r)
<1>1. /\ Ready(p) /\ IsUp(p.up) /\ IsLock(rm) /\ p.seen \in Nat /\ p.seen <= rm.ver
      /\ r.arg.next # None
      /\ r.ans.ver \in Nat /\ r.ans.ver <= rm.ver
      /\ r.ans.ver = rm.ver => rm.pw # None /\ rm.scope = r.arg.scope
  BY DEF Judged, Linked, Ready, Asked, IsChange, AnswerFits
<1>2. /\ DOMAIN t = PageFields /\ t.net = p.net /\ t.modal = p.modal /\ t.ver = p.ver
      /\ t.seen = p.seen /\ t.late = p.late /\ t.up = p.up /\ t.edit # None
      /\ t.set = (p.set \/ r.do = "set") /\ t.scope = r.arg.scope /\ t.ops = p.ops
      /\ t.gate = p.gate
  BY <1>1 DEF RememberRoom, Ready, PageFields
<1>3. q = IF r.arg.scope = "view" THEN SendAuth(t, r.arg.next) ELSE t
  BY DEF PasswordSet
<1> HIDE DEF s, t, q
<1>4. Minor(rm, sess, p, t)
  BY <1>2 DEF Minor
<1>5. Quiet(rm, sess, t, q)
  BY <1>1, <1>2, <1>3, SendAuthQuiet, QuietItself
<1>6. GateFits(rm, sess, w, t)
  <2> SUFFICES ASSUME ~t.late PROVE
        /\ Heard(rm, t) /\ Gated(rm, t) /\ AsksFit(rm, t)
        /\ SealFits(rm, sess, w, t) /\ KeptFits(rm, sess, w, t)
    BY DEF GateFits
  <2>1. /\ Heard(rm, p) /\ Gated(rm, p) /\ AsksFit(rm, p)
        /\ SealFits(rm, sess, w, p) /\ KeptFits(rm, sess, w, p)
    BY <1>2 DEF Judged, GateFits
  <2>2. p.seen = rm.ver => r.ans.ver = rm.ver
    BY <1>1, <1>2 DEF Judged
  <2>3. Heard(rm, t)
    BY <1>1, <1>2, <2>1, <2>2 DEF Heard
  <2>4. Gated(rm, t) /\ AsksFit(rm, t)
    BY <1>2, <2>1 DEF Gated, AsksFit
  <2>5. SealFits(rm, sess, w, t)
    BY <1>2, <2>1 DEF SealFits
  <2>6. KeptFits(rm, sess, w, t)
    BY <1>2, <2>1 DEF KeptFits, Checking, Pending
  <2> QED
    BY <2>3, <2>4, <2>5, <2>6
<1> QED
  BY <1>4, <1>5, <1>6, MinorTwice, QuietFits DEF Quiet, q

LEMMA ClearedFits ==
    ASSUME NEW rm, NEW w, NEW p, NEW r, Judged(rm, w, p, r), r.do = "clear", r.ans.code = "ok",
           NEW q, q = [ForgetRoom(p) EXCEPT !.set = FALSE, !.scope = ""]
    PROVE  Minor(rm, sess, p, q) /\ GateFits(rm, sess, w, q)
<1>1. /\ Ready(p) /\ IsLock(rm) /\ p.seen \in Nat /\ p.seen <= rm.ver
      /\ r.ans.ver \in Nat /\ r.ans.ver <= rm.ver
      /\ r.ans.ver = rm.ver => rm.pw = None
  BY DEF Judged, Linked, Ready, AnswerFits
<1>2. /\ DOMAIN q = PageFields /\ q.net = p.net /\ q.modal = p.modal /\ q.ver = p.ver
      /\ q.late = (p.late \/ \E x \in DOMAIN p.net : x.do = "check")
      /\ q.seen = p.seen /\ q.up = p.up /\ q.set = FALSE /\ q.scope = "" /\ q.ops = p.ops
      /\ q.gate = p.gate
  BY <1>1 DEF ForgetRoom, ForgetEdit, Ready, PageFields
<1>3. Minor(rm, sess, p, q)
  BY <1>2 DEF Minor
<1>4. GateFits(rm, sess, w, q)
  <2> SUFFICES ASSUME ~q.late PROVE
        /\ Heard(rm, q) /\ Gated(rm, q) /\ AsksFit(rm, q)
        /\ SealFits(rm, sess, w, q) /\ KeptFits(rm, sess, w, q)
    BY DEF GateFits
  <2>1. /\ Heard(rm, p) /\ Gated(rm, p) /\ AsksFit(rm, p) /\ KeptFits(rm, sess, w, p)
    BY <1>2 DEF Judged, GateFits
  <2>2. p.seen = rm.ver => rm.pw = None /\ rm.scope = ""
    <3>1. ~(r.ans.ver < p.seen) /\ rm.ver \in Nat
      BY <1>1, <1>2 DEF Judged, IsLock
    <3>2. p.seen = rm.ver => rm.pw = None
      BY <1>1, <3>1
    <3> QED
      BY <1>1, <3>2 DEF IsLock
  <2>3. Heard(rm, q) /\ Gated(rm, q) /\ SealFits(rm, sess, w, q)
    BY <1>2, <2>1, <2>2 DEF Heard, Gated, SealFits
  <2>4. AsksFit(rm, q)
    BY <1>2, <2>1 DEF AsksFit
  <2>5. KeptFits(rm, sess, w, q)
    BY <1>2, <2>1 DEF KeptFits, Checking, Pending
  <2> QED
    BY <2>3, <2>4, <2>5
<1> QED
  BY <1>3, <1>4

LEMMA LoadedFits ==
    ASSUME NEW rm, NEW w, NEW p, NEW r, Judged(rm, w, p, r), r.do = "load", r.ans.code = "ok"
    PROVE  Minor(rm, sess, p, Loaded(p, r)) /\ GateFits(rm, sess, w, Loaded(p, r))
<1> DEFINE b == NoteLock(p, r.ans)
           c == SyncEditLockGate(b)
           q == [c EXCEPT !.ver = r.ans.ver, !.ops = "none", !.shown = TRUE]
<1>1. /\ Ready(p) /\ Linked(rm, sess, w, p) /\ GateFits(rm, sess, w, p) /\ IsLock(rm)
      /\ r.ans.ver \in Nat /\ r.ans.ver <= rm.ver
  BY DEF Judged, Linked, Ready, AnswerFits
<1>2. /\ DOMAIN b = PageFields /\ b.net = p.net /\ b.modal = p.modal /\ b.ver = p.ver
      /\ b.seen = p.seen /\ b.late = p.late /\ b.up = p.up /\ b.edit = p.edit
      /\ b.set = r.ans.set /\ b.scope = r.ans.scope
  BY <1>1 DEF NoteLock, Ready, PageFields
<1>3. Loaded(p, r) \in {p, q}
  BY DEF Loaded
<1> HIDE DEF b
<1>4. Minor(rm, sess, p, b) /\ Ready(b)
  BY <1>1, <1>2 DEF Minor, Ready
<1>5. Minor(rm, sess, b, c) /\ Synced(b, c)
  BY <1>4, SyncSteps
<1> HIDE DEF c
<1>6. /\ DOMAIN q = PageFields /\ q.net = c.net /\ q.modal = c.modal /\ q.ver = r.ans.ver
      /\ q.seen = c.seen /\ q.late = c.late /\ q.up = c.up /\ q.edit = c.edit
      /\ q.set = c.set /\ q.scope = c.scope /\ q.gate = c.gate /\ q.ops = "none"
  BY <1>5 DEF Minor, PageFields
<1> HIDE DEF q
<1>7. Minor(rm, sess, c, q)
  BY <1>1, <1>6 DEF Minor
<1>8. Minor(rm, sess, p, q)
  BY <1>4, <1>5, <1>7, MinorTwice
<1>9. GateFits(rm, sess, w, q)
  <2> SUFFICES ASSUME ~q.late PROVE
        /\ Heard(rm, q) /\ Gated(rm, q) /\ AsksFit(rm, q)
        /\ SealFits(rm, sess, w, q) /\ KeptFits(rm, sess, w, q)
    BY DEF GateFits
  <2>1. ~p.late /\ q.seen = p.seen /\ r.seen = p.seen
    BY <1>2, <1>5, <1>6, <1>8 DEF Minor, Judged
  <2>2. Heard(rm, b)
    BY <1>2, <2>1 DEF Heard, Judged, AnswerFits
  <2>3. AsksFit(rm, b)
    BY <1>1, <1>2, <2>1 DEF GateFits, AsksFit
  <2>4. Heard(rm, c) /\ Gated(rm, c) /\ AsksFit(rm, c)
    BY <1>1, <1>5, <2>2, <2>3, SyncedFits
  <2>5. Heard(rm, q) /\ Gated(rm, q) /\ AsksFit(rm, q)
    BY <1>6, <2>4 DEF Heard, Gated, AsksFit
  <2>6. p.seen = rm.ver => rm.scope # "view"
    BY <2>1 DEF Judged
  <2>7. SealFits(rm, sess, w, q) /\ KeptFits(rm, sess, w, q)
    BY <1>6, <2>1, <2>6 DEF SealFits, KeptFits
  <2> QED
    BY <2>5, <2>7
<1> QED
  BY <1>1, <1>3, <1>8, <1>9, QuietItself DEF Quiet, Ready

LEMMA HandledFits ==
    ASSUME NEW rm, NEW w, NEW p, NEW r, Judged(rm, w, p, r)
    PROVE  Linked(rm, sess, w, Handled(p, r)) /\ GateFits(rm, sess, w, Handled(p, r))
<1> DEFINE q == Handled(p, r)
           cleared == [ForgetRoom(p) EXCEPT !.set = FALSE, !.scope = ""]
<1>1. /\ Ready(p) /\ Linked(rm, sess, w, p) /\ GateFits(rm, sess, w, p)
      /\ IsChange(r.do, r.arg) /\ (r.do \in {"panel", "unlock", "copy"} => r.pw # None)
  BY DEF Judged, Linked, Ready, Asked
<1> SUFFICES Quiet(rm, sess, p, q) \/ (Minor(rm, sess, p, q) /\ GateFits(rm, sess, w, q))
  BY <1>1, MinorLinked, QuietFits DEF Quiet
<1>2. CASE r.do = "check"
  BY <1>2, CheckedFits DEF Handled
<1>3. CASE r.do = "upload"
  BY <1>1, <1>3, UploadAnsweredQuiet DEF Handled
<1>4. CASE r.do \notin {"check", "upload"} /\ r.ans.code # "ok"
  BY <1>1, <1>4, RefusedQuiet DEF Handled
<1>5. CASE r.do \notin {"check", "upload"} /\ r.ans.code = "ok"
  <2>1. q = Accepted(p, r)
    BY <1>5 DEF Handled
  <2> HIDE DEF q
  <2>2. CASE r.do = "unlock"
    <3>1. q = ScheduleFlush(Unlocked(p, r))
      BY <2>1, <2>2 DEF Accepted
    <3> QED
      BY <2>2, <3>1, UnlockFits
  <2>3. CASE r.do = "panel"
    <3>1. q = PanelAnswered(p, r)
      BY <2>1, <2>3 DEF Accepted
    <3> QED
      BY <2>3, <3>1, PanelAnsweredFits
  <2>4. CASE r.do \in {"set", "change"}
    <3>1. q = PasswordSet(p, r)
      BY <2>1, <2>4 DEF Accepted
    <3> QED
      BY <1>5, <2>4, <3>1, PasswordSetFits
  <2>5. CASE r.do = "clear"
    <3>1. q = cleared
      BY <2>1, <2>5 DEF Accepted
    <3> QED
      BY <1>5, <2>5, <3>1, ClearedFits
  <2>6. CASE r.do = "load"
    <3>1. q = Loaded(p, r)
      BY <2>1, <2>6 DEF Accepted
    <3> QED
      BY <1>5, <2>6, <3>1, LoadedFits
  <2>7. CASE r.do \notin {"unlock", "panel", "set", "change", "clear", "load"}
    BY <1>1, <2>1, <2>7, AcceptedQuiet
  <2> QED
    BY <2>2, <2>3, <2>4, <2>5, <2>6, <2>7
<1> QED
  BY <1>2, <1>3, <1>4, <1>5

LEMMA AnsweredFits ==
    ASSUME GateInv, Answered
    PROVE  GateInv'
<1>1. PICK r \in DOMAIN page.net :
        page' = Handled(Released(page, r, page.late \/ Late(page, r)), r)
  BY DEF Answered, Released
<1>2. room' = room /\ sess' = sess /\ wire' = wire
  BY DEF Answered
<1> DEFINE p == Released(page, r, page.late \/ Late(page, r))
<1>3. Judged(room, wire, p, r)
  BY ReleasedJudged DEF GateInv
<1> HIDE DEF p
<1>4. Linked(room, sess, wire, page') /\ GateFits(room, sess, wire, page')
  BY <1>1, <1>3, HandledFits DEF p
<1> QED
  BY <1>2, <1>4 DEF GateInv

-----------------------------------------------------------------------------
(* The room, the requests, the session                                     *)

\* The lock changed: nothing the page has heard is about this lock.
LEMMA MovedFits ==
    ASSUME NEW rm, NEW rn, NEW ss, NEW w, NEW p, Linked(rm, ss, w, p), GateFits(rm, ss, w, p),
           IsLock(rn), rn.ver = rm.ver + 1
    PROVE  Linked(rn, ss, w, p) /\ GateFits(rn, ss, w, p)
<1>1. /\ rm.ver \in Nat /\ p.seen \in Nat /\ p.seen <= rm.ver /\ p.ver \in Nat /\ p.ver <= rm.ver
      /\ ss.sent \in Nat /\ ss.sent <= rm.ver
  BY DEF Linked, IsLock, SessionFits
<1>2. p.seen # rn.ver /\ p.seen <= rn.ver /\ p.ver <= rn.ver /\ ss.sent # rn.ver
      /\ ss.sent <= rn.ver
  BY <1>1
<1>3. ASSUME NEW r \in DOMAIN p.net
      PROVE  r.seen # rn.ver /\ AnswerFits(rn, r)
  <2>1. Asked(r, p.seen) /\ AnswerFits(rm, r)
    BY DEF Linked
  <2>2. r.seen # rn.ver
    BY <1>1, <2>1 DEF Asked
  <2>3. r.ans.code = "ok" /\ r.do \in {"set", "change", "clear", "load"} =>
          r.ans.ver \in Nat /\ r.ans.ver <= rn.ver /\ r.ans.ver # rn.ver
    BY <1>1, <2>1 DEF AnswerFits
  <2> QED
    BY <2>2, <2>3 DEF AnswerFits
<1>4. WireFits(rn, ss, w, p.seen)
  <2>1. ASSUME NEW i \in DOMAIN w PROVE FrameFits(rn, ss, w[i]) /\ ~Now(rn, w[i])
    <3>1. w[i].type = "state" => w[i].ver \in Nat /\ w[i].ver <= rm.ver
      BY DEF Linked, WireFits, FrameFits
    <3>2. w[i].type = "state" => w[i].ver # rn.ver /\ w[i].ver <= rn.ver
      BY <1>1, <3>1
    <3>3. w[i].type = "state" => (w[i].required => w[i].scope = "view")
      BY DEF Linked, WireFits, FrameFits
    <3> QED
      BY <3>1, <3>2, <3>3 DEF FrameFits, Now
  <2> QED
    BY <1>2, <2>1 DEF WireFits
<1>5. SessionFits(rn, ss, w, p)
  BY <1>2 DEF Linked, SessionFits
<1>6. Linked(rn, ss, w, p)
  BY <1>2, <1>3, <1>4, <1>5 DEF Linked
<1>7. ~p.late => AsksFit(rn, p)
  BY <1>3 DEF GateFits, AsksFit
<1> QED
  BY <1>2, <1>6, <1>7, UnheardFits

LEMMA UnmovedFits ==
    ASSUME NEW rm, NEW rn, NEW ss, NEW w, NEW p, Linked(rm, ss, w, p), GateFits(rm, ss, w, p),
           rn.ver = rm.ver, rn.pw = rm.pw, rn.scope = rm.scope, rn.cred = rm.cred
    PROVE  Linked(rn, ss, w, p) /\ GateFits(rn, ss, w, p)
<1>1. AuthedIn(rn, ss) <=> AuthedIn(rm, ss)
  BY DEF AuthedIn
<1>2. \A f : (FrameFits(rn, ss, f) <=> FrameFits(rm, ss, f)) /\ (Now(rn, f) <=> Now(rm, f))
             /\ (Fresh(rn, f) <=> Fresh(rm, f))
  BY <1>1 DEF FrameFits, Now, Fresh
<1>3. WireFits(rn, ss, w, p.seen) /\ (Told(rn, w) <=> Told(rm, w))
  BY <1>2 DEF Linked, WireFits, Told
<1>4. Linked(rn, ss, w, p)
  BY <1>3 DEF Linked, IsLock, AnswerFits, SessionFits
<1>5. GateFits(rn, ss, w, p)
  BY <1>1, <1>3 DEF GateFits, Heard, Gated, AsksFit, SealFits, KeptFits, Checking, Pending
<1> QED
  BY <1>4, <1>5

LEMMA RelockedFits ==
    ASSUME NEW next, NEW scope, IsLock(room), IsRoom(room), next # None => scope \in Scopes,
           NEW rn, rn = Relocked(next, scope)
    PROVE  /\ rn = room \/ (IsLock(rn) /\ rn.ver = room.ver + 1)
           /\ next = None => rn.pw = None
           /\ next # None => rn.pw # None /\ rn.scope = scope
           /\ rn.ver \in Nat
<1>1. room.ver \in Nat /\ room.scope \in {"", "edit", "view"} /\ DOMAIN room = RoomFields
  BY DEF IsLock, IsRoom
<1>2. /\ room.ver \in Nat /\ room.scope \in {"", "edit", "view"} /\ DOMAIN room = RoomFields
      /\ room.ver + 1 \in Nat /\ room.ver + 1 # 0
      /\ room.pw = None <=> room.scope = ""
      /\ room.pw # None => room.cred # 0
  <2>4. room.ver \in Nat
    BY <1>1, Zenon
  <2>1. room.ver + 1 \in Nat /\ room.ver + 1 # 0
    BY ONLY <2>4
  <2>2. room.pw = None <=> room.scope = ""
    BY DEF IsLock
  <2>3. room.pw # None => room.cred # 0
    BY DEF IsLock
  <2> QED
    BY <1>1, <2>1, <2>2, <2>3
<1>3. CASE next = None
  <2>1. CASE room.pw = None
    BY <1>2, <1>3, <2>1 DEF Relocked
  <2>2. CASE room.pw # None
    <3>1. rn = [room EXCEPT !.pw = None, !.scope = "", !.cred = 0, !.ver = @ + 1]
      BY <1>3, <2>2 DEF Relocked
    <3>2. rn.pw = None /\ rn.scope = "" /\ rn.ver = room.ver + 1
      BY <1>2, <3>1 DEF RoomFields
    <3> QED
      BY <1>2, <1>3, <3>2 DEF IsLock
  <2> QED
    BY <2>1, <2>2
<1>4. CASE next # None
  <2>1. scope \in {"edit", "view"}
    BY <1>4 DEF Scopes
  <2>2. CASE next = room.pw /\ scope = room.scope
    <3>1. rn = room
      BY <1>4, <2>1, <2>2 DEF Relocked
    <3> QED
      BY <1>2, <1>4, <2>2, <3>1
  <2>3. CASE next = room.pw /\ scope # room.scope
    <3>1. rn = [room EXCEPT !.scope = scope, !.ver = @ + 1]
      BY <1>4, <2>1, <2>3 DEF Relocked
    <3>2. rn.pw = next /\ rn.scope = scope /\ rn.cred = room.cred /\ rn.ver = room.ver + 1
      BY <1>2, <2>3, <3>1 DEF RoomFields
    <3> QED
      BY <1>2, <1>4, <2>1, <2>3, <3>2 DEF IsLock
  <2>4. CASE next # room.pw
    <3>1. rn = [room EXCEPT !.pw = next, !.scope = scope, !.cred = room.ver + 1, !.ver = @ + 1]
      BY <1>4, <2>1, <2>4 DEF Relocked
    <3>2. rn.pw = next /\ rn.scope = scope /\ rn.cred = room.ver + 1 /\ rn.ver = room.ver + 1
      BY <1>2, <3>1 DEF RoomFields
    <3> QED
      BY <1>2, <1>4, <2>1, <3>2 DEF IsLock
  <2> QED
    BY <2>2, <2>3, <2>4
<1> QED
  BY <1>3, <1>4

\* A request gets an answer that is so.
LEMMA GivenFits ==
    ASSUME NEW rm, NEW ss, NEW w, NEW p, NEW r \in DOMAIN p.net, NEW a, IsRequest(r),
           Linked(rm, ss, w, p), GateFits(rm, ss, w, p), AnswerFits(rm, [r EXCEPT !.ans = a]),
           NEW q, q = Given(p, r, a)
    PROVE  Linked(rm, ss, w, q) /\ GateFits(rm, ss, w, q)
<1> DEFINE s == [r EXCEPT !.ans = a]
<1>1. /\ DOMAIN q = PageFields /\ q.net = BagAdd(BagRemove(p.net, r), s)
      /\ q.modal = p.modal /\ q.ver = p.ver /\ q.seen = p.seen /\ q.late = p.late
      /\ q.up = p.up /\ q.edit = p.edit /\ q.set = p.set /\ q.scope = p.scope
      /\ q.ops = p.ops /\ q.gate = p.gate
  BY DEF Given, Linked, PageFields
<1>2. s.do = r.do /\ s.pw = r.pw /\ s.arg = r.arg /\ s.seen = r.seen
  BY DEF IsRequest
<1>3. AnswerFits(rm, s)
  OBVIOUS
<1> HIDE DEF s
<1>4. DOMAIN q.net \subseteq DOMAIN p.net \cup {s}
  BY <1>1 DEF BagAdd, BagRemove
<1>5. ASSUME NEW x \in DOMAIN q.net
      PROVE  \E y \in DOMAIN p.net :
                x.do = y.do /\ x.pw = y.pw /\ x.arg = y.arg /\ x.seen = y.seen
  BY <1>2, <1>4
<1>6. \A x \in DOMAIN q.net : Asked(x, q.seen) /\ AnswerFits(rm, x)
  BY <1>1, <1>2, <1>3, <1>4 DEF Linked, Asked
<1>7. Linked(rm, ss, w, q)
  BY <1>1, <1>6 DEF Linked, SessionFits
<1>8. AsksFit(rm, p) => AsksFit(rm, q)
  BY <1>1, <1>5 DEF AsksFit
<1>9. Checking(rm, q) => Checking(rm, p)
  BY <1>1, <1>5 DEF Checking
<1>10. GateFits(rm, ss, w, q)
  BY <1>1, <1>8, <1>9 DEF GateFits, Heard, Gated, SealFits, KeptFits, Pending
<1> QED
  BY <1>7, <1>10

LEMMA ServeFits ==
    ASSUME PanelsInv, GateInv, Serve
    PROVE  GateInv'
<1>1. PICK r \in DOMAIN page.net :
        /\ page' = Replace(r, [r EXCEPT !.ans = Answer(r)])
        /\ room' = IF Code(r) = "ok" THEN Effect(r) ELSE room
        /\ UNCHANGED <<sess, wire, left>>
  BY DEF Serve
<1> DEFINE a == Answer(r)
           s == [r EXCEPT !.ans = a]
<1>2. /\ IsRoom(room) /\ IsRequest(r) /\ IsLock(room) /\ IsChange(r.do, r.arg)
      /\ Linked(room, sess, wire, page) /\ GateFits(room, sess, wire, page)
      /\ room.ver \in Nat
  BY DEF PanelsInv, Uploading, IsPage, GateInv, Linked, Asked, IsLock
<1>3. page' = Given(page, r, a)
  BY <1>1 DEF Replace, Given
<1>4. s.do = r.do /\ s.arg = r.arg /\ s.seen = r.seen /\ s.ans = a
  BY <1>2 DEF IsRequest
<1>5. a.code = Code(r)
  BY AnswerCode
<1>6. CASE Code(r) = "ok" /\ r.do \in {"set", "change", "clear"}
  <2>1. room' = Relocked(r.arg.next, r.arg.scope) /\ a.ver = room'.ver
    BY <1>1, <1>6 DEF Effect, Answer
  <2>2. r.arg.next # None => r.arg.scope \in Scopes /\ r.do # "clear"
    BY <1>2, <1>6 DEF IsChange
  <2>3. r.arg.next = None => r.do = "clear"
    BY <1>2, <1>6 DEF IsChange
  <2> HIDE DEF a, s
  <2>4. /\ room' = room \/ (IsLock(room') /\ room'.ver = room.ver + 1)
        /\ r.arg.next = None => room'.pw = None
        /\ r.arg.next # None => room'.pw # None /\ room'.scope = r.arg.scope
        /\ room'.ver \in Nat
    BY <1>2, <2>1, <2>2, RelockedFits
  <2>5. Linked(room', sess, wire, page) /\ GateFits(room', sess, wire, page)
    BY <1>2, <2>4, MovedFits
  <2>6. AnswerFits(room', s)
    BY <1>4, <1>6, <2>1, <2>2, <2>3, <2>4 DEF AnswerFits
  <2>7. Linked(room', sess, wire, page') /\ GateFits(room', sess, wire, page')
    BY <1>2, <1>3, <2>5, <2>6, GivenFits DEF s
  <2> QED
    BY <1>1, <2>7 DEF GateInv
<1>7. CASE Code(r) # "ok" \/ r.do \notin {"set", "change", "clear"}
  <2>1. /\ room'.ver = room.ver /\ room'.pw = room.pw /\ room'.scope = room.scope
        /\ room'.cred = room.cred
    <3>1. CASE Code(r) # "ok"
      BY <1>1, <3>1
    <3>2. CASE Code(r) = "ok" /\ r.do = "upload"
      <4> DEFINE k == Kept(room.files \cup {[id |-> room.ids + 1, key |-> r.arg.filepw,
                                             batch |-> r.arg.batch, item |-> r.arg.item]})
      <4>1. room' = [k EXCEPT !.ids = @ + 1]
        BY <1>1, <3>2 DEF Effect
      <4>2. /\ k.ver = room.ver /\ k.pw = room.pw /\ k.scope = room.scope /\ k.cred = room.cred
            /\ DOMAIN k = RoomFields
        BY <1>2 DEF Kept, IsRoom, RoomFields
      <4> HIDE DEF k
      <4> QED
        BY <4>1, <4>2 DEF RoomFields
    <3>3. CASE Code(r) = "ok" /\ r.do = "delete"
      BY <1>1, <1>2, <3>3 DEF Effect, Kept, IsRoom, RoomFields
    <3>4. CASE Code(r) = "ok" /\ r.do = "toggle"
      BY <1>1, <1>2, <3>4 DEF Effect, IsRoom, RoomFields
    <3>5. CASE Code(r) = "ok" /\ r.do \notin {"upload", "delete", "toggle"}
      BY <1>1, <1>7, <3>5 DEF Effect
    <3> QED
      BY <3>1, <3>2, <3>3, <3>4, <3>5
  <2>2. Linked(room', sess, wire, page) /\ GateFits(room', sess, wire, page)
    BY <1>2, <2>1, UnmovedFits
  <2>3. a.code = "ok" /\ r.do = "load" =>
          a.ver = room.ver /\ (a.set <=> room.pw # None) /\ a.scope = room.scope
    BY <1>5 DEF Answer
  <2> HIDE DEF a, s
  <2>4. AnswerFits(room', s)
    BY <1>2, <1>4, <1>5, <1>7, <2>1, <2>3 DEF AnswerFits
  <2>5. Linked(room', sess, wire, page') /\ GateFits(room', sess, wire, page')
    BY <1>2, <1>3, <2>2, <2>4, GivenFits DEF s
  <2> QED
    BY <1>1, <2>5 DEF GateInv
<1> QED
  BY <1>6, <1>7

LEMMA LoseFits ==
    ASSUME PanelsInv, GateInv, Lose
    PROVE  GateInv'
<1>1. PICK r \in DOMAIN page.net :
        page' = Given(page, r, [code |-> "lost", ver |-> page.seen])
  BY DEF Lose, Replace, Given
<1> DEFINE a == [code |-> "lost", ver |-> page.seen]
           s == [r EXCEPT !.ans = a]
<1>2. IsRequest(r) /\ room' = room /\ wire' = wire /\ sess' = sess
  BY DEF PanelsInv, Uploading, IsPage, Lose
<1>3. s.ans.code = "lost"
  BY <1>2 DEF IsRequest
<1>4. AnswerFits(room, s)
  BY <1>3 DEF AnswerFits
<1>5. page' = Given(page, r, a)
  BY <1>1
<1> HIDE DEF a
<1>6. Linked(room, sess, wire, page') /\ GateFits(room, sess, wire, page')
  BY <1>2, <1>4, <1>5, GivenFits DEF GateInv
<1> QED
  BY <1>2, <1>6 DEF GateInv

LEMMA OthersFit ==
    ASSUME PanelsInv, GateInv, OthersLock \/ OthersFiles
    PROVE  GateInv'
<1>1. /\ IsRoom(room) /\ IsLock(room)
      /\ Linked(room, sess, wire, page) /\ GateFits(room, sess, wire, page)
  BY DEF PanelsInv, Uploading, GateInv, Linked
<1>2. page' = page /\ sess' = sess /\ wire' = wire
  BY DEF OthersLock, OthersFiles
<1>3. CASE OthersLock
  <2>1. PICK next \in Passwords \cup {None}, scope \in Scopes : room' = Relocked(next, scope) /\ room' # room
    BY <1>3 DEF OthersLock
  <2>2. IsLock(room') /\ room'.ver = room.ver + 1
    BY <1>1, <2>1, RelockedFits
  <2> QED
    BY <1>1, <1>2, <2>2, MovedFits DEF GateInv
<1>4. CASE OthersFiles
  <2>1. /\ room'.ver = room.ver /\ room'.pw = room.pw /\ room'.scope = room.scope
        /\ room'.cred = room.cred
    BY <1>1, <1>4 DEF OthersFiles, Kept, IsRoom, RoomFields
  <2> QED
    BY <1>1, <1>2, <2>1, UnmovedFits DEF GateInv
<1> QED
  BY <1>3, <1>4

\* The session is authenticated, or has sent more than it had.
LEMMA SessionMoves ==
    ASSUME NEW rm, NEW ss, NEW st, NEW w, NEW n, WireFits(rm, ss, w, n),
           AuthedIn(rm, ss) => AuthedIn(rm, st)
    PROVE  WireFits(rm, st, w, n)
BY DEF WireFits, FrameFits

LEMMA StateFrameFits ==
    ASSUME NEW authed \in BOOLEAN, NEW ss, IsLock(room), authed => AuthedIn(room, ss)
    PROVE  FrameFits(room, ss, StateFrame(authed)) /\ Fresh(room, StateFrame(authed))
<1> DEFINE f == StateFrame(authed)
<1>1. /\ f.type = "state" /\ f.ver = room.ver /\ f.scope = room.scope
      /\ (f.set <=> room.pw # None) /\ (f.required <=> room.scope = "view" /\ ~authed)
  BY DEF StateFrame, Sealed
<1> HIDE DEF f
<1>2. FrameFits(room, ss, f)
  <2>1. room.ver \in Nat
    BY DEF IsLock
  <2>2. f.ver \in Nat /\ f.ver <= room.ver
    BY <1>1, <2>1
  <2>3. f.required => f.scope = "view"
    BY <1>1
  <2>4. room.scope = "view" /\ ~f.required => AuthedIn(room, ss)
    BY <1>1
  <2> QED
    BY <1>1, <2>2, <2>3, <2>4 DEF FrameFits
<1>3. Fresh(room, f)
  BY <1>1 DEF Fresh, Bad
<1> QED
  BY <1>2, <1>3 DEF f

LEMMA FramesFit ==
    ASSUME NEW forced \in BOOLEAN, NEW authed \in BOOLEAN, NEW sent, NEW told, NEW ss, IsLock(room),
           authed => AuthedIn(room, ss), NEW v, v = Frames(forced, authed, sent, told)
    PROVE  /\ IsWire(v)
           /\ \A i \in DOMAIN v : FrameFits(room, ss, v[i]) /\ Fresh(room, v[i])
           /\ forced \/ sent # room.ver => Told(room, v)
<1> DEFINE a == IF forced \/ sent # room.ver THEN <<StateFrame(authed)>> ELSE << >>
           b == IF ~(Sealed /\ ~authed) /\ (forced \/ told # room.rev)
                THEN <<FilesFrame>> ELSE << >>
           S == {StateFrame(authed), FilesFrame}
<1>1. \A f \in S : FrameFits(room, ss, f) /\ Fresh(room, f)
  <2>1. FrameFits(room, ss, StateFrame(authed)) /\ Fresh(room, StateFrame(authed))
    BY StateFrameFits
  <2>2. FrameFits(room, ss, FilesFrame) /\ Fresh(room, FilesFrame)
    BY DEF FilesFrame, FrameFits, Fresh, Bad
  <2> QED
    BY <2>1, <2>2
<1>2. Now(room, StateFrame(authed)) /\ StateFrame(authed) \in S /\ FilesFrame \in S
  BY DEF Now, StateFrame
<1>3. v = a \o b
  BY DEF Frames
<1> HIDE DEF S
<1>4. a \in Seq(S) /\ b \in Seq(S)
  BY <1>2
<1>5. forced \/ sent # room.ver => Len(a) = 1 /\ a[1] = StateFrame(authed)
  OBVIOUS
<1> HIDE DEF a, b
<1>6. v \in Seq(S)
  BY <1>3, <1>4
<1>7. \A i \in DOMAIN v : v[i] \in S
  BY <1>6
<1>8. forced \/ sent # room.ver => 1 \in DOMAIN v /\ v[1] = StateFrame(authed)
  BY <1>3, <1>4, <1>5
<1> QED
  BY <1>1, <1>2, <1>7, <1>8, FramesWire DEF Told

LEMMA PushFits ==
    ASSUME PanelsInv, GateInv, Push
    PROVE  GateInv'
<1> DEFINE forced == sess.ring \/ Authed # sess.authed
           v == Frames(forced, Authed, sess.sent, sess.told)
<1>1. /\ IsWire(wire) /\ IsLock(room)
      /\ Linked(room, sess, wire, page) /\ GateFits(room, sess, wire, page)
      /\ WireFits(room, sess, wire, page.seen) /\ SessionFits(room, sess, wire, page)
      /\ room.ver \in Nat
  BY DEF PanelsInv, GateInv, Linked, IsLock
<1>2. /\ wire' = wire \o v /\ sess.open /\ room' = room /\ page' = page
      /\ sess' = [sess EXCEPT !.sent = room.ver, !.authed = Authed, !.ring = FALSE,
                              !.told = IF Sealed /\ ~Authed THEN @ ELSE room.rev]
  BY DEF Push
<1>3. /\ DOMAIN sess' = DOMAIN sess /\ sess'.open = sess.open /\ sess'.cred = sess.cred
      /\ sess'.sent = room.ver
  BY <1>1, <1>2 DEF SessionFits
<1>4. AuthedIn(room, sess') <=> AuthedIn(room, sess)
  BY <1>3 DEF AuthedIn
<1>5. /\ IsWire(v) /\ \A i \in DOMAIN v : FrameFits(room, sess', v[i]) /\ Fresh(room, v[i])
      /\ forced \/ sess.sent # room.ver => Told(room, v)
  <2> DEFINE authed == Authed
  <2>1. authed \in BOOLEAN /\ (authed => AuthedIn(room, sess'))
    BY <1>4 DEF Authed, AuthedIn
  <2> DEFINE sent == sess.sent
             told == sess.told
             ss == sess'
  <2>2. v = Frames(forced, authed, sent, told)
    OBVIOUS
  <2>3. IsLock(room) /\ forced \in BOOLEAN
    BY <1>1
  <2> HIDE DEF forced, authed, v, sent, told, ss
  <2>4. authed \in BOOLEAN /\ (authed => AuthedIn(room, ss))
    BY <2>1 DEF ss
  <2>5. /\ IsWire(v) /\ \A i \in DOMAIN v : FrameFits(room, ss, v[i]) /\ Fresh(room, v[i])
        /\ forced \/ sent # room.ver => Told(room, v)
    BY ONLY <2>2, <2>3, <2>4, FramesFit
  <2> QED
    BY <2>5 DEF sent, ss
<1>6. sess.ring => forced
  OBVIOUS
<1> HIDE DEF forced, v
<1>7. WireFits(room, sess', wire, page.seen)
  BY <1>1, <1>4, SessionMoves
<1>8. /\ WireFits(room, sess', wire', page.seen)
      /\ Told(room, wire) \/ Told(room, v) => Told(room, wire')
      /\ Invalid(wire) => Invalid(wire')
  BY <1>1, <1>2, <1>5, <1>7, WireGrows
<1>9. SessionFits(room, sess', wire', page)
  BY <1>1, <1>2, <1>3, <1>5, <1>8 DEF SessionFits
<1>10. Linked(room, sess', wire', page)
  BY <1>1, <1>8, <1>9 DEF Linked
<1>11. GateFits(room, sess', wire', page)
  BY <1>1, <1>2, <1>3, <1>4, <1>5, <1>6, <1>8 DEF GateFits, SealFits, KeptFits, Pending
<1> QED
  BY <1>2, <1>10, <1>11 DEF GateInv

\* What the read loop does with a message, as far as the page can tell.
LEMMA ReceiveParts ==
    ASSUME PanelsInv, GateInv, Receive
    PROVE  /\ WireFits(room, sess', wire', page.seen)
           /\ Told(room, wire) => Told(room, wire')
           /\ Invalid(wire) => Invalid(wire')
           /\ DOMAIN sess' = DOMAIN sess /\ sess'.open = sess.open /\ sess'.sent = sess.sent
           /\ sess.ring => sess'.ring
           /\ AuthedIn(room, sess) => AuthedIn(room, sess')
           /\ \/ Auths(page.up) => Auths(Tail(page.up))
              \/ room.scope # "view"
              \/ Invalid(wire')
              \/ sess'.ring /\ AuthedIn(room, sess')
<1> DEFINE m == Head(page.up)
<1>1. /\ IsWire(wire) /\ IsLock(room) /\ IsUp(page.up) /\ page.up # << >>
      /\ WireFits(room, sess, wire, page.seen) /\ SessionFits(room, sess, wire, page)
  BY DEF PanelsInv, GateInv, Linked, Receive
<1>2. ASSUME NEW code, code \in {"ok", "invalid", "locked"}, Ack(code),
             code \in {"invalid", "locked"} => room.pw # None
      PROVE  /\ WireFits(room, sess, wire', page.seen)
             /\ Told(room, wire) => Told(room, wire')
             /\ Invalid(wire) \/ code = "invalid" => Invalid(wire')
  <2> DEFINE f == [type |-> "ack", code |-> code]
             v == <<f>>
  <2>1. IsFrame(f) /\ FrameFits(room, sess, f) /\ Fresh(room, f)
    BY <1>2 DEF IsFrame, FrameFits, Fresh, Bad
  <2>2. f.type = "ack" /\ f.code = code
    OBVIOUS
  <2>3. wire' = Append(wire, f)
    BY <1>2 DEF Ack
  <2> HIDE DEF f
  <2>4. DOMAIN v = {1} /\ v[1] = f
    OBVIOUS
  <2>5. IsWire(v)
    <3> DEFINE S == {f}
    <3>1. v \in Seq(S) /\ \A g \in S : IsFrame(g)
      BY <2>1
    <3> HIDE DEF S
    <3> QED
      BY <3>1, WireOf
  <2>6. wire' = wire \o v
    BY <1>1, <2>3 DEF IsWire
  <2> HIDE DEF v
  <2>7. Invalid(v) <=> code = "invalid"
    BY <2>2, <2>4 DEF Invalid
  <2>8. \A i \in DOMAIN v : FrameFits(room, sess, v[i]) /\ Fresh(room, v[i])
    BY <2>1, <2>4
  <2> QED
    BY <1>1, <2>5, <2>6, <2>7, <2>8, WireGrows
<1>3. ASSUME Authenticate, Sealed
      PROVE  /\ DOMAIN sess' = DOMAIN sess /\ sess'.open = sess.open /\ sess'.sent = sess.sent
             /\ sess'.ring /\ AuthedIn(room, sess')
  BY <1>1, <1>3 DEF Authenticate, Sealed, SessionFits, IsLock, AuthedIn
<1>4. m.type # "auth" => (Auths(page.up) => Auths(Tail(page.up)))
  BY <1>1, UpShrinks
<1> HIDE DEF m
<1>5. CASE m.type = "auth" /\ ~Sealed /\ UNCHANGED <<sess, wire>>
  BY <1>1, <1>5 DEF Sealed
<1>6. CASE m.type = "auth" /\ Sealed /\ Authenticate /\ UNCHANGED wire
  BY <1>1, <1>3, <1>6, SessionMoves
<1>7. CASE Sealed /\ Ack("invalid") /\ UNCHANGED sess
  <2>1. room.pw # None
    BY <1>1, <1>7 DEF Sealed, IsLock
  <2> QED
    BY <1>2, <1>7, <2>1
<1>8. CASE /\ m.type = "ops" /\ Ack("ok")
           /\ IF Sealed /\ ~Authed THEN Authenticate ELSE UNCHANGED sess
  <2>1. /\ WireFits(room, sess, wire', page.seen)
        /\ Told(room, wire) => Told(room, wire')
        /\ Invalid(wire) => Invalid(wire')
    BY <1>2, <1>8
  <2>2. Auths(page.up) => Auths(Tail(page.up))
    BY <1>4, <1>8
  <2>3. CASE Sealed /\ ~Authed
    BY <1>3, <1>8, <2>1, <2>2, <2>3, SessionMoves
  <2>4. CASE ~(Sealed /\ ~Authed)
    BY <1>8, <2>1, <2>2, <2>4
  <2> QED
    BY <2>3, <2>4
<1>9. CASE m.type = "ops" /\ room.pw # None /\ Ack("locked") /\ UNCHANGED sess
  <2>1. Auths(page.up) => Auths(Tail(page.up))
    BY <1>4, <1>9
  <2> QED
    BY <1>2, <1>9, <2>1
<1> QED
  BY <1>5, <1>6, <1>7, <1>8, <1>9 DEF Receive, Denied, Wrong, m

LEMMA ReceiveFits ==
    ASSUME PanelsInv, GateInv, Receive
    PROVE  GateInv'
<1>1. /\ Linked(room, sess, wire, page) /\ GateFits(room, sess, wire, page)
      /\ SessionFits(room, sess, wire, page) /\ IsUp(page.up) /\ DOMAIN page = PageFields
  BY DEF GateInv, Linked
<1>2. room' = room /\ page' = [page EXCEPT !.up = Tail(@)] /\ page.up # << >>
  BY DEF Receive
<1>3. sess.open
  BY <1>1, <1>2 DEF SessionFits
<1>4. /\ DOMAIN page' = PageFields /\ page'.net = page.net /\ page'.modal = page.modal
      /\ page'.ver = page.ver /\ page'.seen = page.seen /\ page'.late = page.late
      /\ page'.edit = page.edit /\ page'.set = page.set /\ page'.scope = page.scope
      /\ page'.ops = page.ops /\ page'.gate = page.gate /\ page'.up = Tail(page.up)
  BY <1>1, <1>2 DEF PageFields
<1>5. IsUp(page'.up)
  BY <1>1, <1>2, <1>4, UpShrinks
<1>6. SessionFits(room, sess', wire', page')
  BY <1>1, <1>3, <1>4, ReceiveParts DEF SessionFits
<1>7. Linked(room, sess', wire', page')
  BY <1>1, <1>4, <1>5, <1>6, ReceiveParts DEF Linked
<1>8. SealFits(room, sess, wire, page) => SealFits(room, sess', wire', page')
  BY <1>3, <1>4, ReceiveParts DEF SealFits
<1>9. KeptFits(room, sess, wire, page) => KeptFits(room, sess', wire', page')
  BY <1>3, <1>4, ReceiveParts DEF KeptFits, Checking, Pending
<1>10. GateFits(room, sess', wire', page')
  BY <1>1, <1>4, <1>8, <1>9 DEF GateFits, Heard, Gated, AsksFit
<1> QED
  BY <1>2, <1>7, <1>10 DEF GateInv

LEMMA ConnectFits ==
    ASSUME PanelsInv, GateInv, Connect
    PROVE  GateInv'
<1>1. /\ Linked(room, sess, wire, page) /\ GateFits(room, sess, wire, page)
      /\ SessionFits(room, sess, wire, page) /\ IsLock(room) /\ room.ver \in Nat
  BY DEF GateInv, Linked, IsLock
<1> DEFINE v == Frames(TRUE, FALSE, 0, 0)
<1>2. /\ wire' = v /\ room' = room /\ page' = page
      /\ sess' = [open |-> TRUE, cred |-> 0, authed |-> FALSE, ring |-> FALSE, sent |-> room.ver,
                  told |-> IF Sealed THEN 0 ELSE room.rev]
  BY DEF Connect
<1>3. /\ \A i \in DOMAIN v : FrameFits(room, sess', v[i]) /\ Fresh(room, v[i])
      /\ Told(room, v)
  BY <1>1, FramesFit
<1> HIDE DEF v
<1>4. /\ DOMAIN sess' = {"open", "cred", "authed", "ring", "sent", "told"}
      /\ sess'.sent = room.ver /\ sess'.open
  BY <1>2
<1>5. WireFits(room, sess', wire', page.seen)
  BY <1>2, <1>3 DEF WireFits
<1>6. Linked(room, sess', wire', page)
  BY <1>1, <1>2, <1>3, <1>4, <1>5 DEF Linked, SessionFits
<1>7. GateFits(room, sess', wire', page)
  BY <1>1, <1>2, <1>3 DEF GateFits, SealFits, KeptFits, Pending
<1> QED
  BY <1>2, <1>6, <1>7 DEF GateInv

LEMMA DisconnectFits ==
    ASSUME PanelsInv, GateInv, Disconnect
    PROVE  GateInv'
<1>1. /\ Linked(room, sess, wire, page) /\ GateFits(room, sess, wire, page)
      /\ SessionFits(room, sess, wire, page) /\ DOMAIN page = PageFields
  BY DEF GateInv, Linked
<1>2. /\ wire' = << >> /\ room' = room /\ sess' = [sess EXCEPT !.open = FALSE]
      /\ page' = [page EXCEPT !.up = << >>, !.ops = IF @ = "sent" THEN "kept" ELSE @]
  BY DEF Disconnect
<1>3. DOMAIN sess' = DOMAIN sess /\ sess'.sent = sess.sent /\ ~sess'.open
  BY <1>1, <1>2 DEF SessionFits
<1>4. /\ DOMAIN page' = PageFields /\ page'.net = page.net /\ page'.modal = page.modal
      /\ page'.ver = page.ver /\ page'.seen = page.seen /\ page'.late = page.late
      /\ page'.edit = page.edit /\ page'.set = page.set /\ page'.scope = page.scope
      /\ page'.gate = page.gate /\ page'.up = << >>
  BY <1>1, <1>2 DEF PageFields
<1>5. WireFits(room, sess', wire', page.seen)
  BY <1>2 DEF WireFits
<1>6. IsUp(page'.up)
  <2>1. << >> \in Seq({})
    OBVIOUS
  <2> QED
    BY <1>4, <2>1, UpOf
<1>7. Linked(room, sess', wire', page')
  BY <1>1, <1>2, <1>3, <1>4, <1>5, <1>6 DEF Linked, SessionFits
<1>8. GateFits(room, sess', wire', page')
  BY <1>1, <1>3, <1>4 DEF GateFits, Heard, Gated, AsksFit, SealFits, KeptFits
<1> QED
  BY <1>2, <1>7, <1>8 DEF GateInv

-----------------------------------------------------------------------------
(* What the user begins, and the timers                                    *)

LEMMA QuietGate ==
    ASSUME GateInv, Quiet(room, sess, page, page'), UNCHANGED <<room, sess, wire>>
    PROVE  GateInv'
<1>1. Linked(room, sess, wire, page') /\ GateFits(room, sess, wire, page')
  BY MinorLinked, QuietFits DEF GateInv, Quiet
<1> QED
  BY <1>1 DEF GateInv

LEMMA BeginQuiet ==
    ASSUME GateInv, NEW kind, NEW q, Begin(kind, q), Quiet(room, sess, page, q)
    PROVE  GateInv'
<1>1. page' = q /\ UNCHANGED <<room, sess, wire>>
  BY DEF Begin
<1> QED
  BY <1>1, QuietGate

LEMMA SubmitFits ==
    ASSUME PanelsInv, GateInv, Submit
    PROVE  GateInv'
<1> DEFINE m == page.modal
           p == [page EXCEPT !.modal = None]
<1>1. PICK v \in IF m.do \in RoomFlows THEN Passwords ELSE Answers,
           scope \in IF m.do \in {"set", "change"} /\ m.arg = None THEN Scopes ELSE {""} :
        page' = Submitted(p, m, v, scope)
  BY DEF Submit
<1>2. m # None /\ UNCHANGED <<room, sess, wire>>
  BY DEF Submit
<1>3. Ready(page) /\ DialogFits(m) /\ IsDialog(m)
  BY <1>2 DEF PanelsInv, Uploading, IsPage, GateInv, Linked, Ready
<1>4. Quiet(room, sess, page, p) /\ Ready(p)
  BY <1>3, ClosedQuiet
<1>5. m.do \in RoomFlows => v # None
  BY <1>1, PanelsAssumption
<1>6. m.do \in {"set", "change"} /\ m.arg = None => scope \in Scopes
  BY <1>1
<1> HIDE DEF m, p
<1>7. Quiet(room, sess, page, page')
  BY <1>1, <1>2, <1>3, <1>4, <1>5, <1>6, SubmittedQuiet, QuietTwice
<1> QED
  BY <1>2, <1>7, QuietGate

LEMMA UserFits ==
    ASSUME PanelsInv, GateInv, User
    PROVE  GateInv'
<1>1. Ready(page)
  BY DEF GateInv, Linked, Ready
<1>2. \A do, arg : do \notin {"set", "change", "clear"} =>
        Quiet(room, sess, page, Ask(page, do, arg))
  BY <1>1, AskQuiet, FitsUnasked
<1>3. CASE SubmitRoomLock
  <2>1. PICK pw \in Passwords : Begin("asks", Fetch(page, "panel", pw, None))
    BY <1>3 DEF SubmitRoomLock
  <2>2. pw # None
    BY PanelsAssumption
  <2> QED
    BY <1>1, <2>1, <2>2, FetchMinor, NoChange, BeginQuiet DEF Ready
<1>4. CASE PromptEditUnlock
  BY <1>2, <1>4, BeginQuiet DEF PromptEditUnlock
<1>5. CASE OpenRoomPasswordDialog
  <2> DEFINE do == IF page.set THEN "change" ELSE "set"
             q == Ask(page, do, None)
  <2>1. DialogFits([do |-> do, arg |-> None])
    BY DEF DialogFits
  <2>2. Begin("asks", q)
    BY <1>5 DEF OpenRoomPasswordDialog
  <2> HIDE DEF do
  <2>3. Quiet(room, sess, page, q)
    BY <1>1, <2>1, AskQuiet
  <2> QED
    BY <2>2, <2>3, BeginQuiet
<1>6. CASE UnlockRoom
  <2> DEFINE arg == [next |-> None, scope |-> ""]
  <2>1. Begin("asks", Fetch(page, "clear", page.edit, arg)) /\ IsChange("clear", arg)
    BY <1>6 DEF UnlockRoom, IsChange
  <2> HIDE DEF arg
  <2>2. Quiet(room, sess, page, Fetch(page, "clear", page.edit, arg))
    BY <1>1, <2>1, FetchMinor DEF Ready
  <2> QED
    BY <2>1, <2>2, BeginQuiet
<1>7. CASE CopyPassword
  BY <1>2, <1>7, BeginQuiet DEF CopyPassword
<1>8. CASE History
  <2> DEFINE arg == [again |-> FALSE]
  <2> HIDE DEF arg
  <2>1. PICK do \in {"history", "archive"} :
          Begin("asks", IF page.set /\ RoomPassword(page) = None
                        THEN Ask(page, do, arg)
                        ELSE Fetch(page, do, RoomPassword(page), arg))
    BY <1>8 DEF History, arg
  <2>2. Quiet(room, sess, page, Ask(page, do, arg))
    BY <1>2
  <2>3. Quiet(room, sess, page, Fetch(page, do, RoomPassword(page), arg))
    BY <1>1, FetchMinor, NoChange DEF Ready
  <2>4. CASE page.set /\ RoomPassword(page) = None
    BY <2>1, <2>2, <2>4, BeginQuiet
  <2>5. CASE ~(page.set /\ RoomPassword(page) = None)
    BY <2>1, <2>3, <2>5, BeginQuiet
  <2> QED
    BY <2>4, <2>5
<1>9. CASE PromptUploadFiles
  <2> DEFINE arg == [stage |-> IF page.on THEN "file" ELSE "admin", admin |-> None,
                     filepw |-> None, batch |-> left.files]
  <2>1. Begin("files", AskOver(page, "upload", arg))
    BY <1>9 DEF PromptUploadFiles
  <2> HIDE DEF arg
  <2> QED
    BY <1>1, <2>1, AskOverQuiet, FitsUnasked, BeginQuiet
<1>10. CASE DownloadFile \/ DeleteFile
  <2>1. PICK do \in {"download", "delete"}, id \in page.listed :
          Begin("files", Ask(page, do, [id |-> id, key |-> None, again |-> FALSE]))
    BY <1>10 DEF DownloadFile, DeleteFile
  <2> QED
    BY <1>2, <2>1, BeginQuiet
<1>11. CASE ToggleRoomFileUpload
  BY <1>2, <1>11, BeginQuiet DEF ToggleRoomFileUpload
<1>12. CASE Type
  <2> DEFINE q == [page EXCEPT !.ops = "due"]
  <2>1. Quiet(room, sess, page, q)
    BY <1>1 DEF Quiet, Minor, Ready, PageFields
  <2>2. Begin("asks", q)
    BY <1>12 DEF Type
  <2> HIDE DEF q
  <2> QED
    BY <2>1, <2>2, BeginQuiet
<1>13. CASE Submit
  BY <1>13, SubmitFits
<1>14. CASE Cancel
  <2>1. page' = Dismissed(page) /\ UNCHANGED <<room, sess, wire>>
    BY <1>14 DEF Cancel
  <2> QED
    BY <1>1, <2>1, DismissedQuiet, QuietGate
<1> QED
  BY <1>3, <1>4, <1>5, <1>6, <1>7, <1>8, <1>9, <1>10, <1>11, <1>12, <1>13, <1>14 DEF User

LEMMA FlushFits ==
    ASSUME GateInv, FlushPending
    PROVE  GateInv'
<1> DEFINE m == [type |-> "ops", pw |-> RoomPassword(page)]
<1>1. /\ page' = [page EXCEPT !.ops = "sent", !.up = Append(@, m)]
      /\ sess.open /\ UNCHANGED <<room, sess, wire>>
  BY DEF FlushPending
<1>2. DOMAIN page = PageFields /\ IsUp(page.up)
  BY DEF GateInv, Linked
<1> HIDE DEF m
<1>3. IsUp(Append(page.up, m)) /\ (Auths(page.up) => Auths(Append(page.up, m)))
  BY <1>2, UpGrows
<1>4. /\ DOMAIN page' = PageFields /\ page'.net = page.net /\ page'.modal = page.modal
      /\ page'.ver = page.ver /\ page'.seen = page.seen /\ page'.late = page.late
      /\ page'.edit = page.edit /\ page'.set = page.set /\ page'.scope = page.scope
      /\ page'.ops = "sent" /\ page'.gate = page.gate /\ page'.up = Append(page.up, m)
  BY <1>1, <1>2 DEF PageFields
<1>5. Quiet(room, sess, page, page')
  BY <1>1, <1>3, <1>4 DEF Quiet, Minor
<1> QED
  BY <1>1, <1>5, QuietGate

LEMMA GateStep ==
    ASSUME PanelsInv, GateInv, [Next]_vars
    PROVE  GateInv'
<1>1. CASE User
  BY <1>1, UserFits
<1>2. CASE Server
  BY <1>2, ServeFits, LoseFits, OthersFit, PushFits, ReceiveFits, ConnectFits, DisconnectFits
     DEF Server
<1>3. CASE FlushPending
  BY <1>3, FlushFits
<1>4. CASE Poll
  <2>1. page' = LoadFiles(page) /\ UNCHANGED <<room, sess, wire>>
    BY <1>4 DEF Poll
  <2>2. DOMAIN page = PageFields /\ page.seen \in Nat
    BY DEF GateInv, Linked
  <2> QED
    BY <2>1, <2>2, LoadFilesQuiet, QuietGate
<1>5. CASE Deliver
  BY <1>5, DeliverFits
<1>6. CASE Answered
  BY <1>6, AnsweredFits
<1>7. CASE UNCHANGED vars
  BY <1>7 DEF vars, GateInv
<1> QED
  BY <1>1, <1>2, <1>3, <1>4, <1>5, <1>6, <1>7 DEF Next

LEMMA GateInit ==
    ASSUME Init
    PROVE  GateInv
<1>1. PICK s \in Scenarios :
        /\ room = [pw |-> s.lock.pw, scope |-> s.lock.scope,
                   cred |-> IF s.lock.pw = None THEN 0 ELSE 1, ver |-> 1,
                   files |-> {[id |-> 1, key |-> "good", batch |-> 0, item |-> 1]}, ids |-> 1,
                   open |-> s.open, rev |-> 1, shut |-> FALSE]
        /\ page = Fetch(IF s.left.polled THEN LoadFiles(Start(s.edit)) ELSE Start(s.edit),
                        "load", s.edit, [force |-> FALSE])
  BY DEF Init
<1>2. /\ wire = << >>
      /\ sess = [open |-> FALSE, cred |-> 0, authed |-> FALSE, ring |-> FALSE, sent |-> 0,
                 told |-> 0]
  BY DEF Init
<1>3. IsLock(room) /\ room.ver = 1
  <2>1. s.lock.scope \in {"", "edit", "view"} /\ (s.lock.pw = None <=> s.lock.scope = "")
    BY PanelsAssumption DEF ScenarioType
  <2>2. /\ room.pw = s.lock.pw /\ room.scope = s.lock.scope /\ room.ver = 1
        /\ room.cred = IF s.lock.pw = None THEN 0 ELSE 1
    BY <1>1
  <2>3. room.pw # None => room.cred # 0
    BY <2>2
  <2>4. room.ver \in Nat /\ room.scope \in {"", "edit", "view"}
    <3>1. room.ver = 1 /\ room.scope = s.lock.scope
      BY ONLY <2>2
    <3>2. room.ver \in Nat
      BY ONLY <3>1
    <3>3. room.scope \in {"", "edit", "view"}
      BY ONLY <2>1, <3>1
    <3> QED
      BY ONLY <3>2, <3>3
  <2>5. room.pw = None <=> room.scope = ""
    BY <2>1, <2>2
  <2> QED
    BY <2>2, <2>3, <2>4, <2>5 DEF IsLock
<1> DEFINE p == Start(s.edit)
           l == IF s.left.polled THEN LoadFiles(p) ELSE p
<1>4. /\ DOMAIN p = PageFields /\ p.seen = 0 /\ p.ver = 0 /\ p.up = << >> /\ p.late = FALSE
      /\ p.net = EmptyBag /\ p.modal = None
  BY DEF Start, PageFields
<1>5. DOMAIN p.net = {}
  BY <1>4 DEF EmptyBag, SetToBag
<1> HIDE DEF p
<1>6. Linked(room, sess, wire, p)
  <2>1. IsUp(p.up)
    <3>1. << >> \in Seq({})
      OBVIOUS
    <3> QED
      BY <1>4, <3>1, UpOf
  <2>2. DialogFits(p.modal)
    BY <1>4 DEF DialogFits
  <2>3. WireFits(room, sess, wire, p.seen)
    BY <1>2 DEF WireFits
  <2>4. SessionFits(room, sess, wire, p)
    BY <1>2, <1>3, <1>4 DEF SessionFits
  <2> QED
    BY <1>3, <1>4, <1>5, <2>1, <2>2, <2>3, <2>4 DEF Linked
<1>7. AsksFit(room, p)
  BY <1>5 DEF AsksFit
<1>8. GateFits(room, sess, wire, p)
  BY <1>3, <1>4, <1>6, <1>7, UnheardFits
<1>9. Linked(room, sess, wire, l) /\ GateFits(room, sess, wire, l) /\ l.seen = 0
  <2>1. Quiet(room, sess, p, l)
    BY <1>4, LoadFilesQuiet, QuietItself
  <2> HIDE DEF l
  <2> QED
    BY <1>4, <1>6, <1>8, <2>1, MinorLinked, QuietFits DEF Quiet, Minor
<1>10. page = Fetch(l, "load", s.edit, [force |-> FALSE])
  BY <1>1 DEF p
<1> HIDE DEF l
<1>11. Minor(room, sess, l, page)
  BY <1>9, <1>10, FetchMinor, NoChange DEF Linked
<1>12. Linked(room, sess, wire, page)
  BY <1>9, <1>11, MinorLinked
<1>13. ~page.late => AsksFit(room, page)
  <2> DEFINE x == [do |-> "load", pw |-> s.edit, arg |-> [force |-> FALSE], ans |-> Waits,
                   seen |-> l.seen]
  <2>1. x.do = "load" /\ x.seen = 0
    BY <1>9
  <2>2. page.net = BagAdd(l.net, x) /\ page.late = l.late /\ page.edit = l.edit
    BY <1>9, <1>10 DEF Fetch, Linked, PageFields
  <2> HIDE DEF x
  <2>3. DOMAIN page.net = DOMAIN l.net \cup {x}
    BY <2>2 DEF BagAdd
  <2>4. ~page.late => AsksFit(room, l)
    BY <1>9, <2>2 DEF GateFits
  <2> QED
    BY <1>3, <2>1, <2>2, <2>3, <2>4 DEF AsksFit
<1>14. page.seen # room.ver
  BY <1>3, <1>9, <1>11 DEF Minor
<1> QED
  BY <1>12, <1>13, <1>14, UnheardFits DEF GateInv

-----------------------------------------------------------------------------
(* Theorems                                                                *)

\* The inductive invariant: every batch that is not over has one holder, a dialog or a
\* request, and what is stored of it is behind the holder.
THEOREM PanelsInvariant == Spec => []PanelsInv
BY InitStep, NextStep, PTL DEF Spec

\* A file that was chosen once is stored once, whatever failed and was asked for
\* again, in any number of batches and with any interleaving of the page, the server
\* and others (uploadFilesWithPasswords, handleUploadFile).
THEOREM FilesAreStoredOnce == Spec => []StoredOnce
<1>1. PanelsInv => StoredOnce
  BY DEF PanelsInv, Uploading, Once, StoredOnce
<1> QED
  BY <1>1, PanelsInvariant, PTL

\* The inductive invariant of the gate: what is on its way, and the gate until then.
THEOREM GateInvariant == Spec => []GateInv
<1>1. Init => PanelsInv /\ GateInv
  BY InitStep, GateInit
<1>2. PanelsInv /\ GateInv /\ [Next]_vars => PanelsInv' /\ GateInv'
  BY NextStep, GateStep
<1> QED
  BY <1>1, <1>2, PTL DEF Spec

\* Once all is quiet, nothing is on its way.
LEMMA SettledParts ==
    ASSUME GateInv, Settled, ~page.late
    PROVE  /\ page.seen = room.ver /\ sess.open
           /\ ~Told(room, wire) /\ ~Invalid(wire) /\ ~Auths(page.up)
           /\ Heard(room, page) /\ Gated(room, page)
           /\ SealFits(room, sess, wire, page) /\ KeptFits(room, sess, wire, page)
<1>1. /\ sess.open /\ sess.sent = room.ver /\ wire = << >> /\ page.up = << >>
  BY DEF Settled
<1>2. ~Told(room, wire) /\ ~Invalid(wire) /\ ~Auths(page.up)
  BY <1>1 DEF Told, Invalid, Auths
<1>3. page.seen = room.ver
  BY <1>1, <1>2 DEF GateInv, Linked, SessionFits
<1> QED
  BY <1>1, <1>2, <1>3 DEF GateInv, GateFits

\* The gate fits the room once all is quiet, whatever overtook what on the way to it.
THEOREM GateFitsTheRoom == Spec => []GateFitsRoom
<1>1. GateInv => GateFitsRoom
  <2> SUFFICES ASSUME GateInv, Settled, ~page.late
               PROVE  /\ Sealed /\ ~Authed => page.gate = "panel"
                      /\ room.pw = None => page.gate = "open"
                      /\ room.scope = "edit" /\ page.gate = "open" => page.edit # None
    BY DEF GateFitsRoom
  <2>1. Sealed /\ ~Authed => page.gate = "panel"
    BY SettledParts DEF SealFits, Sealed, Authed, AuthedIn
  <2> QED
    BY <2>1, SettledParts DEF Gated
<1> QED
  BY <1>1, GateInvariant, PTL

\* A kept batch is behind the gate once all is quiet.
THEOREM KeptBehindTheGate == Spec => []KeptBehindGate
<1>1. GateInv => KeptBehindGate
  <2> SUFFICES ASSUME GateInv, Settled, ~page.late, page.ops = "kept"
               PROVE  page.gate # "open"
    BY DEF KeptBehindGate
  <2>1. ~Pending(room, sess, wire, page)
    BY SettledParts DEF Pending, Settled
  <2> QED
    BY <2>1, SettledParts DEF KeptFits
<1> QED
  BY <1>1, GateInvariant, PTL
=============================================================================
