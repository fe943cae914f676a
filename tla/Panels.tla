------------------------------- MODULE Panels -------------------------------
(***************************************************************************)
(* The panels of one browser around its editor: the room's password and    *)
(* gate, the one password dialog, the history and the file list            *)
(* (static/app.js), with the server's side of their requests.              *)
(*                                                                         *)
(* A flow of the page is its dialog (page.modal) or its request            *)
(* (page.net), never both; a request is sent, served and answered, or      *)
(* lost.  Answers overtake each other and the frames of the websocket; the *)
(* frames of one direction stay in order.  The room exists, `ver` counts   *)
(* the changes of its lock, and the page's edits are one batch (Editor has *)
(* the text).                                                              *)
(***************************************************************************)
EXTENDS Naturals, Sequences, FiniteSets, Bags, BagsExt

CONSTANTS
    None,
    Passwords,   \* the passwords people choose for the room
    Scenarios    \* the rooms and pages to begin with, and the bounds (see ScenarioType)

\* Changes of the lock and of the files by others, flows of the room's password and
\* batches typed, flows of files, requests lost, connections lost; is the list polled?
BudgetType == [locks : Nat, switches : Nat, asks : Nat, files : Nat, fails : Nat, drops : Nat,
               polled : BOOLEAN]

\* The lock, the switch, what localStorage holds of the password.
ScenarioType == [lock : [pw : Passwords \cup {None}, scope : {"", "edit", "view"}],
                 open : BOOLEAN, edit : Passwords \cup {None}, left : BudgetType]

ASSUME PanelsAssumption ==
    /\ None \notin Passwords
    /\ \A s \in Scenarios : s \in ScenarioType /\ (s.lock.pw = None <=> s.lock.scope = "")

VARIABLES
    room,   \* the server's room: its lock, its files and their switch
    sess,   \* the websocket session on the server
    wire,   \* frames on their way to the page
    page,   \* all the page keeps: see Start
    left    \* the bounds not yet used

vars == <<room, sess, wire, page, left>>

Scopes == {"edit", "view"}
Items == 1 .. 2              \* the files of one upload
Answers == {"good", "bad"}   \* what is typed for an administrator's or a file's password

\* A request that has no answer yet.
Waits == [code |-> "waits"]

-----------------------------------------------------------------------------
(* The page's operators: from the page to the page.                         *)

Fetch(p, do, pw, arg) ==
    [p EXCEPT !.net = BagAdd(@, [do |-> do, pw |-> pw, arg |-> arg, ans |-> Waits,
                                 seen |-> p.seen])]

RoomPassword(p) == IF p.edit # None THEN p.edit ELSE p.tab

NeedsUnlock(p) == p.gate # "open"
Blocked(p) == NeedsUnlock(p) /\ p.scope # "view"

ShowLock(p) == [p EXCEPT !.gate = IF p.scope = "view" THEN "panel" ELSE "readonly"]
HideLock(p) == [p EXCEPT !.gate = "open"]

RememberRoom(p, pw, scope) ==
    [p EXCEPT !.edit = pw, !.tab = IF "view" \in {scope, p.scope} THEN pw ELSE @]

\* `late` remembers, for the properties, that an answer finds the page another than
\* its question left it: here, that a check of the dropped password is on its way.
ForgetEdit(p) ==
    [p EXCEPT !.edit = None, !.late = @ \/ \E r \in DOMAIN p.net : r.do = "check"]
ForgetRoom(p) == [ForgetEdit(p) EXCEPT !.tab = None]

\* scheduleFlush: a batch that is kept is due again.
\* Mutant: it waits for the next keystroke.
ScheduleNothing(p) == p

ScheduleFlush(p) == [p EXCEPT !.ops = IF @ = "kept" THEN "due" ELSE @]

SendAuth(p, pw) ==
    IF sess.open THEN [p EXCEPT !.up = Append(@, [type |-> "auth", pw |-> pw])] ELSE p

RequestViewPassword(p) ==
    LET kept == IF p.tab # None THEN p.tab ELSE IF p.set THEN p.edit ELSE None
    IN  IF kept # None THEN SendAuth(p, kept) ELSE ShowLock(p)

\* Mutants: the refused password is tried again; no reason to show the panel.
InvalidResent(p) == RequestViewPassword(p)
InvalidHidden(p) == ForgetRoom(p)

OnInvalidViewPassword(p) == ShowLock(ForgetRoom(p))

NoteLock(p, f) == [p EXCEPT !.set = f.set, !.scope = f.scope]

SyncEditLockGate(p) ==
    CASE p.scope # "edit" \/ ~p.set -> HideLock(p)
      [] p.scope = "edit" /\ p.set /\ p.edit = None -> ShowLock(p)
      [] p.scope = "edit" /\ p.set /\ p.edit # None /\ p.own -> HideLock(p)
      [] OTHER -> Fetch(p, "check", p.edit, None)

LoadFiles(p) == Fetch(p, "list", RoomPassword(p), None)

\* Mutant: an empty list is taken for one that did not come.
RenderNonempty(p, files) == IF files = {} THEN p ELSE [p EXCEPT !.listed = files]

RenderFileList(p, files) == [p EXCEPT !.listed = files]

-----------------------------------------------------------------------------
(* The dialog (askPassword).  Another dialog takes its place and answers it *)
(* with null.                                                               *)

\* What a flow does when its dialog is answered with null.
GivesUp(p, m) ==
    CASE m # None /\ m.do = "set" /\ m.arg # None -> [p EXCEPT !.own = FALSE]
      [] m # None /\ m.do = "upload" /\ m.arg.stage = "again" -> LoadFiles(p)
      [] OTHER -> p

Ask(p, do, arg) == [GivesUp(p, p.modal) EXCEPT !.modal = [do |-> do, arg |-> arg]]

\* An upload whose first dialog is closed asks for the file password all the
\* same if the room was opened for uploads in the meantime.
Dismissed(p) ==
    LET q == [p EXCEPT !.modal = None]
    IN  IF p.modal.do = "upload" /\ p.modal.arg.stage = "admin" /\ p.on
        THEN Ask(q, "upload", [p.modal.arg EXCEPT !.stage = "file"])
        ELSE GivesUp(q, p.modal)

\* The dialog is asked by a flow that may find another one open.
AskOver(p, do, arg) == Ask(IF p.modal = None THEN p ELSE Dismissed(p), do, arg)

\* uploadFilesWithPasswords: the first file of the batch.
BeginUpload(p, a) ==
    Fetch([p EXCEPT !.admin = IF a.admin # None THEN a.admin ELSE @, !.filepw = a.filepw],
          "upload", RoomPassword(p),
          [admin |-> a.admin, filepw |-> a.filepw, batch |-> a.batch, item |-> 1])

\* What a flow does with the password v, and the scope, of its dialog.
Submitted(p, m, v, scope) ==
    LET a == m.arg
    IN  CASE m.do = "unlock" -> Fetch(p, "unlock", v, None)
          [] m.do \in {"set", "change"} /\ a = None ->
                Fetch([p EXCEPT !.own = @ \/ m.do = "set"], m.do, p.edit,
                      [next |-> v, scope |-> scope])
          [] m.do = "clear" \/ (m.do \in {"set", "change"} /\ a # None) -> Fetch(p, m.do, v, a)
          [] m.do = "copy" -> Fetch(p, "copy", v, None)
          [] m.do \in {"history", "archive"} -> Fetch(RememberRoom(p, v, p.scope), m.do, v, a)
          [] m.do = "upload" /\ a.stage = "admin" ->
                Ask(p, "upload", [a EXCEPT !.stage = "file", !.admin = v])
          [] m.do = "upload" /\ a.stage = "file" -> BeginUpload(p, [a EXCEPT !.filepw = v])
          [] m.do = "upload" /\ a.stage = "again" -> BeginUpload(p, [a EXCEPT !.admin = v])
          [] m.do = "download" ->
                Fetch([p EXCEPT !.filepw = v], "download",
                      IF a.again THEN None ELSE RoomPassword(p), [a EXCEPT !.key = v])
          [] m.do \in {"delete", "toggle"} ->
                Fetch([p EXCEPT !.admin = v], m.do, RoomPassword(p), [a EXCEPT !.key = v])

RoomFlows == {"unlock", "set", "change", "clear", "copy", "history", "archive"}

\* Bound: a dialog is answered when no more than one list is on its way.
ListRequests == {r \in DOMAIN page.net : r.do = "list"}
FewLists == BagCardinality([r \in ListRequests |-> page.net[r]]) <= 1

Submit ==
    /\ page.modal # None /\ FewLists
    /\ \E v \in IF page.modal.do \in RoomFlows THEN Passwords ELSE Answers,
          scope \in IF page.modal.do \in {"set", "change"} /\ page.modal.arg = None
                    THEN Scopes ELSE {""} :
          page' = Submitted([page EXCEPT !.modal = None], page.modal, v, scope)
    /\ UNCHANGED <<room, sess, wire, left>>

Cancel ==
    /\ page.modal # None /\ FewLists
    /\ page' = Dismissed(page)
    /\ UNCHANGED <<room, sess, wire, left>>

-----------------------------------------------------------------------------
(* What the user begins.  A click finds no dialog; a paste or a drop may.   *)

Begin(kind, p) ==
    /\ left[kind] > 0
    /\ page' = p
    /\ left' = [left EXCEPT ![kind] = @ - 1]
    /\ UNCHANGED <<room, sess, wire>>

\* The form of the panel (submitRoomLock), one request at a time.
SubmitRoomLock ==
    /\ page.gate = "panel" /\ page.modal = None
    /\ \A r \in DOMAIN page.net : r.do # "panel"
    /\ \E pw \in Passwords : Begin("asks", Fetch(page, "panel", pw, None))

PromptEditUnlock ==
    /\ page.gate = "readonly" /\ page.modal = None
    /\ Begin("asks", Ask(page, "unlock", None))

OpenRoomPasswordDialog ==
    /\ page.modal = None /\ ~Blocked(page)
    /\ Begin("asks", Ask(page, IF page.set THEN "change" ELSE "set", None))

UnlockRoom ==
    /\ page.modal = None /\ ~Blocked(page) /\ page.set
    /\ Begin("asks", Fetch(page, "clear", page.edit, [next |-> None, scope |-> ""]))

CopyPassword ==
    /\ page.modal = None /\ ~Blocked(page) /\ page.set /\ RoomPassword(page) = None
    /\ Begin("asks", Ask(page, "copy", None))

\* openHistory, and captureHistoryManual or doClearHistory.
History ==
    /\ page.modal = None /\ ~Blocked(page)
    /\ \E do \in {"history", "archive"} :
          Begin("asks", IF page.set /\ RoomPassword(page) = None
                THEN Ask(page, do, [again |-> FALSE])
                ELSE Fetch(page, do, RoomPassword(page), [again |-> FALSE]))

\* promptUploadFiles: by a paste, whatever dialog is open.
PromptUploadFiles ==
    Begin("files", AskOver(page, "upload",
                  [stage |-> IF page.on THEN "file" ELSE "admin", admin |-> None,
                   filepw |-> None, batch |-> left.files]))

DownloadFile ==
    /\ page.modal = None
    /\ \E id \in page.listed :
          Begin("files", Ask(page, "download", [id |-> id, key |-> None, again |-> FALSE]))

DeleteFile ==
    /\ page.modal = None
    /\ \E id \in page.listed :
          Begin("files", Ask(page, "delete", [id |-> id, key |-> None, again |-> FALSE]))

ToggleRoomFileUpload ==
    /\ page.modal = None
    /\ Begin("files", Ask(page, "toggle", [on |-> ~page.on, key |-> None, again |-> FALSE]))

\* An edit, where the editor takes one; it is sent with the room's password.
Type ==
    /\ page.gate \notin {"panel", "readonly"} /\ page.ops \in {"none", "kept"}
    /\ Begin("asks", [page EXCEPT !.ops = "due"])

FlushPending ==
    /\ page.ops = "due" /\ sess.open
    /\ page' = [page EXCEPT !.ops = "sent",
                            !.up = Append(@, [type |-> "ops", pw |-> RoomPassword(page)])]
    /\ UNCHANGED <<room, sess, wire, left>>

\* The timer of the list (setInterval of loadFiles).
Poll ==
    /\ left.polled
    /\ ListRequests = {}
    /\ page' = LoadFiles(page)
    /\ UNCHANGED <<room, sess, wire, left>>

-----------------------------------------------------------------------------
(* The server.                                                              *)

Sealed == room.scope = "view"
Denied(pw) == Sealed /\ pw # room.pw
Wrong(pw) == room.pw # None /\ pw # room.pw
Authed == sess.cred # 0 /\ sess.cred = room.cred

\* Store.SetPassword with the right current password.
Relocked(next, scope) ==
    LET to == CASE scope # "" -> scope
                [] scope = "" /\ room.scope # "" -> room.scope
                [] OTHER -> "edit"
    IN  CASE next = None /\ room.pw = None -> room
          [] next = None /\ room.pw # None ->
                [room EXCEPT !.pw = None, !.scope = "", !.cred = 0, !.ver = @ + 1]
          [] next # None /\ next = room.pw ->
                IF to = room.scope THEN room ELSE [room EXCEPT !.scope = to, !.ver = @ + 1]
          [] OTHER -> [room EXCEPT !.pw = next, !.scope = to, !.cred = room.ver + 1,
                                   !.ver = @ + 1]

Kept(files) == [room EXCEPT !.files = files, !.rev = @ + 1]
File(id) == CHOOSE f \in room.files : f.id = id
Exists(id) == \E f \in room.files : f.id = id

\* The code of the answer to a request.
Code(r) ==
    CASE r.do \in {"check", "panel", "unlock", "load"} -> IF Denied(r.pw) THEN "refused" ELSE "ok"
      [] r.do \in {"copy", "history", "archive", "set", "change", "clear"} ->
            IF Wrong(r.pw) THEN "refused" ELSE "ok"
      [] r.do \in {"list", "upload", "download", "delete", "toggle"} /\ Denied(r.pw) -> "view"
      [] r.do = "upload" /\ ~room.open /\ r.arg.admin # "good" -> "admin"
      [] r.do \in {"delete", "toggle"} /\ r.arg.key # "good" -> "admin"
      [] r.do \in {"delete", "download"} /\ ~Exists(r.arg.id) -> "missing"
      [] r.do = "download" /\ File(r.arg.id).key # r.arg.key -> "file"
      [] OTHER -> "ok"

\* What it does to the room.
Effect(r) ==
    CASE r.do \in {"set", "change", "clear"} -> Relocked(r.arg.next, r.arg.scope)
      [] r.do = "upload" ->
            [Kept(room.files \cup {[id |-> room.ids + 1, key |-> r.arg.filepw,
                                    batch |-> r.arg.batch, item |-> r.arg.item]})
             EXCEPT !.ids = @ + 1]
      [] r.do = "delete" -> Kept({f \in room.files : f.id # r.arg.id})
      [] r.do = "toggle" -> [room EXCEPT !.open = r.arg.on, !.rev = @ + 1,
                                         !.shut = @ \/ ~r.arg.on]
      [] OTHER -> room

Ids == {f.id : f \in room.files}

Answer(r) ==
    LET code == Code(r)
    IN  CASE code = "ok" /\ r.do = "load" ->
                [code |-> code, ver |-> room.ver, set |-> room.pw # None, scope |-> room.scope]
          [] code = "ok" /\ r.do = "list" -> [code |-> code, files |-> Ids, on |-> room.open]
          [] OTHER -> [code |-> code, ver |-> Effect(r).ver]

Replace(r, s) == [page EXCEPT !.net = BagAdd(BagRemove(@, r), s)]

Serve ==
    \E r \in DOMAIN page.net :
        /\ r.ans = Waits
        /\ page' = Replace(r, [r EXCEPT !.ans = Answer(r)])
        /\ room' = IF Code(r) = "ok" THEN Effect(r) ELSE room
        /\ UNCHANGED <<sess, wire, left>>

\* A request or its answer is lost, or refused for the rate.
Lose ==
    \E r \in DOMAIN page.net :
        /\ left.fails > 0
        /\ r.ans.code # "lost"
        /\ page' = Replace(r, [r EXCEPT !.ans = [code |-> "lost", ver |-> page.seen]])
        /\ left' = [left EXCEPT !.fails = @ - 1]
        /\ UNCHANGED <<room, sess, wire>>

\* Somebody else who knows the password changes the lock.
OthersLock ==
    \E next \in Passwords \cup {None}, scope \in Scopes :
        /\ left.locks > 0
        /\ Relocked(next, scope) # room
        /\ room' = Relocked(next, scope)
        /\ left' = [left EXCEPT !.locks = @ - 1]
        /\ UNCHANGED <<sess, wire, page>>

\* Somebody else deletes a file, or turns the switch.
OthersFiles ==
    /\ left.switches > 0
    /\ left' = [left EXCEPT !.switches = @ - 1]
    /\ \/ \E f \in room.files : room' = Kept(room.files \ {f})
       \/ room' = [room EXCEPT !.open = ~@, !.rev = @ + 1, !.shut = @ \/ room.open]
    /\ UNCHANGED <<sess, wire, page>>

StateFrame(authed) ==
    [type |-> "state", ver |-> room.ver, set |-> room.pw # None, scope |-> room.scope,
     required |-> Sealed /\ ~authed]

FilesFrame == [type |-> "files", files |-> Ids, on |-> room.open]

Frames(forced, authed, sent, told) ==
    (IF forced \/ sent # room.ver THEN <<StateFrame(authed)>> ELSE << >>) \o
    (IF ~(Sealed /\ ~authed) /\ (forced \/ told # room.rev) THEN <<FilesFrame>> ELSE << >>)

\* pushState of a session: after a ping, after an authentication, or periodically.
Push ==
    LET forced == sess.ring \/ Authed # sess.authed
        frames == Frames(forced, Authed, sess.sent, sess.told)
    IN  /\ sess.open
        /\ frames # << >>
        /\ wire' = wire \o frames
        /\ sess' = [sess EXCEPT !.sent = room.ver, !.authed = Authed, !.ring = FALSE,
                                !.told = IF Sealed /\ ~Authed THEN @ ELSE room.rev]
        /\ UNCHANGED <<room, page, left>>

Ack(code) == wire' = Append(wire, [type |-> "ack", code |-> code])
Authenticate == sess' = [sess EXCEPT !.cred = room.cred, !.ring = TRUE]

\* The read loop takes a message.
Receive ==
    /\ page.up # << >>
    /\ LET m == Head(page.up)
       IN  \/ /\ m.type = "auth" /\ ~Sealed
              /\ UNCHANGED <<sess, wire>>
           \/ /\ m.type = "auth" /\ Sealed /\ m.pw = room.pw
              /\ Authenticate /\ UNCHANGED wire
           \/ /\ m.type = "auth" /\ Denied(m.pw)
              /\ Ack("invalid") /\ UNCHANGED sess
           \/ /\ m.type = "ops" /\ (Authed \/ ~Wrong(m.pw))
              /\ Ack("ok")
              /\ IF Sealed /\ ~Authed THEN Authenticate ELSE UNCHANGED sess
           \/ /\ m.type = "ops" /\ ~Authed /\ Wrong(m.pw)
              /\ Ack("locked") /\ UNCHANGED sess
    /\ page' = [page EXCEPT !.up = Tail(@)]
    /\ UNCHANGED <<room, left>>

Connect ==
    /\ ~sess.open
    /\ sess' = [open |-> TRUE, cred |-> 0, authed |-> FALSE, ring |-> FALSE, sent |-> room.ver,
                told |-> IF Sealed THEN 0 ELSE room.rev]
    /\ wire' = Frames(TRUE, FALSE, 0, 0)
    /\ UNCHANGED <<room, page, left>>

Disconnect ==
    /\ sess.open /\ left.drops > 0
    /\ sess' = [sess EXCEPT !.open = FALSE]
    /\ wire' = << >>
    /\ page' = [page EXCEPT !.up = << >>, !.ops = IF @ = "sent" THEN "kept" ELSE @]
    /\ left' = [left EXCEPT !.drops = @ - 1]
    /\ UNCHANGED room

-----------------------------------------------------------------------------
(* What the page does with a frame or an answer.                            *)

HandleState(p, f) ==
    IF f.ver < p.ver THEN p
    ELSE LET q == SyncEditLockGate(NoteLock([p EXCEPT !.shown = TRUE], f))
         IN  IF f.required THEN RequestViewPassword(q)
             ELSE ScheduleFlush([q EXCEPT !.ver = f.ver])

HandleAck(p, f) ==
    CASE f.code = "ok" -> [p EXCEPT !.ops = IF @ = "sent" THEN "none" ELSE @]
      [] f.code = "invalid" -> OnInvalidViewPassword(p)
      [] f.code = "locked" ->
            ShowLock([ForgetEdit(p) EXCEPT !.ops = IF @ = "sent" THEN "kept" ELSE @])

HandleRemoteFiles(p, f) == RenderFileList([p EXCEPT !.on = f.on], f.files)

\* `seen` remembers the newest lock the page has heard of, for the properties.
Noticed(p, ver) == [p EXCEPT !.seen = IF ver > @ THEN ver ELSE @]

Deliver ==
    /\ wire # << >>
    /\ LET f == Head(wire)
       IN  page' = CASE f.type = "state" -> HandleState(Noticed(page, f.ver), f)
                     [] f.type = "ack" -> HandleAck(page, f)
                     [] f.type = "files" -> HandleRemoteFiles(page, f)
    /\ wire' = Tail(wire)
    /\ UNCHANGED <<room, sess, left>>

\* The silent check of the remembered password (tryUnlock); a failure opens.
Checked(p, r) ==
    IF r.ans.code = "refused" THEN ShowLock(ForgetRoom(p)) ELSE HideLock(p)

Unlocked(p, r) == HideLock([RememberRoom(p, r.pw, p.scope) EXCEPT !.own = TRUE])

PanelAnswered(p, r) ==
    IF p.scope = "view" THEN RequestViewPassword(Unlocked(p, r))
    ELSE LET q == ScheduleFlush(Unlocked(p, r))
         IN  Fetch(q, "load", RoomPassword(q), [force |-> TRUE])

PasswordSet(p, r) ==
    LET q == RememberRoom([p EXCEPT !.set = @ \/ r.do = "set", !.scope = r.arg.scope],
                          r.arg.next, r.arg.scope)
    IN  IF r.arg.scope = "view" THEN SendAuth(q, r.arg.next) ELSE q

\* A load that is not forced paints only a page that has nothing to save, and has
\* shown no state yet or has no socket (while it dials again, the load is lost).
Loaded(p, r) ==
    IF r.arg.force \/ (p.ops = "none" /\ (~p.shown \/ ~sess.open))
    THEN [SyncEditLockGate(NoteLock(p, r.ans)) EXCEPT !.ver = r.ans.ver, !.ops = "none",
                                                      !.shown = TRUE]
    ELSE p

\* The rest of a batch, or its end.
UploadNext(p, r) ==
    IF r.arg.item + 1 \in Items
    THEN Fetch(p, "upload", RoomPassword(p), [r.arg EXCEPT !.item = @ + 1])
    ELSE LoadFiles(p)

\* The administrator's password was wrong: all files again with another.
UploadAgain(p, r) ==
    AskOver(LoadFiles([p EXCEPT !.admin = None]), "upload",
            [stage |-> "again", admin |-> None, filepw |-> r.arg.filepw, batch |-> r.arg.batch])

\* Mutant: whatever fails is asked again for.
UploadRetried(p, r) ==
    IF r.ans.code = "ok" THEN UploadNext(p, r) ELSE UploadAgain(p, r)

UploadAnswered(p, r) ==
    IF r.ans.code = "admin" THEN UploadAgain(p, r) ELSE UploadNext(p, r)

\* An answer that is not the one hoped for.
Refused(p, r) ==
    LET again == r.ans.code = "refused"
    IN  CASE r.do \in {"set", "change", "clear"} /\ again -> AskOver(p, r.do, r.arg)
          [] r.do = "set" /\ ~again -> [p EXCEPT !.own = FALSE]
          [] r.do = "history" /\ again /\ ~r.arg.again ->
                AskOver(p, "history", [again |-> TRUE])
          [] r.do = "download" /\ r.ans.code = "file" /\ ~r.arg.again ->
                AskOver([p EXCEPT !.filepw = None], "download", [r.arg EXCEPT !.again = TRUE])
          [] r.do \in {"delete", "toggle"} /\ r.ans.code = "admin" /\ ~r.arg.again ->
                AskOver([p EXCEPT !.admin = None], r.do, [r.arg EXCEPT !.again = TRUE])
          [] OTHER -> p

Accepted(p, r) ==
    CASE r.do = "unlock" -> ScheduleFlush(Unlocked(p, r))
      [] r.do = "panel" -> PanelAnswered(p, r)
      [] r.do \in {"set", "change"} -> PasswordSet(p, r)
      [] r.do = "clear" -> [ForgetRoom(p) EXCEPT !.set = FALSE, !.scope = ""]
      [] r.do = "copy" -> RememberRoom(p, r.pw, p.scope)
      [] r.do = "load" -> Loaded(p, r)
      [] r.do = "list" -> RenderFileList([p EXCEPT !.on = r.ans.on], r.ans.files)
      [] r.do = "delete" -> LoadFiles(p)
      [] r.do = "toggle" -> LoadFiles([p EXCEPT !.on = r.arg.on])
      [] OTHER -> p

Handled(p, r) ==
    CASE r.do = "check" -> Checked(p, r)
      [] r.do = "upload" -> UploadAnswered(p, r)
      [] r.do \notin {"check", "upload"} /\ r.ans.code = "ok" -> Accepted(p, r)
      [] OTHER -> Refused(p, r)

\* Did the page hear of the lock between the question and the answer, or of a
\* newer one than the answer to its own change tells?
Late(p, r) ==
    \/ r.do \in {"check", "panel", "unlock", "load", "copy"} /\ r.seen # p.seen
    \/ r.do \in {"set", "change", "clear"} /\ r.ans.ver < p.seen
    \/ r.do = "unlock" /\ p.scope = "view"

Answered ==
    \E r \in DOMAIN page.net :
        /\ r.ans # Waits
        /\ page' = Handled([page EXCEPT !.net = BagRemove(@, r), !.late = @ \/ Late(page, r)], r)
        /\ UNCHANGED <<room, sess, wire, left>>

-----------------------------------------------------------------------------
\* The script has run: it loads the room and the list and has not connected.
Start(edit) ==
    [set |-> FALSE, scope |-> "", ver |-> 0, seen |-> 0, late |-> FALSE, shown |-> FALSE,
     gate |-> "loading", edit |-> edit, tab |-> None, own |-> FALSE, modal |-> None,
     ops |-> "none", up |-> << >>, net |-> EmptyBag,
     on |-> FALSE, listed |-> {}, admin |-> None, filepw |-> None]

Init ==
    \E s \in Scenarios :
        /\ room = [pw |-> s.lock.pw, scope |-> s.lock.scope,
                   cred |-> IF s.lock.pw = None THEN 0 ELSE 1, ver |-> 1,
                   files |-> {[id |-> 1, key |-> "good", batch |-> 0, item |-> 1]}, ids |-> 1,
                   open |-> s.open, rev |-> 1, shut |-> FALSE]
        /\ sess = [open |-> FALSE, cred |-> 0, authed |-> FALSE, ring |-> FALSE, sent |-> 0,
                   told |-> 0]
        /\ wire = << >>
        /\ left = s.left
        /\ LET p == IF left.polled THEN LoadFiles(Start(s.edit)) ELSE Start(s.edit)
           IN  page = Fetch(p, "load", s.edit, [force |-> FALSE])

User ==
    \/ SubmitRoomLock \/ PromptEditUnlock \/ OpenRoomPasswordDialog \/ UnlockRoom
    \/ CopyPassword \/ History \/ PromptUploadFiles \/ DownloadFile \/ DeleteFile
    \/ ToggleRoomFileUpload \/ Type \/ Submit \/ Cancel

Server == Serve \/ Lose \/ OthersLock \/ OthersFiles \/ Push \/ Receive \/ Connect \/ Disconnect

Next == User \/ Server \/ FlushPending \/ Poll \/ Deliver \/ Answered

Spec == Init /\ [][Next]_vars

-----------------------------------------------------------------------------
\* Nothing but a list is on its way and nobody is asked: the page has heard all.
Settled ==
    /\ sess.open /\ sess.sent = room.ver /\ sess.authed = Authed /\ ~sess.ring
    /\ wire = << >> /\ page.up = << >> /\ page.modal = None /\ page.ops \notin {"due", "sent"}
    /\ DOMAIN page.net = ListRequests

\* The gate fits the room once all is quiet: a room sealed for this session is behind
\* the panel, an unlocked one is not, and a room locked for editing is writable only
\* with a password to send (syncEditLockGate, requestViewPassword, handleAck and the
\* answers that open the gate).  Not so if an answer came late: the code compares
\* neither versions nor scopes then.
GateFitsRoom ==
    Settled /\ ~page.late =>
        /\ Sealed /\ ~Authed => page.gate = "panel"
        /\ room.pw = None => page.gate = "open"
        /\ room.scope = "edit" /\ page.gate = "open" => page.edit # None

\* What was typed and refused for the password waits behind the gate: it is never left
\* behind, unsaved, in an editor that looks writable (handleAck keeps the batch, whoever
\* opens the gate or adopts a state sends it).
KeptBehindGate == Settled /\ ~page.late /\ page.ops = "kept" => page.gate # "open"

\* A file that was chosen once is stored once, however its upload fails and is asked
\* for again (uploadFilesWithPasswords).  Not so if the room was closed for uploads
\* while the batch ran: then the files stored before are sent again.
StoredOnce ==
    \A f, g \in room.files :
        f.batch = g.batch /\ f.item = g.item /\ ~room.shut => f = g

\* Messages and frames are delivered, and the list is polled and the poll is answered
\* (fairness of Receive and Deliver, of Poll, Serve and Answered, as it shows in the
\* states).
Delivered == []<>(page.up = << >>) /\ []<>(wire = << >>)
Polled == []<>(ListRequests = {}) /\ []<>(ListRequests # {})

\* The page stops presenting a password that the server refuses: "otherwise the
\* remembered value would auto-resend forever" (onInvalidViewPassword).
AuthEnds == Delivered => <>[](page.up = << >>)

\* The list comes to show the room's files and switch, whatever frames and answers
\* overtook each other, as long as the page may read it (loadFiles, handleRemoteFiles).
ListCatchesUp ==
    Delivered /\ Polled =>
        <>[](Denied(RoomPassword(page)) \/ (page.listed = Ids /\ page.on = room.open))

\* Whoever set the room's password is not asked for it: "re-prompting them on the spot
\* would lock them out of their own room" (syncEditLockGate).
OwnerIsNotGated ==
    Settled /\ page.own /\ page.edit = room.pw => page.gate = "open"
=============================================================================
