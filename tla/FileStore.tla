----------------------------- MODULE FileStore -----------------------------
(***************************************************************************)
(* The files of one room: internal/store/files.go, the upload and deletion *)
(* handlers of internal/handler/files.go, and the file frames of a         *)
(* websocket session (handler.go).  Rooms share nothing but the mutex.     *)
(*                                                                         *)
(* An upload streams into the room's directory without the mutex and takes *)
(* it only to enter its file in the index.  What a method does to memory   *)
(* under the mutex is one action, begun by every operation when `lock` is  *)
(* None; what it then does to the disk, still under the mutex, is one      *)
(* action for each file operation, so that uploads run, and the process    *)
(* dies, between them.  A file identifier is random and used once.         *)
(* Removals do not fail; what an upload writes may.                        *)
(***************************************************************************)
EXTENDS Integers, FiniteSets

CONSTANTS
    File,             \* the identifiers of uploads
    None,
    TTL,              \* the lifetimes an upload may ask for
    MaxNow,           \* bound: the clock
    MaxRev,           \* bound: no setting changes beyond this revision
    MaxRestarts       \* bound: crashes

\* What the holder of the mutex has to do: remove the files of `doomed`, and then
\* keep the directory, try to remove it, or first remove all that is in it.
LockType == [doomed : SUBSET File, after : {"keep", "try", "all"}]

ASSUME FilesAssumption ==
    /\ IsFiniteSet(File)
    /\ TTL \subseteq Nat \ {0}
    /\ None \notin BOOLEAN
    /\ None \notin LockType

VARIABLES
    index,     \* the files the store lists
    setting,   \* settings[roomKey]: may anyone upload, or None
    rev,       \* the revision of the list
    dir,       \* does the room's directory exist?
    disk,      \* disk[f]: the parts of f in it
    settingOn, \* what settings.json says, or None
    upload,    \* upload[f]: how far f's upload is, and its expiry
    lock,      \* None, or what the holder of the mutex has to do on disk
    session,   \* None, or a session's last frame and what it has read since
    now, restarts,
    overrun    \* for the properties: uploads whose written files a deletion of
               \* the room removed before they were entered in the index

vars == <<index, setting, rev, dir, disk, settingOn, upload, lock, session, now, restarts,
          overrun>>

memory == <<index, setting, rev>>

\* {id}.bin, {id}.meta.json and their temporary names.
Part == {"bin", "meta", "bin.tmp", "meta.tmp"}
Whole == {"bin", "meta"}

Empty(d) == \A f \in File : d[f] = {}

Init ==
    /\ index = {}
    /\ setting = None
    /\ rev = 0
    /\ dir = FALSE
    /\ disk = [f \in File |-> {}]
    /\ settingOn = None
    /\ upload = [f \in File |-> [at |-> "new", began |-> 0, expires |-> 0]]
    /\ lock = None
    /\ session = None
    /\ now = 0
    /\ restarts = 0
    /\ overrun = {}

-----------------------------------------------------------------------------
(* Under the mutex                                                         *)

\* Mutant: a file lives through the moment it expires at.
ExpiredAfter(t) == {f \in index : upload[f].expires < t}

Expired(t) == {f \in index : upload[f].expires <= t}

\* The directory is removed with the last file, unless a setting is kept there.
After(left) == IF left = {} /\ setting = None THEN "try" ELSE "keep"

Work(doomed, after) == [doomed |-> doomed, after |-> after]

\* expireRoomLocked, and then the files of `added` are entered.
ExpireRoom(t, added) ==
    LET dead == Expired(t)
        left == index \ dead
    IN  /\ index' = left \cup added
        /\ rev' = rev + (IF dead # {} THEN 1 ELSE 0) + (IF added # {} THEN 1 ELSE 0)
        /\ lock' = IF dead # {} THEN Work(dead, After(left)) ELSE None

\* CleanupExpired, and every lookup: CheckFilePassword, Get, Open.
CleanupExpired ==
    /\ lock = None /\ Expired(now) # {}
    /\ ExpireRoom(now, {})
    /\ UNCHANGED <<setting, dir, disk, settingOn, upload, session, now, restarts, overrun>>

Delete(f) ==
    /\ lock = None /\ f \in index
    /\ index' = index \ {f}
    /\ rev' = rev + 1
    /\ lock' = Work({f}, After(index'))
    /\ UNCHANGED <<setting, dir, disk, settingOn, upload, session, now, restarts, overrun>>

\* Does DeleteRoom change what sessions show?  Mutant: only if there are files.
HadFiles == index # {}

Had == index # {} \/ rev > 0 \/ setting = TRUE

DeleteRoom ==
    /\ lock = None
    /\ rev < MaxRev
    /\ index' = {}
    /\ setting' = None
    /\ rev' = IF Had THEN rev + 1 ELSE rev
    /\ lock' = Work(index, "all")
    /\ UNCHANGED <<dir, disk, settingOn, upload, session, now, restarts, overrun>>

\* SetFileUploadEnabled: off is the default, and not written.
SetFileUploadEnabled(on) ==
    /\ lock = None /\ rev < MaxRev
    /\ setting # on /\ (setting = None => on)
    /\ dir' = TRUE
    /\ settingOn' = on
    /\ setting' = on
    /\ rev' = rev + 1
    /\ UNCHANGED <<index, disk, upload, lock, session, now, restarts, overrun>>

-----------------------------------------------------------------------------
(* The disk, still under the mutex                                         *)

\* removeDiskFiles: the data first, and then all the rest.
RemoveNext(f) == [disk EXCEPT ![f] = IF "bin" \in @ THEN @ \ {"bin"} ELSE {}]

RemoveFile(f) ==
    /\ lock # None /\ f \in lock.doomed
    /\ disk' = RemoveNext(f)
    /\ lock' = IF "bin" \in disk[f] THEN lock ELSE [lock EXCEPT !.doomed = @ \ {f}]
    /\ UNCHANGED <<memory, dir, settingOn, upload, session, now, restarts, overrun>>

\* RemoveAll, first half: everything in the directory.
RemoveEntries ==
    /\ lock # None /\ lock.doomed = {} /\ lock.after = "all"
    /\ disk' = [f \in File |-> {}]
    /\ settingOn' = None
    /\ lock' = [lock EXCEPT !.after = "try"]
    /\ overrun' = overrun \cup {f \in File : upload[f].at = "index"}
    /\ UNCHANGED <<memory, dir, upload, session, now, restarts>>

\* A directory is removed only when it is empty.
Unlock ==
    /\ lock # None /\ lock.doomed = {} /\ lock.after # "all"
    /\ dir' = (dir /\ ~(lock.after = "try" /\ Empty(disk) /\ settingOn = None))
    /\ lock' = None
    /\ UNCHANGED <<memory, disk, settingOn, upload, session, now, restarts, overrun>>

-----------------------------------------------------------------------------
(* PutReader                                                               *)

At(f, step) == upload[f].at = step
Moves(f, step) == upload' = [upload EXCEPT ![f].at = step]
OnlyUpload == UNCHANGED <<memory, settingOn, lock, session, now, restarts, overrun>>

\* cleanup.  Mutant: only the temporary files.
CleanupTemporary(f) == [disk EXCEPT ![f] = @ \ {"bin.tmp", "meta.tmp"}]

Cleanup(f) == [disk EXCEPT ![f] = {}]

Fails(f) ==
    /\ disk' = Cleanup(f)
    /\ Moves(f, "failed")

MakeDir(f) ==
    /\ At(f, "new")
    /\ dir' = TRUE
    /\ Moves(f, "open")
    /\ OnlyUpload /\ UNCHANGED disk

OpenData(f) ==
    /\ At(f, "open")
    /\ IF dir THEN disk' = [disk EXCEPT ![f] = {"bin.tmp"}] /\ Moves(f, "copy")
              ELSE UNCHANGED disk /\ Moves(f, "failed")
    /\ OnlyUpload /\ UNCHANGED dir

\* The client stops, sends nothing, or the disk is full; or the data has been
\* written, to a file whose name may be gone by now.
Copy(f) ==
    /\ At(f, "copy")
    /\ \/ Fails(f)
       \/ Moves(f, "describe") /\ UNCHANGED disk
    /\ OnlyUpload /\ UNCHANGED dir

Describe(f) ==
    /\ At(f, "describe")
    /\ \/ Fails(f)
       \/ /\ dir
          /\ \E ttl \in TTL :
               upload' = [upload EXCEPT ![f] =
                            [at |-> "rename", began |-> now, expires |-> now + ttl]]
          /\ disk' = [disk EXCEPT ![f] = @ \cup {"meta.tmp"}]
    /\ OnlyUpload /\ UNCHANGED dir

RenameData(f) ==
    /\ At(f, "rename")
    /\ \/ Fails(f)
       \/ /\ "bin.tmp" \in disk[f]
          /\ disk' = [disk EXCEPT ![f] = (@ \ {"bin.tmp"}) \cup {"bin"}]
          /\ Moves(f, "rename meta")
    /\ OnlyUpload /\ UNCHANGED dir

RenameMeta(f) ==
    /\ At(f, "rename meta")
    /\ \/ Fails(f)
       \/ /\ "meta.tmp" \in disk[f]
          /\ disk' = [disk EXCEPT ![f] = (@ \ {"meta.tmp"}) \cup {"meta"}]
          /\ Moves(f, "index")
    /\ OnlyUpload /\ UNCHANGED dir

\* The time is the one read before the description was written.
\* Mutant: without the mutex.
IndexUnguarded(f) ==
    /\ At(f, "index")
    /\ ExpireRoom(upload[f].began, {f})
    /\ Moves(f, "done")
    /\ UNCHANGED <<setting, dir, disk, settingOn, session, now, restarts, overrun>>

Index(f) ==
    /\ At(f, "index") /\ lock = None
    /\ ExpireRoom(upload[f].began, {f})
    /\ Moves(f, "done")
    /\ UNCHANGED <<setting, dir, disk, settingOn, session, now, restarts, overrun>>

-----------------------------------------------------------------------------
(* A websocket session: the file frame of enqueueRoomState                 *)

\* lastFilesRev starts at -1; `at` is how far ListWithSettings is.
NewSession == [at |-> "idle", sent |-> [rev |-> -1, files |-> {}, on |-> FALSE],
               read |-> [rev |-> -1, files |-> {}, on |-> FALSE]]

Connect ==
    /\ session = None
    /\ session' = NewSession
    /\ UNCHANGED <<memory, dir, disk, settingOn, upload, lock, now, restarts, overrun>>

\* ListWithRevision
List ==
    /\ lock = None /\ session # None /\ session.at = "idle"
    /\ ExpireRoom(now, {})
    /\ session' = [session EXCEPT !.at = "listed", !.read = [@ EXCEPT !.rev = rev', !.files = index']]
    /\ UNCHANGED <<setting, dir, disk, settingOn, upload, now, restarts, overrun>>

\* IsFileUploadEnabled takes the mutex again.
ReadSetting ==
    /\ lock = None /\ session # None /\ session.at = "listed"
    /\ session' = [session EXCEPT !.at = "read", !.read.on = (setting = TRUE)]
    /\ UNCHANGED <<memory, dir, disk, settingOn, upload, lock, now, restarts, overrun>>

\* A frame is sent when the revision is new, or the session's authorization has
\* changed; it is dropped when the queue is full.
SendFiles(forced) ==
    /\ session # None /\ session.at = "read"
    /\ \/ /\ forced \/ session.read.rev # session.sent.rev
          /\ session' = [session EXCEPT !.at = "idle", !.sent = session.read]
       \/ session' = [session EXCEPT !.at = "idle"]
    /\ UNCHANGED <<memory, dir, disk, settingOn, upload, lock, now, restarts, overrun>>

-----------------------------------------------------------------------------
(* Crash and restart                                                       *)

\* What loadRoomFromDisk enters in the index, after sweepRoomDir has removed
\* temporary files, and data and descriptions without each other.
Loaded == {f \in File : Whole \subseteq disk[f] /\ upload[f].expires > now}

Swept(kept) == [f \in File |-> IF f \in kept THEN disk[f] \cap Whole ELSE {}]

Restart ==
    /\ restarts < MaxRestarts
    /\ restarts' = restarts + 1
    /\ index' = Loaded
    /\ disk' = Swept(Loaded)
    /\ setting' = settingOn
    /\ dir' = (dir /\ (Loaded # {} \/ settingOn # None))
    /\ rev' = 0
    /\ lock' = None
    /\ session' = None
    /\ upload' = [f \in File |->
                   IF At(f, "new") THEN upload[f]
                   ELSE [upload[f] EXCEPT !.at = IF f \in Loaded THEN "done" ELSE "failed"]]
    /\ UNCHANGED <<settingOn, now, overrun>>

Tick ==
    /\ now < MaxNow
    /\ now' = now + 1
    /\ UNCHANGED <<memory, dir, disk, settingOn, upload, lock, session, restarts, overrun>>

-----------------------------------------------------------------------------
PutReader(f) ==
    \/ MakeDir(f) \/ OpenData(f) \/ Copy(f) \/ Describe(f)
    \/ RenameData(f) \/ RenameMeta(f) \/ Index(f)

Disk == (\E f \in File : RemoveFile(f)) \/ RemoveEntries \/ Unlock

Session == Connect \/ List \/ ReadSetting \/ (\E forced \in BOOLEAN : SendFiles(forced))

Next ==
    \/ CleanupExpired \/ DeleteRoom \/ Disk \/ Session \/ Restart \/ Tick
    \/ \E f \in File : PutReader(f) \/ Delete(f)
    \/ \E on \in BOOLEAN : SetFileUploadEnabled(on)

\* StartCleanup's ticker never stops, and who holds the mutex goes on.
Spec == Init /\ [][Next]_vars /\ WF_vars(CleanupExpired) /\ WF_vars(Disk)

-----------------------------------------------------------------------------
(* Properties *)

Step == {"new", "open", "copy", "describe", "rename", "rename meta", "index", "done", "failed"}
UploadType == [at : Step, began : Nat, expires : Nat]
Frame == [rev : Int, files : SUBSET File, on : BOOLEAN]
SessionType == [at : {"idle", "listed", "read"}, sent : Frame, read : Frame]

\* The types of the variables; who is listed has been uploaded, and is not
\* being removed.
TypeOK ==
    /\ index \in SUBSET File
    /\ setting \in BOOLEAN \cup {None}
    /\ settingOn \in BOOLEAN \cup {None}
    /\ rev \in Nat
    /\ dir \in BOOLEAN
    /\ disk \in [File -> SUBSET Part]
    /\ upload \in [File -> UploadType]
    /\ lock \in LockType \cup {None}
    /\ session \in SessionType \cup {None}
    /\ now \in Nat
    /\ restarts \in Nat
    /\ overrun \in SUBSET File
    /\ \A f \in index : At(f, "done") /\ (lock # None => f \notin lock.doomed)

Uploading(f) == upload[f].at \notin {"new", "done", "failed"}

\* A listed file can be downloaded: its data and description are on disk,
\* whatever uploads, removals, deletions of the room and crashes did meanwhile.
\* Excepted are uploads that a deletion of the room overtook between their last
\* rename and the mutex (PutReader, deleteRoomLocked).
ListedOnDisk == \A f \in index \ overrun : Whole \subseteq disk[f]

\* Nothing is left behind: a part on disk belongs to a listed file, to an upload
\* that goes on, or to what the holder of the mutex is removing, also after a
\* crash between any two file operations (cleanup, sweepRoomDir).
NoLeftovers ==
    \A f \in File : disk[f] # {} =>
        \/ f \in index
        \/ Uploading(f)
        \/ lock # None /\ f \in lock.doomed

\* A restart brings back every listed file that lives and the setting, and
\* nothing else except what was being removed or had just been written; a file
\* whose removal was complete never returns (loadRoomFromDisk).
RestartRestores ==
    [][restarts' # restarts =>
         /\ \A f \in index \ overrun : upload[f].expires > now => f \in index'
         /\ index' \subseteq index \cup {f \in File : At(f, "index")}
                              \cup (IF lock # None THEN lock.doomed ELSE {})
         /\ setting' = setting \/ lock # None]_vars

\* A session that has been sent the current revision has been sent the current
\* list and setting, although it reads them one after the other: it never takes
\* an old list for the current one (ListWithSettings, bumpRevLocked).
ShownIsCurrent ==
    session # None /\ session.sent.rev = rev =>
        session.sent.files = index /\ session.sent.on = (setting = TRUE)

\* Where a file is in its life: by the index, the holder of the mutex, its upload and
\* the disk.
StageOf(f) ==
    IF f \in index THEN IF f \in overrun THEN "hollow"
                         ELSE IF Whole \subseteq disk[f] THEN "listed" ELSE "damaged"
    ELSE IF At(f, "new") THEN "new"
    ELSE IF Uploading(f) THEN IF f \in overrun THEN "cut" ELSE "storing"
    ELSE IF lock # None /\ f \in lock.doomed THEN "leaving"
    ELSE IF disk[f] = {} THEN "gone" ELSE "left behind"

stage == [f \in File |-> StageOf(f)]
over == {f \in index : upload[f].expires <= now}

Life == INSTANCE FileLife WITH File <- File, stage <- stage, over <- over

\* The store keeps the promises of FileLife: a file is listed when it is stored and
\* until it is deleted, expires or is cut off with its room; files that leave are
\* gone from the disk before others leave, gone files never return, and a crash
\* between any two file operations loses nothing that is listed and lives.
LivesOfFiles == Life!Spec

\* The data of an expired file is removed from disk in the end.
ExpiredFilesGo ==
    \A f \in File : f \in index /\ upload[f].expires <= now ~> disk[f] = {}
=============================================================================
