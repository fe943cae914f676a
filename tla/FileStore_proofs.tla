-------------------------- MODULE FileStore_proofs --------------------------
(***************************************************************************)
(* Theorems about FileStore, for any uploads, lifetimes and bounds.        *)
(*                                                                         *)
(* ListedOnDisk and NoLeftovers are not inductive: whether a file that is  *)
(* entered in the index, or loaded by a restart, is whole depends on what  *)
(* the steps of its upload, and of the holder of the mutex, have left on   *)
(* disk.  UploadInv and LockInv say what that is.                          *)
(*                                                                         *)
(* FileStore implements FileLife: every step is looked at through the      *)
(* stage of each file; StagesAre says what a stage means, and each lemma   *)
(* which step of FileLife a step is.  This needs OverrunInv as well: what  *)
(* a deletion of the room has overtaken has nothing on disk, so that no    *)
(* restart loads it.                                                       *)
(***************************************************************************)
EXTENDS FileStore, TLAPS

\* What an upload has on disk: nothing before it begins; a description only when
\* it is over, or about to enter its file; and then, unless a deletion of the
\* room overtook it, the data as well.
Orderly(f) ==
    /\ At(f, "new") \/ At(f, "open") => disk[f] = {}
    /\ "meta" \in disk[f] => At(f, "index") \/ At(f, "done")
    /\ At(f, "rename meta") /\ "meta.tmp" \in disk[f] => "bin" \in disk[f]
    /\ At(f, "index") /\ f \notin overrun => Whole \subseteq disk[f]

UploadInv == \A f \in File : Orderly(f)

\* What the holder of the mutex removes: uploads that are over; with the whole
\* directory, the whole index.  Only then does the setting on disk differ.
LockInv ==
    /\ lock # None => /\ \A f \in lock.doomed : At(f, "done")
                      /\ lock.after = "all" => index = {} /\ setting = None
    /\ lock = None \/ lock.after # "all" => settingOn = setting

\* What a session has sent or read last is no newer than the store, and is the
\* store's list and setting if it carries the store's revision.
SessionInv ==
    session # None =>
        /\ session.sent.rev <= rev
        /\ session.sent.rev = rev =>
             session.sent.files = index /\ session.sent.on = (setting = TRUE)
        /\ session.at # "idle" =>
             /\ session.read.rev <= rev
             /\ session.read.rev = rev => session.read.files = index
        /\ session.at = "read" /\ session.read.rev = rev =>
             session.read.on = (setting = TRUE)

IInv == TypeOK /\ UploadInv /\ LockInv /\ ListedOnDisk /\ NoLeftovers /\ SessionInv

-----------------------------------------------------------------------------
(* What the helpers do *)

\* The parts of a holder's work.
LEMMA WorkIs ==
    ASSUME NEW d \in SUBSET File, NEW a \in {"keep", "try", "all"}
    PROVE  /\ Work(d, a) \in LockType /\ Work(d, a) # None
           /\ Work(d, a).doomed = d /\ Work(d, a).after = a
BY FilesAssumption DEF Work, LockType

\* Expiry moves the expired files from the index to the holder's work, and the
\* revision moves with every change of the index.
LEMMA ExpireRoomIs ==
    ASSUME TypeOK, lock = None, NEW t, NEW added \in SUBSET File, ExpireRoom(t, added)
    PROVE  /\ Expired(t) \subseteq index
           /\ index' = (index \ Expired(t)) \cup added
           /\ rev' \in Nat /\ rev' >= rev
           /\ rev' = rev => index' = index
           /\ IF Expired(t) = {} THEN lock' = None
              ELSE /\ lock' \in LockType /\ lock' # None
                   /\ lock'.doomed = Expired(t) /\ lock'.after # "all"
<1>1. Expired(t) \subseteq index /\ Expired(t) \in SUBSET File
  BY DEF TypeOK, Expired
<1>2. rev' \in Nat /\ rev' >= rev /\ (rev' = rev => Expired(t) = {} /\ added = {})
  BY DEF TypeOK, ExpireRoom
<1>3. index' = (index \ Expired(t)) \cup added
  BY DEF ExpireRoom
<1>4. Expired(t) = {} => lock' = None
  BY DEF ExpireRoom
<1>5. Expired(t) # {} => /\ lock' \in LockType /\ lock' # None
                         /\ lock'.doomed = Expired(t) /\ lock'.after # "all"
  BY <1>1, WorkIs DEF ExpireRoom, After
<1>6. QED BY <1>1, <1>2, <1>3, <1>4, <1>5

\* An upload that moves keeps its times, and the others where they are.
LEMMA MovesIs ==
    ASSUME TypeOK, NEW f \in File, NEW step \in Step, Moves(f, step)
    PROVE  /\ upload' \in [File -> UploadType]
           /\ upload'[f].at = step
           /\ \A g \in File \ {f} : upload'[g] = upload[g]
BY DEF TypeOK, Moves, UploadType

\* Giving one file other parts changes no other file.
LEMMA DiskIs ==
    ASSUME TypeOK, NEW f \in File, NEW parts \in SUBSET Part,
           disk' = [disk EXCEPT ![f] = parts]
    PROVE  /\ disk' \in [File -> SUBSET Part]
           /\ disk'[f] = parts
           /\ \A g \in File \ {f} : disk'[g] = disk[g]
BY DEF TypeOK

\* A failed upload has nothing on disk.
LEMMA FailsIs ==
    ASSUME TypeOK, NEW f \in File, Fails(f)
    PROVE  /\ disk' \in [File -> SUBSET Part] /\ upload' \in [File -> UploadType]
           /\ disk'[f] = {} /\ upload'[f].at = "failed"
           /\ \A g \in File \ {f} : disk'[g] = disk[g] /\ upload'[g] = upload[g]
<1>1. disk' = [disk EXCEPT ![f] = {}] /\ Moves(f, "failed")
  BY DEF Fails, Cleanup
<1>2. "failed" \in Step /\ {} \in SUBSET Part
  BY DEF Step
<1>3. QED BY <1>1, <1>2, MovesIs, DiskIs

-----------------------------------------------------------------------------
(* The steps of an upload before it takes the mutex *)

\* A step of f's upload that leaves f orderly, and leaves f nothing on disk
\* unless it goes on, preserves the invariant.
LEMMA UploadStep ==
    ASSUME IInv, NEW f \in File, OnlyUpload,
           dir' \in BOOLEAN, disk' \in [File -> SUBSET Part],
           upload' \in [File -> UploadType],
           \A g \in File \ {f} : disk'[g] = disk[g] /\ upload'[g] = upload[g],
           ~At(f, "done"), ~At(f, "done")', Orderly(f)',
           disk'[f] # {} => Uploading(f)'
    PROVE  IInv'
<1>1. f \notin index /\ (lock # None => f \notin lock.doomed)
  BY DEF IInv, TypeOK, LockInv, At
<1>2. TypeOK'
  BY <1>1 DEF IInv, TypeOK, OnlyUpload, memory, At
<1>3. ASSUME NEW g \in File PROVE Orderly(g)'
  <2>1. CASE g = f
    BY <2>1
  <2>2. CASE g # f
    <3>1. Orderly(g) /\ disk'[g] = disk[g] /\ upload'[g] = upload[g] /\ overrun' = overrun
      BY <2>2 DEF IInv, UploadInv, OnlyUpload
    <3>2. QED BY <3>1 DEF Orderly, At
  <2>3. QED BY <2>1, <2>2
<1>4. LockInv'
  BY <1>1, FilesAssumption DEF IInv, TypeOK, LockInv, LockType, OnlyUpload, memory, At
<1>5. ListedOnDisk'
  BY <1>1 DEF IInv, TypeOK, ListedOnDisk, OnlyUpload, memory
<1>6. NoLeftovers'
  BY DEF IInv, NoLeftovers, Uploading, OnlyUpload, memory
<1>7. SessionInv'
  BY DEF IInv, SessionInv, OnlyUpload, memory
<1>8. QED BY <1>2, <1>3, <1>4, <1>5, <1>6, <1>7 DEF IInv, UploadInv

\* The directory is made.
LEMMA MakeDirStep ==
    ASSUME IInv, NEW f \in File, MakeDir(f)
    PROVE  IInv'
<1>1. Moves(f, "open") /\ disk' = disk /\ dir' = TRUE /\ OnlyUpload /\ At(f, "new")
  BY DEF MakeDir
<1>2. /\ upload' \in [File -> UploadType] /\ upload'[f].at = "open"
      /\ \A g \in File \ {f} : upload'[g] = upload[g]
  BY <1>1, MovesIs DEF IInv, Step
<1>3. disk'[f] = {} /\ disk' \in [File -> SUBSET Part]
  BY <1>1 DEF IInv, UploadInv, Orderly, TypeOK
<1>4. Orderly(f)'
  BY <1>2, <1>3 DEF Orderly, At
<1>5. QED BY <1>1, <1>2, <1>3, <1>4, UploadStep DEF At

\* The data's file is created, unless the directory is gone.
LEMMA OpenDataStep ==
    ASSUME IInv, NEW f \in File, OpenData(f)
    PROVE  IInv'
<1>1. At(f, "open") /\ OnlyUpload /\ dir' \in BOOLEAN /\ TypeOK /\ Orderly(f)
  BY DEF OpenData, IInv, TypeOK, UploadInv
<1>2. CASE dir
  <2>1. disk' = [disk EXCEPT ![f] = {"bin.tmp"}] /\ Moves(f, "copy")
    BY <1>2 DEF OpenData
  <2>2. /\ upload' \in [File -> UploadType] /\ upload'[f].at = "copy"
        /\ \A g \in File \ {f} : upload'[g] = upload[g]
    BY <1>1, <2>1, MovesIs DEF Step
  <2>3. /\ disk' \in [File -> SUBSET Part] /\ disk'[f] = {"bin.tmp"}
        /\ \A g \in File \ {f} : disk'[g] = disk[g]
    BY <1>1, <2>1, DiskIs DEF Part
  <2>4. Orderly(f)' /\ Uploading(f)'
    BY <2>2, <2>3 DEF Orderly, Uploading, At
  <2>5. QED BY <1>1, <2>2, <2>3, <2>4, UploadStep DEF At
<1>3. CASE ~dir
  <2>1. disk' = disk /\ Moves(f, "failed")
    BY <1>3 DEF OpenData
  <2>2. /\ upload' \in [File -> UploadType] /\ upload'[f].at = "failed"
        /\ \A g \in File \ {f} : upload'[g] = upload[g]
    BY <1>1, <2>1, MovesIs DEF Step
  <2>3. disk[f] = {} /\ disk \in [File -> SUBSET Part]
    BY <1>1 DEF Orderly, TypeOK
  <2>4. Orderly(f)'
    BY <2>1, <2>2, <2>3 DEF Orderly, At
  <2>5. QED BY <1>1, <2>1, <2>2, <2>3, <2>4, UploadStep DEF At
<1>4. QED BY <1>2, <1>3

\* The data arrives, or the client stops.
LEMMA CopyStep ==
    ASSUME IInv, NEW f \in File, Copy(f)
    PROVE  IInv'
<1>1. At(f, "copy") /\ OnlyUpload /\ dir' \in BOOLEAN /\ TypeOK /\ Orderly(f)
  BY DEF Copy, IInv, TypeOK, UploadInv
<1>2. CASE Fails(f)
  <2>1. Orderly(f)'
    BY <1>1, <1>2, FailsIs DEF Orderly, At
  <2>2. QED BY <1>1, <1>2, <2>1, FailsIs, UploadStep DEF At
<1>3. CASE ~Fails(f)
  <2>1. disk' = disk /\ Moves(f, "describe")
    BY <1>3 DEF Copy
  <2>2. /\ upload' \in [File -> UploadType] /\ upload'[f].at = "describe"
        /\ \A g \in File \ {f} : upload'[g] = upload[g]
    BY <1>1, <2>1, MovesIs DEF Step
  <2>3. Orderly(f)' /\ Uploading(f)' /\ disk' \in [File -> SUBSET Part]
    BY <1>1, <2>1, <2>2 DEF Orderly, Uploading, At, TypeOK
  <2>4. QED BY <1>1, <2>1, <2>2, <2>3, UploadStep DEF At
<1>4. QED BY <1>2, <1>3

\* The description is written, with the expiry.
LEMMA DescribeStep ==
    ASSUME IInv, NEW f \in File, Describe(f)
    PROVE  IInv'
<1>1. At(f, "describe") /\ OnlyUpload /\ dir' \in BOOLEAN /\ TypeOK /\ Orderly(f)
  BY DEF Describe, IInv, TypeOK, UploadInv
<1>2. CASE Fails(f)
  <2>1. Orderly(f)'
    BY <1>1, <1>2, FailsIs DEF Orderly, At
  <2>2. QED BY <1>1, <1>2, <2>1, FailsIs, UploadStep DEF At
<1>3. CASE ~Fails(f)
  <2>1. PICK ttl \in TTL :
          upload' = [upload EXCEPT ![f] =
                       [at |-> "rename", began |-> now, expires |-> now + ttl]]
    BY <1>3 DEF Describe
  <2>2. now \in Nat /\ now + ttl \in Nat
    BY <1>1, FilesAssumption DEF TypeOK
  <2>3. /\ upload' \in [File -> UploadType] /\ upload'[f].at = "rename"
        /\ \A g \in File \ {f} : upload'[g] = upload[g]
    BY <1>1, <2>1, <2>2 DEF TypeOK, UploadType, Step
  <2>4. disk' = [disk EXCEPT ![f] = disk[f] \cup {"meta.tmp"}]
    BY <1>1, <1>3 DEF Describe, TypeOK
  <2>5. disk[f] \cup {"meta.tmp"} \in SUBSET Part
    BY <1>1 DEF TypeOK, Part
  <2>6. /\ disk' \in [File -> SUBSET Part] /\ disk'[f] = disk[f] \cup {"meta.tmp"}
        /\ \A g \in File \ {f} : disk'[g] = disk[g]
    BY <1>1, <2>4, <2>5, DiskIs
  <2>7. Orderly(f)' /\ Uploading(f)'
    BY <1>1, <2>3, <2>6 DEF Orderly, Uploading, At
  <2>8. QED BY <1>1, <2>3, <2>6, <2>7, UploadStep DEF At
<1>4. QED BY <1>2, <1>3

\* The data gets its name.
LEMMA RenameDataStep ==
    ASSUME IInv, NEW f \in File, RenameData(f)
    PROVE  IInv'
<1>1. At(f, "rename") /\ OnlyUpload /\ dir' \in BOOLEAN /\ TypeOK /\ Orderly(f)
  BY DEF RenameData, IInv, TypeOK, UploadInv
<1>2. CASE Fails(f)
  <2>1. Orderly(f)'
    BY <1>1, <1>2, FailsIs DEF Orderly, At
  <2>2. QED BY <1>1, <1>2, <2>1, FailsIs, UploadStep DEF At
<1>3. CASE ~Fails(f)
  <2>1. "bin.tmp" \in disk[f] /\ Moves(f, "rename meta")
    BY <1>3 DEF RenameData
  <2>2. disk' = [disk EXCEPT ![f] = (disk[f] \ {"bin.tmp"}) \cup {"bin"}]
    BY <1>1, <1>3 DEF RenameData, TypeOK
  <2>3. (disk[f] \ {"bin.tmp"}) \cup {"bin"} \in SUBSET Part
    BY <1>1 DEF TypeOK, Part
  <2>4. /\ upload' \in [File -> UploadType] /\ upload'[f].at = "rename meta"
        /\ \A g \in File \ {f} : upload'[g] = upload[g]
    BY <1>1, <2>1, MovesIs DEF Step
  <2>5. /\ disk' \in [File -> SUBSET Part] /\ disk'[f] = (disk[f] \ {"bin.tmp"}) \cup {"bin"}
        /\ \A g \in File \ {f} : disk'[g] = disk[g]
    BY <1>1, <2>2, <2>3, DiskIs
  <2>6. Orderly(f)' /\ Uploading(f)'
    BY <1>1, <2>1, <2>4, <2>5 DEF Orderly, Uploading, At, Whole
  <2>7. QED BY <1>1, <2>4, <2>5, <2>6, UploadStep DEF At
<1>4. QED BY <1>2, <1>3

\* The description gets its name: the data has its own, if it is still there.
LEMMA RenameMetaStep ==
    ASSUME IInv, NEW f \in File, RenameMeta(f)
    PROVE  IInv'
<1>1. At(f, "rename meta") /\ OnlyUpload /\ dir' \in BOOLEAN /\ TypeOK /\ Orderly(f)
  BY DEF RenameMeta, IInv, TypeOK, UploadInv
<1>2. CASE Fails(f)
  <2>1. Orderly(f)'
    BY <1>1, <1>2, FailsIs DEF Orderly, At
  <2>2. QED BY <1>1, <1>2, <2>1, FailsIs, UploadStep DEF At
<1>3. CASE ~Fails(f)
  <2>1. "meta.tmp" \in disk[f] /\ Moves(f, "index")
    BY <1>3 DEF RenameMeta
  <2>2. disk' = [disk EXCEPT ![f] = (disk[f] \ {"meta.tmp"}) \cup {"meta"}]
    BY <1>1, <1>3 DEF RenameMeta, TypeOK
  <2>3. (disk[f] \ {"meta.tmp"}) \cup {"meta"} \in SUBSET Part
    BY <1>1 DEF TypeOK, Part
  <2>4. /\ upload' \in [File -> UploadType] /\ upload'[f].at = "index"
        /\ \A g \in File \ {f} : upload'[g] = upload[g]
    BY <1>1, <2>1, MovesIs DEF Step
  <2>5. /\ disk' \in [File -> SUBSET Part] /\ disk'[f] = (disk[f] \ {"meta.tmp"}) \cup {"meta"}
        /\ \A g \in File \ {f} : disk'[g] = disk[g]
    BY <1>1, <2>2, <2>3, DiskIs
  <2>6. Orderly(f)' /\ Uploading(f)'
    BY <1>1, <2>1, <2>4, <2>5 DEF Orderly, Uploading, At, Whole
  <2>7. QED BY <1>1, <2>4, <2>5, <2>6, UploadStep DEF At
<1>4. QED BY <1>2, <1>3

-----------------------------------------------------------------------------
(* What happens to memory under the mutex *)

\* An expiry that leaves the uploads, the disk and the setting alone preserves
\* the invariant, but for what it makes a session believe.
LEMMA ExpiryStep ==
    ASSUME IInv, lock = None, ExpireRoom(now, {}),
           UNCHANGED <<setting, dir, disk, settingOn, upload, now, restarts, overrun>>
    PROVE  /\ UploadInv' /\ LockInv' /\ ListedOnDisk' /\ NoLeftovers'
           /\ session' \in SessionType \cup {None} => TypeOK'
<1>1. /\ Expired(now) \subseteq index /\ index' = index \ Expired(now)
      /\ rev' \in Nat
      /\ IF Expired(now) = {} THEN lock' = None
         ELSE /\ lock' \in LockType /\ lock' # None
              /\ lock'.doomed = Expired(now) /\ lock'.after # "all"
  <2>1. {} \in SUBSET File
    OBVIOUS
  <2>2. index \ Expired(now) = (index \ Expired(now)) \cup {}
    OBVIOUS
  <2>3. TypeOK
    BY DEF IInv
  <2>4. QED BY <2>1, <2>2, <2>3, ExpireRoomIs
<1>2. \A f \in index : At(f, "done")
  BY DEF IInv, TypeOK
<1>3. UploadInv'
  BY DEF IInv, UploadInv, Orderly, At
<1>4. LockInv'
  BY <1>1, <1>2 DEF IInv, LockInv, At
<1>5. ListedOnDisk'
  BY <1>1 DEF IInv, ListedOnDisk
<1>6. NoLeftovers'
  BY <1>1 DEF IInv, NoLeftovers, Uploading
<1>7. ASSUME session' \in SessionType \cup {None} PROVE TypeOK'
  BY <1>1, <1>2, <1>7 DEF IInv, TypeOK, At
<1>8. QED BY <1>3, <1>4, <1>5, <1>6, <1>7

\* A session that does nothing believes nothing wrong after a change of the
\* index or setting that moves the revision.
LEMMA SessionKeeps ==
    ASSUME TypeOK, SessionInv, session' = session, rev' \in Nat, rev' >= rev,
           rev' = rev => index' = index /\ (setting' = TRUE <=> setting = TRUE)
    PROVE  SessionInv'
<1>1. CASE session = None
  BY <1>1 DEF SessionInv
<1>2. CASE session # None
  <2>1. session.sent.rev \in Int /\ session.read.rev \in Int /\ rev \in Nat
    BY <1>2 DEF TypeOK, SessionType, Frame
  <2>2. QED BY <1>2, <2>1 DEF SessionInv
<1>3. QED BY <1>1, <1>2

\* The sweep, and the expiry inside a lookup.
LEMMA CleanupExpiredStep ==
    ASSUME IInv, CleanupExpired
    PROVE  IInv'
<1>1. /\ lock = None /\ ExpireRoom(now, {}) /\ session' = session
      /\ UNCHANGED <<setting, dir, disk, settingOn, upload, now, restarts, overrun>>
      /\ TypeOK /\ SessionInv
  BY DEF CleanupExpired, IInv
<1>2. rev' \in Nat /\ rev' >= rev /\ (rev' = rev => index' = index)
  BY <1>1, ExpireRoomIs
<1>3. SessionInv'
  BY <1>1, <1>2, SessionKeeps
<1>4. session' \in SessionType \cup {None}
  BY <1>1 DEF TypeOK
<1>5. QED BY <1>1, <1>3, <1>4, ExpiryStep DEF IInv

\* The removal of a file.
LEMMA DeleteStep ==
    ASSUME IInv, NEW f \in File, Delete(f)
    PROVE  IInv'
<1>1. /\ lock = None /\ f \in index /\ index' = index \ {f} /\ rev' = rev + 1
      /\ UNCHANGED <<setting, dir, disk, settingOn, upload, session, now, restarts, overrun>>
      /\ TypeOK /\ SessionInv
  BY DEF Delete, IInv
<1>2. /\ lock' \in LockType /\ lock' # None /\ lock'.doomed = {f} /\ lock'.after # "all"
  BY WorkIs DEF Delete, After
<1>3. At(f, "done")
  BY <1>1 DEF TypeOK
<1>4. TypeOK'
  BY <1>1, <1>2 DEF TypeOK, At
<1>5. UploadInv'
  BY <1>1 DEF IInv, UploadInv, Orderly, At
<1>6. LockInv'
  BY <1>1, <1>2, <1>3 DEF IInv, LockInv, At
<1>7. ListedOnDisk'
  BY <1>1 DEF IInv, ListedOnDisk
<1>8. NoLeftovers'
  BY <1>1, <1>2 DEF IInv, NoLeftovers, Uploading
<1>9. SessionInv'
  BY <1>1, SessionKeeps DEF TypeOK
<1>10. QED BY <1>4, <1>5, <1>6, <1>7, <1>8, <1>9 DEF IInv

\* The deletion of the room.
LEMMA DeleteRoomStep ==
    ASSUME IInv, DeleteRoom
    PROVE  IInv'
<1>1. /\ lock = None /\ index' = {} /\ setting' = None
      /\ UNCHANGED <<dir, disk, settingOn, upload, session, now, restarts, overrun>>
      /\ TypeOK /\ SessionInv
  BY DEF DeleteRoom, IInv
<1>2. lock' \in LockType /\ lock' # None /\ lock'.doomed = index /\ lock'.after = "all"
  BY <1>1, WorkIs DEF DeleteRoom, TypeOK
<1>3. \A f \in index : At(f, "done")
  BY <1>1 DEF TypeOK
<1>4. TypeOK'
  BY <1>1, <1>2 DEF TypeOK, DeleteRoom
<1>5. UploadInv'
  BY <1>1 DEF IInv, UploadInv, Orderly, At
<1>6. LockInv'
  BY <1>1, <1>2, <1>3 DEF LockInv, At
<1>7. ListedOnDisk'
  BY <1>1 DEF ListedOnDisk
<1>8. NoLeftovers'
  BY <1>1, <1>2 DEF IInv, NoLeftovers, Uploading
<1>9. SessionInv'
  <2>1. rev \in Nat
    BY <1>1 DEF TypeOK
  <2>2. setting' # TRUE
    BY <1>1, FilesAssumption
  <2>3. CASE Had
    <3>1. rev' \in Nat /\ rev' >= rev /\ rev' # rev
      BY <2>1, <2>3 DEF DeleteRoom
    <3>2. QED BY <1>1, <3>1, SessionKeeps
  <2>4. CASE ~Had
    <3>1. rev' = rev /\ index' = index /\ setting # TRUE
      BY <1>1, <2>4 DEF DeleteRoom, Had
    <3>2. rev' \in Nat /\ rev' >= rev
      BY <2>1, <3>1
    <3>3. QED BY <1>1, <2>2, <3>1, <3>2, SessionKeeps
  <2>5. QED BY <2>3, <2>4
<1>10. QED BY <1>4, <1>5, <1>6, <1>7, <1>8, <1>9 DEF IInv

\* A change of the setting.
LEMMA SetFileUploadEnabledStep ==
    ASSUME IInv, NEW on \in BOOLEAN, SetFileUploadEnabled(on)
    PROVE  IInv'
<1>1. /\ lock = None /\ dir' = TRUE /\ settingOn' = on /\ setting' = on /\ rev' = rev + 1
      /\ UNCHANGED <<index, disk, upload, lock, session, now, restarts, overrun>>
      /\ TypeOK /\ SessionInv
  BY DEF SetFileUploadEnabled, IInv
<1>2. TypeOK'
  BY <1>1 DEF TypeOK, At
<1>3. UploadInv'
  BY <1>1 DEF IInv, UploadInv, Orderly, At
<1>4. LockInv'
  BY <1>1 DEF LockInv
<1>5. ListedOnDisk' /\ NoLeftovers'
  BY <1>1 DEF IInv, ListedOnDisk, NoLeftovers, Uploading
<1>6. SessionInv'
  <2>1. rev' \in Nat /\ rev' >= rev /\ rev' # rev
    BY <1>1 DEF TypeOK
  <2>2. QED BY <1>1, <2>1, SessionKeeps
<1>7. QED BY <1>2, <1>3, <1>4, <1>5, <1>6 DEF IInv

\* The end of an upload: its file is whole, or a deletion of the room overtook it.
LEMMA IndexStep ==
    ASSUME IInv, NEW f \in File, Index(f)
    PROVE  IInv'
<1> DEFINE t == upload[f].began
<1>1. /\ At(f, "index") /\ lock = None /\ ExpireRoom(t, {f}) /\ Moves(f, "done")
      /\ UNCHANGED <<setting, dir, disk, settingOn, session, now, restarts, overrun>>
      /\ TypeOK /\ UploadInv /\ SessionInv
  BY DEF Index, IInv
<1>2. /\ Expired(t) \subseteq index /\ index' = (index \ Expired(t)) \cup {f}
      /\ rev' \in Nat /\ rev' >= rev /\ (rev' = rev => index' = index)
      /\ IF Expired(t) = {} THEN lock' = None
         ELSE /\ lock' \in LockType /\ lock' # None
              /\ lock'.doomed = Expired(t) /\ lock'.after # "all"
  BY <1>1, ExpireRoomIs
<1>3. /\ upload' \in [File -> UploadType] /\ upload'[f].at = "done"
      /\ \A g \in File \ {f} : upload'[g] = upload[g]
  BY <1>1, MovesIs DEF Step
<1>4. f \notin index /\ \A g \in index : At(g, "done") /\ At(g, "done")'
  BY <1>1, <1>3 DEF TypeOK, At
<1>5. TypeOK'
  BY <1>1, <1>2, <1>3, <1>4 DEF TypeOK, At
<1>6. ASSUME NEW g \in File PROVE Orderly(g)'
  <2>1. CASE g = f
    BY <1>3, <2>1 DEF Orderly, At
  <2>2. CASE g # f
    <3>1. Orderly(g) /\ disk' = disk /\ overrun' = overrun /\ upload'[g] = upload[g]
      BY <1>1, <1>3, <2>2 DEF UploadInv
    <3>2. QED BY <3>1 DEF Orderly, At
  <2>3. QED BY <2>1, <2>2
<1>7. LockInv'
  BY <1>1, <1>2, <1>4 DEF IInv, LockInv
<1>8. ListedOnDisk'
  BY <1>1, <1>2 DEF IInv, UploadInv, Orderly, ListedOnDisk
<1>9. NoLeftovers'
  BY <1>1, <1>2, <1>3 DEF IInv, NoLeftovers, Uploading
<1>10. SessionInv'
  BY <1>1, <1>2, SessionKeeps
<1>11. QED BY <1>5, <1>6, <1>7, <1>8, <1>9, <1>10 DEF IInv, UploadInv

-----------------------------------------------------------------------------
(* The holder of the mutex on disk *)

\* One removal of a file.
LEMMA RemoveFileStep ==
    ASSUME IInv, NEW f \in File, RemoveFile(f)
    PROVE  IInv'
<1>1. /\ lock # None /\ f \in lock.doomed /\ lock \in LockType /\ At(f, "done") /\ f \notin index
      /\ UNCHANGED <<memory, dir, settingOn, upload, session, now, restarts, overrun>>
      /\ TypeOK /\ UploadInv /\ SessionInv
  BY DEF RemoveFile, IInv, TypeOK, LockInv
<1>2. /\ disk' \in [File -> SUBSET Part]
      /\ \A g \in File \ {f} : disk'[g] = disk[g]
  BY DEF RemoveFile, RemoveNext, IInv, TypeOK
<1>3. /\ lock' \in LockType /\ lock' # None /\ lock'.after = lock.after
      /\ lock'.doomed \subseteq lock.doomed
      /\ lock.doomed \subseteq lock'.doomed \cup {f}
  BY <1>1, FilesAssumption DEF RemoveFile, LockType
<1>4. disk'[f] = {} \/ f \in lock'.doomed
  BY <1>1 DEF RemoveFile, RemoveNext, TypeOK
<1>5. TypeOK'
  BY <1>1, <1>2, <1>3 DEF TypeOK, memory, At
<1>6. ASSUME NEW g \in File PROVE Orderly(g)'
  <2>1. CASE g = f
    BY <1>1, <2>1 DEF Orderly, At
  <2>2. CASE g # f
    <3>1. Orderly(g) /\ disk'[g] = disk[g] /\ overrun' = overrun /\ upload' = upload
      BY <1>1, <1>2, <2>2 DEF UploadInv
    <3>2. QED BY <3>1 DEF Orderly, At
  <2>3. QED BY <2>1, <2>2
<1>7. LockInv'
  BY <1>1, <1>3 DEF IInv, LockInv, memory, At
<1>8. ListedOnDisk'
  BY <1>1, <1>2 DEF IInv, TypeOK, ListedOnDisk, memory
<1>9. NoLeftovers'
  BY <1>1, <1>2, <1>3, <1>4 DEF IInv, NoLeftovers, Uploading, memory
<1>10. SessionInv'
  BY <1>1 DEF SessionInv, memory
<1>11. QED BY <1>5, <1>6, <1>7, <1>8, <1>9, <1>10 DEF IInv, UploadInv

\* The removal of all that is in the directory: uploads about to enter their
\* file are overtaken, and nothing is listed.
LEMMA RemoveEntriesStep ==
    ASSUME IInv, RemoveEntries
    PROVE  IInv'
<1>1. /\ lock # None /\ lock \in LockType /\ lock.doomed = {} /\ lock.after = "all" /\ index = {}
      /\ disk' = [f \in File |-> {}] /\ settingOn' = None
      /\ overrun' = overrun \cup {f \in File : upload[f].at = "index"}
      /\ UNCHANGED <<memory, dir, upload, session, now, restarts>>
      /\ TypeOK /\ SessionInv
  BY DEF RemoveEntries, IInv, TypeOK, LockInv
<1>2. lock' \in LockType /\ lock' # None /\ lock'.doomed = {} /\ lock'.after = "try"
  BY <1>1, FilesAssumption DEF RemoveEntries, LockType
<1>3. setting = None
  BY <1>1 DEF IInv, LockInv
<1>4. TypeOK'
  BY <1>1, <1>2 DEF TypeOK, memory
<1>5. UploadInv'
  BY <1>1 DEF UploadInv, Orderly, At
<1>6. LockInv'
  BY <1>1, <1>2, <1>3 DEF LockInv, memory
<1>7. ListedOnDisk' /\ NoLeftovers'
  BY <1>1 DEF ListedOnDisk, NoLeftovers, memory
<1>8. SessionInv'
  BY <1>1 DEF SessionInv, memory
<1>9. QED BY <1>4, <1>5, <1>6, <1>7, <1>8 DEF IInv

\* The directory, and the mutex.
LEMMA UnlockStep ==
    ASSUME IInv, Unlock
    PROVE  IInv'
<1>1. /\ lock # None /\ lock.doomed = {} /\ lock.after # "all" /\ lock' = None
      /\ dir' \in BOOLEAN
      /\ UNCHANGED <<memory, disk, settingOn, upload, session, now, restarts, overrun>>
      /\ TypeOK /\ SessionInv
  BY DEF Unlock, IInv, TypeOK
<1>2. TypeOK'
  BY <1>1 DEF TypeOK, memory, At
<1>3. UploadInv'
  BY <1>1 DEF IInv, UploadInv, Orderly, At
<1>4. LockInv'
  BY <1>1 DEF IInv, LockInv, memory
<1>5. ListedOnDisk' /\ NoLeftovers'
  BY <1>1 DEF IInv, ListedOnDisk, NoLeftovers, Uploading, memory
<1>6. SessionInv'
  BY <1>1 DEF SessionInv, memory
<1>7. QED BY <1>2, <1>3, <1>4, <1>5, <1>6 DEF IInv

-----------------------------------------------------------------------------
(* Sessions *)

\* A session begins with nothing sent.
LEMMA ConnectStep ==
    ASSUME IInv, Connect
    PROVE  IInv'
<1>1. /\ session' = NewSession /\ TypeOK /\ rev \in Nat
      /\ UNCHANGED <<memory, dir, disk, settingOn, upload, lock, now, restarts, overrun>>
  BY DEF Connect, IInv, TypeOK
<1>2. NewSession \in SessionType
  BY DEF NewSession, SessionType, Frame
<1>3. TypeOK'
  BY <1>1, <1>2 DEF TypeOK, memory, At
<1>4. UploadInv'
  BY <1>1 DEF IInv, UploadInv, Orderly, At
<1>5. LockInv' /\ ListedOnDisk' /\ NoLeftovers'
  BY <1>1 DEF IInv, LockInv, ListedOnDisk, NoLeftovers, Uploading, At, memory
<1>6. SessionInv'
  BY <1>1 DEF SessionInv, NewSession, memory
<1>7. QED BY <1>3, <1>4, <1>5, <1>6 DEF IInv

\* A session reads the list, and the files that have expired by then go.
LEMMA ListStep ==
    ASSUME IInv, List
    PROVE  IInv'
<1>1. /\ lock = None /\ session # None /\ session \in SessionType /\ ExpireRoom(now, {})
      /\ session' = [session EXCEPT !.at = "listed",
                                    !.read = [@ EXCEPT !.rev = rev', !.files = index']]
      /\ UNCHANGED <<setting, dir, disk, settingOn, upload, now, restarts, overrun>>
      /\ TypeOK /\ SessionInv
  BY DEF List, IInv, TypeOK
<1>2. /\ rev \in Nat /\ rev' \in Nat /\ rev' >= rev /\ (rev' = rev => index' = index)
      /\ index' \in SUBSET File
  BY <1>1, ExpireRoomIs DEF TypeOK
<1>3. session' \in SessionType
  <2> DEFINE read == [session.read EXCEPT !.rev = rev', !.files = index']
  <2>1. session.read \in Frame
    BY <1>1 DEF SessionType
  <2>2. read \in Frame
    <3>1. rev' \in Int /\ index' \in SUBSET File
      BY <1>2
    <3>2. ASSUME NEW i \in Int, NEW l \in SUBSET File
          PROVE  [session.read EXCEPT !.rev = i, !.files = l] \in Frame
      BY <2>1 DEF Frame
    <3>3. QED BY <3>1, <3>2
  <2>3. session' = [session EXCEPT !.at = "listed", !.read = read]
    BY <1>1 DEF SessionType
  <2> HIDE DEF read
  <2>4. QED BY <1>1, <2>2, <2>3 DEF SessionType
<1>4. /\ session'.sent = session.sent /\ session'.at = "listed"
      /\ session'.read.rev = rev' /\ session'.read.files = index'
      /\ session.sent.rev \in Int
  BY <1>1 DEF SessionType, Frame
<1>5. SessionInv'
  <2>1. /\ session.sent.rev <= rev
        /\ session.sent.rev = rev =>
             session.sent.files = index /\ session.sent.on = (setting = TRUE)
    BY <1>1 DEF SessionInv
  <2>2. session.sent.rev <= rev' /\ (session.sent.rev = rev' => rev' = rev)
    BY <1>2, <1>4, <2>1
  <2>3. QED BY <1>1, <1>2, <1>4, <2>1, <2>2 DEF SessionInv
<1>6. QED BY <1>1, <1>3, <1>5, ExpiryStep DEF IInv

\* A session reads the setting.
LEMMA ReadSettingStep ==
    ASSUME IInv, ReadSetting
    PROVE  IInv'
<1>1. /\ session # None /\ session \in SessionType /\ session.at = "listed"
      /\ session' = [session EXCEPT !.at = "read", !.read.on = (setting = TRUE)]
      /\ UNCHANGED <<memory, dir, disk, settingOn, upload, lock, now, restarts, overrun>>
      /\ TypeOK /\ SessionInv
  BY DEF ReadSetting, IInv, TypeOK
<1>2. session' \in SessionType
  BY <1>1 DEF SessionType, Frame
<1>3. TypeOK'
  BY <1>1, <1>2 DEF TypeOK, memory, At
<1>4. UploadInv'
  BY <1>1 DEF IInv, UploadInv, Orderly, At
<1>5. LockInv' /\ ListedOnDisk' /\ NoLeftovers'
  BY <1>1 DEF IInv, LockInv, ListedOnDisk, NoLeftovers, Uploading, At, memory
<1>6. SessionInv'
  BY <1>1 DEF SessionInv, SessionType, Frame, memory
<1>7. QED BY <1>3, <1>4, <1>5, <1>6 DEF IInv

\* What a session has read becomes what it has sent, or is dropped.
LEMMA SendFilesStep ==
    ASSUME IInv, NEW forced \in BOOLEAN, SendFiles(forced)
    PROVE  IInv'
<1>1. /\ session # None /\ session \in SessionType /\ session.at = "read"
      /\ \/ session' = [session EXCEPT !.at = "idle", !.sent = session.read]
         \/ session' = [session EXCEPT !.at = "idle"]
      /\ UNCHANGED <<memory, dir, disk, settingOn, upload, lock, now, restarts, overrun>>
      /\ TypeOK /\ SessionInv
  BY DEF SendFiles, IInv, TypeOK
<1>2. /\ session' \in SessionType /\ session'.at = "idle"
      /\ session'.sent = session.read \/ session'.sent = session.sent
  BY <1>1 DEF SessionType
<1>3. TypeOK'
  BY <1>1, <1>2 DEF TypeOK, memory, At
<1>4. UploadInv'
  BY <1>1 DEF IInv, UploadInv, Orderly, At
<1>5. LockInv' /\ ListedOnDisk' /\ NoLeftovers'
  BY <1>1 DEF IInv, LockInv, ListedOnDisk, NoLeftovers, Uploading, At, memory
<1>6. SessionInv'
  BY <1>1, <1>2 DEF SessionInv, memory
<1>7. QED BY <1>3, <1>4, <1>5, <1>6 DEF IInv

-----------------------------------------------------------------------------
(* Restart, and time *)

\* A restart loads the whole files that live, and removes all else.
LEMMA RestartStep ==
    ASSUME IInv, Restart
    PROVE  IInv'
<1>1. /\ index' = Loaded /\ disk' = Swept(Loaded) /\ setting' = settingOn /\ dir' \in BOOLEAN
      /\ rev' = 0 /\ lock' = None /\ session' = None /\ restarts' = restarts + 1
      /\ UNCHANGED <<settingOn, now, overrun>> /\ TypeOK /\ UploadInv
  BY DEF Restart, IInv, TypeOK
<1>2. \A f \in Loaded : f \in File /\ Whole \subseteq disk[f]
  BY DEF Loaded
<1>3. \A f \in File : /\ disk'[f] = IF f \in Loaded THEN disk[f] \cap Whole ELSE {}
                      /\ disk'[f] \in SUBSET Part
  BY <1>1 DEF Swept, TypeOK
<1>4. disk' \in [File -> SUBSET Part]
  BY <1>1, <1>3 DEF Swept
<1>5. \A f \in Loaded : ~At(f, "new")
  BY <1>1, <1>2 DEF UploadInv, Orderly, Whole
<1>6. \A f \in File :
        upload'[f] = IF At(f, "new") THEN upload[f]
                     ELSE [upload[f] EXCEPT !.at = IF f \in Loaded THEN "done" ELSE "failed"]
  BY DEF Restart
<1>7. ASSUME NEW f \in File
      PROVE  /\ upload'[f] \in UploadType
             /\ f \in Loaded => upload'[f].at = "done"
             /\ upload'[f].at \in {"new", "done", "failed"}
  <2>1. upload[f] \in UploadType
    BY <1>1 DEF TypeOK
  <2>2. QED BY <1>5, <1>6, <2>1 DEF UploadType, Step, At
<1>8. upload' \in [File -> UploadType]
  BY <1>7 DEF Restart
<1>9. TypeOK'
  BY <1>1, <1>2, <1>4, <1>7, <1>8 DEF TypeOK, At
<1>10. UploadInv'
  BY <1>1, <1>3, <1>5, <1>6, <1>7 DEF UploadInv, Orderly, At, Whole
<1>11. LockInv'
  BY <1>1 DEF LockInv
<1>12. ListedOnDisk' /\ NoLeftovers'
  BY <1>1, <1>2, <1>3 DEF ListedOnDisk, NoLeftovers
<1>13. SessionInv'
  BY <1>1 DEF SessionInv
<1>14. QED BY <1>9, <1>10, <1>11, <1>12, <1>13 DEF IInv

\* Time changes nothing by itself.
LEMMA TickStep ==
    ASSUME IInv, Tick
    PROVE  IInv'
<1>1. /\ now' = now + 1 /\ TypeOK
      /\ UNCHANGED <<memory, dir, disk, settingOn, upload, lock, session, restarts, overrun>>
  BY DEF Tick, IInv
<1>2. TypeOK'
  BY <1>1 DEF TypeOK, memory, At
<1>3. UploadInv'
  BY <1>1 DEF IInv, UploadInv, Orderly, At
<1>4. LockInv' /\ ListedOnDisk' /\ NoLeftovers' /\ SessionInv'
  BY <1>1 DEF IInv, LockInv, ListedOnDisk, NoLeftovers, SessionInv, Uploading, At, memory
<1>5. QED BY <1>2, <1>3, <1>4 DEF IInv

-----------------------------------------------------------------------------
(* The theorems *)

\* It holds at the start, where nothing is listed and nothing is on disk.
LEMMA Initially ==
    Init => IInv
<1> SUFFICES ASSUME Init PROVE IInv
  OBVIOUS
<1>1. TypeOK
  BY DEF Init, TypeOK, UploadType, Step
<1>2. UploadInv /\ LockInv /\ ListedOnDisk /\ NoLeftovers /\ SessionInv
  BY DEF Init, UploadInv, Orderly, LockInv, ListedOnDisk, NoLeftovers, SessionInv, At
<1>3. QED BY <1>1, <1>2 DEF IInv

\* Every step preserves it.
LEMMA Preserved ==
    IInv /\ [Next]_vars => IInv'
<1> SUFFICES ASSUME IInv, [Next]_vars PROVE IInv'
  OBVIOUS
<1>1. CASE CleanupExpired
  BY <1>1, CleanupExpiredStep
<1>2. CASE DeleteRoom
  BY <1>2, DeleteRoomStep
<1>3. CASE Disk
  BY <1>3, RemoveFileStep, RemoveEntriesStep, UnlockStep DEF Disk
<1>4. CASE Session
  BY <1>4, ConnectStep, ListStep, ReadSettingStep, SendFilesStep DEF Session
<1>5. CASE Restart
  BY <1>5, RestartStep
<1>6. CASE Tick
  BY <1>6, TickStep
<1>7. CASE \E f \in File : PutReader(f)
  BY <1>7, MakeDirStep, OpenDataStep, CopyStep, DescribeStep, RenameDataStep,
     RenameMetaStep, IndexStep DEF PutReader
<1>8. CASE \E f \in File : Delete(f)
  BY <1>8, DeleteStep
<1>9. CASE \E on \in BOOLEAN : SetFileUploadEnabled(on)
  BY <1>9, SetFileUploadEnabledStep
<1>10. CASE UNCHANGED vars
  <2>1. TypeOK'
    BY <1>10 DEF IInv, TypeOK, vars, memory, At
  <2>2. UploadInv'
    BY <1>10 DEF IInv, UploadInv, Orderly, vars, At
  <2>3. LockInv' /\ ListedOnDisk' /\ NoLeftovers' /\ SessionInv'
    BY <1>10 DEF IInv, LockInv, ListedOnDisk, NoLeftovers, SessionInv, Uploading, vars, At
  <2>4. QED BY <2>1, <2>2, <2>3 DEF IInv
<1>11. QED BY <1>1, <1>2, <1>3, <1>4, <1>5, <1>6, <1>7, <1>8, <1>9, <1>10 DEF Next

\* The invariant, of every behaviour.
THEOREM Invariance ==
    Spec => []IInv
BY Initially, Preserved, PTL DEF Spec

\* TypeOK: every state is of the declared types, and nothing that is listed is
\* being removed, or still being uploaded.
THEOREM TypeCorrect ==
    Spec => []TypeOK
<1>1. IInv => TypeOK
  BY DEF IInv
<1>2. QED BY <1>1, Invariance, PTL

\* ListedOnDisk: data and description of every listed file are on disk, however
\* many uploads, removals, deletions of the room and crashes there are, unless a
\* deletion of the room overtook the upload (files.go:300).
THEOREM ListedFilesAreOnDisk ==
    Spec => []ListedOnDisk
<1>1. IInv => ListedOnDisk
  BY DEF IInv
<1>2. QED BY <1>1, Invariance, PTL

\* NoLeftovers: what is on disk is listed, being uploaded, or being removed.
THEOREM NothingIsLeftBehind ==
    Spec => []NoLeftovers
<1>1. IInv => NoLeftovers
  BY DEF IInv
<1>2. QED BY <1>1, Invariance, PTL

\* ShownIsCurrent: a session that has sent the current revision has sent the
\* current list and setting, although it reads them under two holds of the mutex.
THEOREM ShownFilesAreCurrent ==
    Spec => []ShownIsCurrent
<1>1. IInv => ShownIsCurrent
  BY DEF IInv, SessionInv, ShownIsCurrent
<1>2. QED BY <1>1, Invariance, PTL

\* RestartRestores: a restart brings back every listed file that lives, and
\* besides only what was being removed or had just been written; and the setting,
\* unless it was being removed.
THEOREM RestartsRestore ==
    Spec => RestartRestores
<1> DEFINE Restores ==
      restarts' # restarts =>
         /\ \A f \in index \ overrun : upload[f].expires > now => f \in index'
         /\ index' \subseteq index \cup {f \in File : At(f, "index")}
                              \cup (IF lock # None THEN lock.doomed ELSE {})
         /\ setting' = setting \/ lock # None
<1>1. ASSUME IInv, Restart PROVE Restores
  <2>1. index' = Loaded /\ setting' = settingOn
    BY <1>1 DEF Restart
  <2>2. ASSUME NEW f \in index \ overrun, upload[f].expires > now PROVE f \in Loaded
    BY <1>1, <2>2 DEF IInv, TypeOK, ListedOnDisk, Loaded
  <2>3. ASSUME NEW f \in Loaded
        PROVE  f \in index \/ At(f, "index") \/ (lock # None /\ f \in lock.doomed)
    <3>1. f \in File /\ "meta" \in disk[f]
      BY <2>3 DEF Loaded, Whole
    <3>2. At(f, "index") \/ At(f, "done")
      BY <1>1, <3>1 DEF IInv, UploadInv, Orderly
    <3>3. f \in index \/ Uploading(f) \/ (lock # None /\ f \in lock.doomed)
      BY <1>1, <3>1 DEF IInv, NoLeftovers
    <3>4. QED BY <3>2, <3>3 DEF Uploading, At
  <2>4. setting' = setting \/ lock # None
    BY <1>1, <2>1 DEF IInv, LockInv
  <2>5. Loaded \subseteq File
    BY DEF Loaded
  <2>6. QED BY <2>1, <2>2, <2>3, <2>4, <2>5
<1>2. ASSUME [Next]_vars, ~Restart PROVE restarts' = restarts
  BY <1>2 DEF Next, vars, memory, CleanupExpired, DeleteRoom, Disk, RemoveFile, RemoveEntries,
     Unlock, Session, Connect, List, ReadSetting, SendFiles, Tick, PutReader, MakeDir, OpenData,
     Copy, Describe, RenameData, RenameMeta, OnlyUpload, Index, Delete, SetFileUploadEnabled
<1>3. IInv /\ [Next]_vars => [Restores]_vars
  BY <1>1, <1>2
<1>4. QED BY <1>3, Invariance, PTL DEF Spec, RestartRestores

-----------------------------------------------------------------------------
(* FileStore implements FileLife                                           *)

\* An upload that was overtaken is past its last rename, and has nothing on disk.
OverrunInv ==
    \A f \in overrun : disk[f] = {} /\ (At(f, "index") \/ At(f, "done") \/ At(f, "failed"))

RInv == IInv /\ OverrunInv

Leaving(f) == lock # None /\ f \in lock.doomed

\* What each stage means.
StagesAre ==
    /\ stage \in [File -> Life!Stage]
    /\ \A f \in File :
         /\ stage[f] = "hollow" <=> f \in index /\ f \in overrun
         /\ stage[f] = "listed" <=> f \in index /\ f \notin overrun
         /\ stage[f] = "new" <=> At(f, "new")
         /\ stage[f] = "cut" <=> Uploading(f) /\ f \in overrun
         /\ stage[f] = "storing" <=> Uploading(f) /\ f \notin overrun
         /\ stage[f] = "leaving" <=> Leaving(f)

\* With the invariant, no file is damaged or left behind, and the stages exclude
\* each other.
LEMMA Meaning ==
    RInv => StagesAre
<1> SUFFICES ASSUME RInv PROVE StagesAre
  OBVIOUS
<1>1. ASSUME NEW f \in File
      PROVE  /\ StageOf(f) \in Life!Stage
             /\ StageOf(f) = "hollow" <=> f \in index /\ f \in overrun
             /\ StageOf(f) = "listed" <=> f \in index /\ f \notin overrun
             /\ StageOf(f) = "new" <=> At(f, "new")
             /\ StageOf(f) = "cut" <=> Uploading(f) /\ f \in overrun
             /\ StageOf(f) = "storing" <=> Uploading(f) /\ f \notin overrun
             /\ StageOf(f) = "leaving" <=> Leaving(f)
  <2>1. f \in index => At(f, "done") /\ ~Leaving(f)
    BY DEF RInv, IInv, TypeOK, Leaving
  <2>2. Leaving(f) => At(f, "done")
    BY <1>1 DEF RInv, IInv, LockInv, Leaving
  <2>3. f \in index /\ f \notin overrun => Whole \subseteq disk[f]
    BY DEF RInv, IInv, ListedOnDisk
  <2>4. f \in index \/ Uploading(f) \/ Leaving(f) \/ disk[f] = {}
    BY <1>1 DEF RInv, IInv, NoLeftovers, Leaving
  <2>5. /\ At(f, "new") => ~Uploading(f)
        /\ At(f, "done") => ~Uploading(f) /\ ~At(f, "new")
    BY DEF Uploading, At
  <2>6. QED BY <2>1, <2>2, <2>3, <2>4, <2>5 DEF StageOf, Leaving, Life!Stage
<1>2. QED BY <1>1 DEF StagesAre, stage

\* The same of the next state.
LEMMA MeaningNext ==
    RInv' => StagesAre'
BY Meaning, PTL

-----------------------------------------------------------------------------
(* OverrunInv is an invariant *)

LEMMA OverrunInitially ==
    Init => OverrunInv
BY DEF Init, OverrunInv

\* Nobody writes for an upload that was overtaken.
LEMMA OverrunUpload ==
    ASSUME RInv, NEW f \in File, PutReader(f)
    PROVE  OverrunInv'
<1>1. overrun' = overrun /\ OverrunInv /\ TypeOK
  BY DEF RInv, IInv, PutReader, MakeDir, OpenData, Copy, Describe, RenameData, RenameMeta,
     Index, OnlyUpload
<1>2. ASSUME NEW g \in overrun PROVE disk'[g] = {} /\ (At(g, "index") \/ At(g, "done") \/ At(g, "failed"))'
  <2>1. disk[g] = {} /\ (At(g, "index") \/ At(g, "done") \/ At(g, "failed")) /\ g \in File
    BY <1>1, <1>2 DEF OverrunInv, TypeOK
  <2>2. CASE f = g
    <3>1. Index(f)
      BY <2>1, <2>2 DEF PutReader, MakeDir, OpenData, Copy, Describe, RenameData, RenameMeta, At
    <3>2. disk' = disk /\ Moves(f, "done")
      BY <3>1 DEF Index
    <3>3. upload'[f].at = "done"
      BY <1>1, <3>2, MovesIs DEF Step
    <3>4. QED BY <2>1, <2>2, <3>2, <3>3 DEF At
  <2>3. CASE f # g
    <3>1. disk'[g] = disk[g] /\ upload'[g] = upload[g]
      BY <1>1, <2>1, <2>3 DEF PutReader, MakeDir, OpenData, Copy, Describe, RenameData, RenameMeta,
         Index, Fails, Moves, Cleanup, TypeOK
    <3>2. QED BY <2>1, <3>1 DEF At
  <2>4. QED BY <2>2, <2>3
<1>3. QED BY <1>1, <1>2 DEF OverrunInv

LEMMA OverrunRemoveFile ==
    ASSUME RInv, NEW f \in File, RemoveFile(f)
    PROVE  OverrunInv'
<1>1. overrun' = overrun /\ upload' = upload /\ OverrunInv /\ TypeOK
  BY DEF RInv, IInv, RemoveFile
<1>2. \A g \in File : disk'[g] \subseteq disk[g]
  BY <1>1 DEF RemoveFile, RemoveNext, TypeOK
<1>3. QED BY <1>1, <1>2 DEF OverrunInv, TypeOK, At

LEMMA OverrunRestart ==
    ASSUME RInv, Restart
    PROVE  OverrunInv'
<1>1. /\ overrun' = overrun /\ OverrunInv /\ TypeOK /\ disk' = Swept(Loaded)
      /\ upload' = [f \in File |->
                     IF At(f, "new") THEN upload[f]
                     ELSE [upload[f] EXCEPT !.at = IF f \in Loaded THEN "done" ELSE "failed"]]
  BY DEF RInv, IInv, Restart
<1>2. ASSUME NEW g \in overrun
      PROVE disk'[g] = {} /\ (At(g, "index") \/ At(g, "done") \/ At(g, "failed"))'
  <2>1. g \in File /\ disk[g] = {} /\ ~At(g, "new") /\ upload[g] \in UploadType
    BY <1>1, <1>2 DEF OverrunInv, TypeOK, At
  <2>2. g \notin Loaded
    BY <2>1 DEF Loaded, Whole
  <2>3. disk'[g] = {}
    BY <1>1, <2>1, <2>2 DEF Swept
  <2>4. upload'[g].at = "failed"
    BY <1>1, <2>1, <2>2 DEF UploadType
  <2>5. QED BY <2>3, <2>4 DEF At
<1>3. QED BY <1>1, <1>2 DEF OverrunInv

LEMMA OverrunPreserved ==
    RInv /\ [Next]_vars => OverrunInv'
<1> SUFFICES ASSUME RInv, [Next]_vars PROVE OverrunInv'
  OBVIOUS
<1>1. CASE \E f \in File : PutReader(f)
  BY <1>1, OverrunUpload
<1>2. CASE \E f \in File : RemoveFile(f)
  BY <1>2, OverrunRemoveFile
<1>3. CASE RemoveEntries
  BY <1>3 DEF RInv, IInv, TypeOK, RemoveEntries, OverrunInv, At
<1>4. CASE Restart
  BY <1>4, OverrunRestart
<1>5. CASE /\ ~\E f \in File : PutReader(f) \/ RemoveFile(f)
           /\ ~RemoveEntries /\ ~Restart
  <2>1. UNCHANGED <<overrun, disk, upload>>
    BY <1>5 DEF Next, vars, CleanupExpired, DeleteRoom, Disk, Unlock, Session, Connect, List,
       ReadSetting, SendFiles, Tick, Delete, SetFileUploadEnabled
  <2>2. QED BY <2>1 DEF RInv, OverrunInv, At
<1>6. QED BY <1>1, <1>2, <1>3, <1>4, <1>5

LEMMA RefinementInvariant ==
    Spec => []RInv
<1>1. Init => RInv
  BY Initially, OverrunInitially DEF RInv
<1>2. RInv /\ [Next]_vars => RInv'
  BY Preserved, OverrunPreserved DEF RInv
<1>3. QED BY <1>1, <1>2, PTL DEF Spec

-----------------------------------------------------------------------------
(* What the steps are in FileLife *)

\* A file whose place in the index, upload and removal are what they were is at the
\* stage it was at.
LEMMA SameStage ==
    ASSUME StagesAre, StagesAre', NEW f \in File,
           f \in index' <=> f \in index, f \in overrun' <=> f \in overrun,
           At(f, "new")' <=> At(f, "new"), Uploading(f)' <=> Uploading(f),
           Leaving(f)' <=> Leaving(f)
    PROVE  stage'[f] = stage[f]
BY DEF StagesAre, Life!Stage

\* Lifetimes that are over stay so, while time does not run backwards and listed
\* files keep theirs.
LEMMA LifetimesStay ==
    ASSUME RInv, RInv', now' >= now,
           \A f \in index : f \in index' => upload'[f].expires = upload[f].expires
    PROVE  Life!Lifetimes
<1>1. StagesAre /\ StagesAre'
  BY Meaning, MeaningNext
<1>2. index \subseteq File /\ index' \subseteq File
  BY DEF RInv, IInv, TypeOK
<1>3. over' \subseteq {f \in File : stage'[f] \in Life!Listed}
  BY <1>1, <1>2 DEF StagesAre, over, Life!Listed
<1>4. ASSUME NEW f \in over, stage'[f] \in Life!Listed PROVE f \in over'
  <2>1. f \in index /\ f \in index' /\ f \in File
    BY <1>1, <1>2, <1>4 DEF StagesAre, over, Life!Listed
  <2>2. upload'[f].expires = upload[f].expires /\ upload[f].expires <= now
    BY <1>4, <2>1 DEF over
  <2>3. upload[f].expires \in Nat /\ now \in Nat /\ now' \in Nat
    BY <2>1 DEF RInv, IInv, TypeOK, UploadType
  <2>4. QED BY <2>1, <2>2, <2>3 DEF over
<1>5. QED BY <1>3, <1>4 DEF Life!Lifetimes

\* A step that changes no stage.
LEMMA AgeStep ==
    ASSUME RInv, RInv', Life!Lifetimes, \A f \in File : stage'[f] = stage[f]
    PROVE  Life!Next
<1>1. stage \in [File -> Life!Stage] /\ stage' \in [File -> Life!Stage]
  BY Meaning, MeaningNext DEF StagesAre
<1>2. stage' = stage
  BY <1>1
<1>3. QED BY <1>1, <1>2 DEF Life!Next, Life!Age

\* A step that moves one file.
LEMMA OneMoves ==
    ASSUME RInv, RInv', Life!Lifetimes, NEW f \in File,
           \A g \in File \ {f} : stage'[g] = stage[g],
           \/ (stage[f] = "new" /\ stage'[f] = "storing")
           \/ stage[f] \in {"storing", "cut"} /\ stage'[f] = "gone"
           \/ stage[f] = "leaving" /\ stage'[f] = "gone"
           \/ stage'[f] = stage[f]
    PROVE  Life!Next
<1>1. stage \in [File -> Life!Stage] /\ stage' \in [File -> Life!Stage]
  BY Meaning, MeaningNext DEF StagesAre
<1>2. stage' = [stage EXCEPT ![f] = stage'[f]]
  BY <1>1
<1>3. CASE stage'[f] = stage[f]
  BY <1>3, AgeStep
<1>4. CASE stage'[f] # stage[f]
  <2>1. Life!Store(f) \/ Life!Fail(f) \/ Life!Remove(f)
    BY <1>2, <1>4 DEF Life!Store, Life!Fail, Life!Remove
  <2>2. QED BY <1>1, <2>1 DEF Life!Next
<1>5. QED BY <1>3, <1>4

\* The steps of an upload before it takes the mutex.
LEMMA UploadRefines ==
    ASSUME RInv, RInv', NEW f \in File, PutReader(f), ~Index(f)
    PROVE  Life!Next
<1>1. /\ OnlyUpload /\ TypeOK /\ TypeOK' /\ OverrunInv
      /\ StagesAre /\ StagesAre'
  BY Meaning, MeaningNext DEF RInv, IInv, PutReader, MakeDir, OpenData, Copy, Describe,
     RenameData, RenameMeta
<1>2. ~At(f, "done") /\ f \notin index /\ ~Leaving(f)
  <2>1. ~At(f, "done")
    BY DEF PutReader, MakeDir, OpenData, Copy, Describe, RenameData, RenameMeta, At
  <2>2. QED BY <1>1, <2>1 DEF RInv, IInv, TypeOK, LockInv, Leaving, At
<1>3. ~At(f, "index") /\ ~At(f, "failed") /\ f \notin overrun
  <2>1. ~At(f, "index") /\ ~At(f, "failed")
    BY DEF PutReader, MakeDir, OpenData, Copy, Describe, RenameData, RenameMeta, At
  <2>2. QED BY <1>1, <1>2, <2>1 DEF OverrunInv
<1>4. ASSUME NEW g \in File \ {f} PROVE upload'[g] = upload[g]
  BY <1>1, <1>4 DEF PutReader, MakeDir, OpenData, Copy, Describe, RenameData, RenameMeta,
     Fails, Moves, TypeOK
<1>5. \/ At(f, "new") /\ Uploading(f)'
      \/ Uploading(f) /\ (Uploading(f)' \/ At(f, "failed")')
  <2>1. upload \in [File -> UploadType]
    BY <1>1 DEF TypeOK
  <2>2. CASE MakeDir(f)
    BY <2>1, <2>2 DEF MakeDir, Moves, At, Uploading, UploadType
  <2>3. CASE OpenData(f)
    BY <2>1, <2>3 DEF OpenData, Moves, At, Uploading, UploadType
  <2>4. CASE Copy(f)
    BY <2>1, <2>4 DEF Copy, Fails, Moves, At, Uploading, UploadType
  <2>5. CASE Describe(f)
    BY <2>1, <2>5 DEF Describe, Fails, Moves, At, Uploading, UploadType
  <2>6. CASE RenameData(f)
    BY <2>1, <2>6 DEF RenameData, Fails, Moves, At, Uploading, UploadType
  <2>7. CASE RenameMeta(f)
    BY <2>1, <2>7 DEF RenameMeta, Fails, Moves, At, Uploading, UploadType
  <2>8. QED BY <2>2, <2>3, <2>4, <2>5, <2>6, <2>7 DEF PutReader
<1>6. UNCHANGED <<index, overrun, lock, now>>
  BY <1>1 DEF OnlyUpload, memory
<1>7. \A g \in File \ {f} : stage'[g] = stage[g]
  BY <1>1, <1>4, <1>6, SameStage DEF At, Uploading, Leaving
<1>8. \/ stage[f] = "new" /\ stage'[f] = "storing"
      \/ stage[f] \in {"storing", "cut"} /\ stage'[f] = "gone"
      \/ stage'[f] = stage[f]
  <2>1. f \notin index' /\ f \notin overrun' /\ ~Leaving(f)'
    BY <1>2, <1>3, <1>6 DEF Leaving
  <2>2. CASE At(f, "new") /\ Uploading(f)'
    BY <1>1, <1>3, <2>1, <2>2 DEF StagesAre
  <2>3. CASE Uploading(f) /\ Uploading(f)'
    BY <1>1, <1>3, <2>1, <2>3 DEF StagesAre
  <2>4. CASE Uploading(f) /\ At(f, "failed")'
    <3>1. ~Uploading(f)' /\ ~At(f, "new")'
      BY <2>4 DEF Uploading, At
    <3>2. QED BY <1>1, <1>3, <2>1, <2>4, <3>1 DEF StagesAre, Life!Stage
  <2>5. QED BY <1>5, <2>2, <2>3, <2>4
<1>9. now' >= now
  BY <1>1, <1>6 DEF TypeOK
<1>10. \A g \in index : upload'[g].expires = upload[g].expires
  BY <1>1, <1>2, <1>4 DEF TypeOK
<1>11. Life!Lifetimes
  BY <1>9, <1>10, LifetimesStay
<1>12. QED BY <1>7, <1>8, <1>11, OneMoves

\* A step under the mutex: files of the index leave, and one upload is listed.
LEMMA ChangeRefines ==
    ASSUME RInv, RInv', lock = None, overrun' = overrun, now' = now,
           NEW added \in SUBSET File,
           \A f \in added : At(f, "index") /\ At(f, "done")',
           \A f \in File \ added : upload'[f] = upload[f],
           index' \subseteq index \cup added,
           added \subseteq index',
           \A f \in File : Leaving(f)' <=> f \in index /\ f \notin index'
    PROVE  Life!Next
<1>1. /\ TypeOK /\ TypeOK' /\ StagesAre /\ StagesAre' /\ LockInv'
  BY Meaning, MeaningNext DEF RInv, IInv
<1>2. Life!Lifetimes
  <2>1. now' >= now
    BY <1>1 DEF TypeOK
  <2>2. \A f \in index : upload'[f].expires = upload[f].expires
    BY <1>1 DEF TypeOK, At
  <2>3. QED BY <2>1, <2>2, LifetimesStay
<1>3. \A f \in File : ~Leaving(f)
  BY DEF Leaving
<1>4. ASSUME NEW f \in File
      PROVE  /\ stage[f] # "leaving"
             /\ stage[f] \in Life!Listed => stage'[f] \in {stage[f], "leaving"}
             /\ stage[f] = "storing" => stage'[f] \in {"storing", "listed"}
             /\ stage[f] = "cut" => stage'[f] \in {"cut", "hollow"}
             /\ stage[f] \in {"new", "gone"} => stage'[f] = stage[f]
  <2>1. stage[f] # "leaving"
    BY <1>1, <1>3 DEF StagesAre
  <2>2. CASE f \in index
    <3>1. IF f \in overrun THEN stage[f] = "hollow" ELSE stage[f] = "listed"
      BY <1>1, <2>2 DEF StagesAre
    <3>2. CASE f \in index'
      BY <1>1, <2>1, <3>1, <3>2 DEF StagesAre, Life!Listed
    <3>3. CASE f \notin index'
      BY <1>1, <2>1, <2>2, <3>1, <3>3 DEF StagesAre, Life!Listed
    <3>4. QED BY <3>2, <3>3
  <2>3. CASE f \in added
    <3>1. Uploading(f) /\ f \in index' /\ f \notin index
      BY <1>1, <2>3 DEF Uploading, At, TypeOK
    <3>2. QED BY <1>1, <2>1, <3>1 DEF StagesAre, Life!Listed
  <2>4. CASE f \notin index /\ f \notin added
    <3>1. f \notin index' /\ upload'[f] = upload[f] /\ ~Leaving(f)'
      BY <2>4
    <3>2. stage'[f] = stage[f]
      BY <1>1, <1>3, <2>4, <3>1, SameStage DEF At, Uploading
    <3>3. stage[f] \notin Life!Listed
      BY <1>1, <2>4 DEF StagesAre, Life!Listed
    <3>4. QED BY <2>1, <3>2, <3>3
  <2>5. QED BY <2>2, <2>3, <2>4
<1>5. \A f \in File : stage[f] \in Life!Stage
  BY <1>1 DEF StagesAre
<1>6. Life!Change
  BY <1>4, <1>5 DEF Life!Change, Life!Stage, Life!Listed
<1>7. QED BY <1>1, <1>2, <1>6 DEF Life!Next, StagesAre

\* The end of an upload.
LEMMA IndexRefines ==
    ASSUME RInv, RInv', NEW f \in File, Index(f)
    PROVE  Life!Next
<1> DEFINE t == upload[f].began
<1>1. /\ At(f, "index") /\ lock = None /\ ExpireRoom(t, {f}) /\ Moves(f, "done")
      /\ UNCHANGED <<now, overrun>> /\ TypeOK
  BY DEF Index, RInv, IInv
<1>2. upload'[f].at = "done" /\ \A g \in File \ {f} : upload'[g] = upload[g]
  BY <1>1, MovesIs DEF Step
<1>3. /\ Expired(t) \subseteq index /\ index' = (index \ Expired(t)) \cup {f}
      /\ IF Expired(t) = {} THEN lock' = None ELSE lock' # None /\ lock'.doomed = Expired(t)
  BY <1>1, ExpireRoomIs
<1>4. f \notin index
  BY <1>1 DEF TypeOK, At
<1>5. \A g \in File : Leaving(g)' <=> g \in index /\ g \notin index'
  BY <1>3, <1>4 DEF Leaving
<1>6. \A g \in {f} : At(g, "index") /\ At(g, "done")'
  BY <1>1, <1>2 DEF At
<1>7. {f} \in SUBSET File /\ index' \subseteq index \cup {f} /\ {f} \subseteq index'
  BY <1>3
<1>8. QED BY <1>1, <1>2, <1>5, <1>6, <1>7, ChangeRefines

\* Files leave the index: they expire, one is deleted, or all are.
LEMMA LeaveRefines ==
    ASSUME RInv, RInv', lock = None, UNCHANGED <<overrun, now, upload>>,
           NEW dead \in SUBSET index, index' = index \ dead,
           IF dead = {} THEN lock' = None \/ lock'.doomed = {}
                        ELSE lock' # None /\ lock'.doomed = dead
    PROVE  Life!Next
<1>1. \A g \in File : Leaving(g)' <=> g \in index /\ g \notin index'
  BY DEF Leaving
<1>2. {} \in SUBSET File /\ index' \subseteq index \cup {} /\ {} \subseteq index'
  OBVIOUS
<1>3. \A g \in File \ {} : upload'[g] = upload[g]
  OBVIOUS
<1>4. QED BY <1>1, <1>2, <1>3, ChangeRefines

LEMMA ExpiryRefines ==
    ASSUME RInv, RInv', CleanupExpired \/ List
    PROVE  Life!Next
<1>1. /\ lock = None /\ ExpireRoom(now, {}) /\ UNCHANGED <<overrun, now, upload>> /\ TypeOK
  BY DEF CleanupExpired, List, RInv, IInv
<1>2. /\ Expired(now) \subseteq index /\ index' = index \ Expired(now)
      /\ IF Expired(now) = {} THEN lock' = None
         ELSE lock' # None /\ lock'.doomed = Expired(now)
  <2>1. {} \in SUBSET File /\ index \ Expired(now) = (index \ Expired(now)) \cup {}
    OBVIOUS
  <2>2. QED BY <1>1, <2>1, ExpireRoomIs
<1>3. QED BY <1>1, <1>2, LeaveRefines

LEMMA DeleteRefines ==
    ASSUME RInv, RInv', DeleteRoom \/ \E f \in File : Delete(f)
    PROVE  Life!Next
<1>1. CASE DeleteRoom
  <2>1. /\ lock = None /\ UNCHANGED <<overrun, now, upload>>
        /\ index' = {} /\ lock' = Work(index, "all") /\ index \in SUBSET File
    BY <1>1 DEF DeleteRoom, RInv, IInv, TypeOK
  <2>2. lock' # None /\ lock'.doomed = index
    BY <2>1, WorkIs
  <2>3. index' = index \ index /\ index \in SUBSET index
    BY <2>1
  <2>4. QED BY <2>1, <2>2, <2>3, LeaveRefines
<1>2. CASE \E f \in File : Delete(f)
  <2>1. PICK f \in File : Delete(f)
    BY <1>2
  <2>2. /\ lock = None /\ UNCHANGED <<overrun, now, upload>>
        /\ {f} \in SUBSET index /\ index' = index \ {f}
    BY <2>1 DEF Delete
  <2>3. lock' # None /\ lock'.doomed = {f}
    BY <2>1, WorkIs DEF Delete, After
  <2>4. QED BY <2>2, <2>3, LeaveRefines
<1>3. QED BY <1>1, <1>2

\* The holder of the mutex removes parts of a file: the file leaves with the last.
LEMMA RemoveFileRefines ==
    ASSUME RInv, RInv', NEW f \in File, RemoveFile(f)
    PROVE  Life!Next
<1>1. /\ lock # None /\ f \in lock.doomed /\ lock \in LockType /\ At(f, "done")
      /\ f \notin index /\ UNCHANGED <<index, upload, now, overrun>>
      /\ TypeOK /\ StagesAre /\ StagesAre'
  BY Meaning, MeaningNext DEF RemoveFile, memory, RInv, IInv, TypeOK, LockInv
<1>2. /\ lock' # None /\ lock'.doomed \subseteq lock.doomed
      /\ lock.doomed \subseteq lock'.doomed \cup {f}
  BY <1>1, FilesAssumption DEF RemoveFile, LockType
<1>3. \A g \in File \ {f} : stage'[g] = stage[g]
  <2>1. \A g \in File \ {f} : Leaving(g)' <=> Leaving(g)
    BY <1>1, <1>2 DEF Leaving
  <2>2. QED BY <1>1, <2>1, SameStage DEF At, Uploading
<1>4. stage[f] = "leaving"
  BY <1>1 DEF StagesAre, Leaving
<1>5. stage'[f] \in {"leaving", "gone"}
  <2>1. f \notin index' /\ ~At(f, "new")' /\ ~Uploading(f)'
    BY <1>1 DEF At, Uploading
  <2>2. QED BY <1>1, <2>1 DEF StagesAre, Life!Stage
<1>6. Life!Lifetimes
  BY <1>1, LifetimesStay DEF TypeOK
<1>7. QED BY <1>3, <1>4, <1>5, <1>6, OneMoves

\* All that is in the directory goes: uploads about to be listed are cut.
LEMMA RemoveEntriesRefines ==
    ASSUME RInv, RInv', RemoveEntries
    PROVE  Life!Next
<1>1. /\ lock # None /\ lock \in LockType /\ lock.doomed = {}
      /\ UNCHANGED <<index, upload, now>>
      /\ overrun' = overrun \cup {f \in File : At(f, "index")}
      /\ TypeOK /\ StagesAre /\ StagesAre'
  BY Meaning, MeaningNext DEF RemoveEntries, memory, RInv, IInv, TypeOK, At
<1>2. lock' # None /\ lock'.doomed = {}
  BY <1>1, FilesAssumption DEF RemoveEntries, LockType
<1>3. ASSUME NEW f \in File
      PROVE  stage'[f] \in IF stage[f] = "storing" THEN {"storing", "cut"} ELSE {stage[f]}
  <2>1. ~Leaving(f) /\ ~Leaving(f)'
    BY <1>1, <1>2 DEF Leaving
  <2>2. (Uploading(f)' <=> Uploading(f)) /\ (At(f, "new")' <=> At(f, "new"))
    BY <1>1 DEF Uploading, At
  <2>3. CASE f \in overrun' <=> f \in overrun
    BY <1>1, <2>1, <2>2, <2>3, SameStage
  <2>4. CASE f \notin overrun /\ f \in overrun' /\ At(f, "index")
    <3>1. Uploading(f)
      BY <2>4 DEF Uploading, At
    <3>2. QED BY <1>1, <2>2, <2>4, <3>1 DEF StagesAre
  <2>5. QED BY <1>1, <2>3, <2>4
<1>4. Life!Cut
  BY <1>3 DEF Life!Cut
<1>5. Life!Lifetimes
  BY <1>1, LifetimesStay DEF TypeOK
<1>6. QED BY <1>1, <1>4, <1>5 DEF Life!Next, StagesAre

\* A crash and a restart.
LEMMA RestartRefines ==
    ASSUME RInv, RInv', Restart
    PROVE  Life!Next
<1>1. /\ index' = Loaded /\ lock' = None /\ UNCHANGED <<now, overrun>>
      /\ upload' = [f \in File |->
                     IF At(f, "new") THEN upload[f]
                     ELSE [upload[f] EXCEPT !.at = IF f \in Loaded THEN "done" ELSE "failed"]]
      /\ TypeOK /\ OverrunInv /\ ListedOnDisk /\ StagesAre /\ StagesAre'
  BY Meaning, MeaningNext DEF Restart, RInv, IInv
<1>2. ASSUME NEW f \in File
      PROVE  /\ At(f, "new")' <=> At(f, "new")
             /\ ~Uploading(f)' /\ ~Leaving(f)'
             /\ upload'[f].expires = upload[f].expires
  <2>1. upload[f] \in UploadType
    BY <1>1 DEF TypeOK
  <2>2. QED BY <1>1, <2>1 DEF At, Uploading, Leaving, UploadType
<1>3. Life!Lifetimes
  BY <1>1, <1>2, LifetimesStay DEF TypeOK
<1>4. ASSUME NEW f \in File
      PROVE  stage'[f] \in CASE stage[f] \in {"new", "gone"} -> {stage[f]}
                              [] stage[f] \in {"cut", "hollow"} -> {"gone"}
                              [] stage[f] = "listed" ->
                                   IF f \in over THEN {"gone"} ELSE {"listed"}
                              [] stage[f] \in {"storing", "leaving"} -> {"listed", "gone"}
  <2>1. /\ stage[f] \in Life!Stage /\ stage'[f] \in Life!Stage
        /\ stage'[f] \in {"new", "listed", "hollow", "gone"}
        /\ stage'[f] = "new" <=> stage[f] = "new"
    BY <1>1, <1>2 DEF StagesAre, Life!Stage
  <2>2. CASE f \in overrun
    <3>1. f \notin index'
      BY <1>1, <2>2 DEF OverrunInv, Loaded, Whole
    <3>2. stage[f] \notin {"listed", "storing"} /\ stage'[f] \in {"new", "gone"}
      BY <1>1, <2>1, <2>2, <3>1 DEF StagesAre
    <3>3. QED BY <2>1, <3>2 DEF Life!Stage
  <2>3. CASE f \notin overrun
    <3>1. stage[f] \notin {"cut", "hollow"} /\ stage'[f] # "hollow"
      BY <1>1, <2>3 DEF StagesAre
    <3>2. ASSUME stage[f] = "listed" PROVE stage'[f] = IF f \in over THEN "gone" ELSE "listed"
      <4>1. f \in index /\ Whole \subseteq disk[f]
        BY <1>1, <2>3, <3>2 DEF StagesAre, ListedOnDisk
      <4>2. upload[f].expires \in Nat /\ now \in Nat
        BY <1>1 DEF TypeOK, UploadType
      <4>3. f \in index' <=> f \notin over
        BY <1>1, <4>1, <4>2 DEF Loaded, over
      <4>4. QED BY <1>1, <2>1, <2>3, <3>2, <4>3 DEF StagesAre
    <3>3. ASSUME stage[f] = "gone" PROVE stage'[f] = "gone"
      <4>1. f \notin index /\ ~Uploading(f) /\ ~Leaving(f)
        BY <1>1, <2>3, <3>3 DEF StagesAre
      <4>2. disk[f] = {}
        BY <4>1 DEF RInv, IInv, NoLeftovers, Leaving
      <4>3. f \notin index'
        BY <1>1, <4>2 DEF Loaded, Whole
      <4>4. QED BY <1>1, <2>1, <3>3, <4>3 DEF StagesAre
    <3>4. QED BY <2>1, <3>1, <3>2, <3>3 DEF Life!Stage
  <2>4. QED BY <2>2, <2>3
<1>5. Life!Crash
  BY <1>4 DEF Life!Crash
<1>6. QED BY <1>1, <1>3, <1>5 DEF Life!Next, StagesAre

\* The steps that touch neither the index, the uploads nor what is to be removed.
LEMMA OtherRefines ==
    ASSUME RInv, RInv', UNCHANGED <<index, upload, overrun>>, now' >= now,
           \A f \in File : Leaving(f)' <=> Leaving(f)
    PROVE  Life!Next
<1>1. StagesAre /\ StagesAre'
  BY Meaning, MeaningNext
<1>2. \A f \in File : stage'[f] = stage[f]
  BY <1>1, SameStage DEF At, Uploading
<1>3. Life!Lifetimes
  BY LifetimesStay
<1>4. QED BY <1>2, <1>3, AgeStep

-----------------------------------------------------------------------------
(* The theorem *)

\* The start: nothing has been uploaded.
LEMMA LifeInitially ==
    Init => Life!Init
<1> SUFFICES ASSUME Init PROVE Life!Init
  OBVIOUS
<1>1. index = {} /\ \A f \in File : At(f, "new")
  BY DEF Init, At
<1>2. \A f \in File : StageOf(f) = "new"
  BY <1>1 DEF StageOf
<1>3. QED BY <1>1, <1>2 DEF Life!Init, stage, over

\* Every step is a step of FileLife, or leaves it where it is.
LEMMA StepRefines ==
    RInv /\ RInv' /\ [Next]_vars => Life!Next
<1> SUFFICES ASSUME RInv, RInv', [Next]_vars PROVE Life!Next
  OBVIOUS
<1>1. CASE \E f \in File : PutReader(f)
  BY <1>1, UploadRefines, IndexRefines
<1>2. CASE CleanupExpired \/ List
  BY <1>2, ExpiryRefines
<1>3. CASE DeleteRoom \/ \E f \in File : Delete(f)
  BY <1>3, DeleteRefines
<1>4. CASE \E f \in File : RemoveFile(f)
  BY <1>4, RemoveFileRefines
<1>5. CASE RemoveEntries
  BY <1>5, RemoveEntriesRefines
<1>6. CASE Restart
  BY <1>6, RestartRefines
<1>7. CASE Unlock
  <2>1. \A f \in File : Leaving(f)' <=> Leaving(f)
    BY <1>7 DEF Unlock, Leaving
  <2>2. QED BY <1>7, <2>1, OtherRefines DEF Unlock, memory, RInv, IInv, TypeOK
<1>8. CASE \/ Connect \/ ReadSetting \/ Tick \/ UNCHANGED vars
           \/ (\E forced \in BOOLEAN : SendFiles(forced))
           \/ (\E on \in BOOLEAN : SetFileUploadEnabled(on))
  <2>1. UNCHANGED <<index, upload, overrun, lock>> /\ (now' = now \/ now' = now + 1)
    BY <1>8 DEF Connect, ReadSetting, SendFiles, Tick, SetFileUploadEnabled, vars, memory
  <2>2. now' >= now /\ \A f \in File : Leaving(f)' <=> Leaving(f)
    BY <2>1 DEF RInv, IInv, TypeOK, Leaving
  <2>3. QED BY <2>1, <2>2, OtherRefines
<1>9. QED BY <1>1, <1>2, <1>3, <1>4, <1>5, <1>6, <1>7, <1>8 DEF Next, Disk, Session

\* LivesOfFiles: FileStore implements FileLife.  Whatever uploads, deletions,
\* expiries, removals and crashes there are, a file is listed when it is stored and
\* until it leaves, and is never back once it is gone.
THEOREM ImplementsFileLife ==
    Spec => LivesOfFiles
<1>1. RInv /\ RInv' /\ [Next]_vars => [Life!Next]_(Life!vars)
  BY StepRefines
<1>2. QED BY <1>1, LifeInitially, RefinementInvariant, PTL DEF Spec, LivesOfFiles, Life!Spec

=============================================================================
