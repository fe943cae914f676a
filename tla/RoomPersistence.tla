-------------------------- MODULE RoomPersistence --------------------------
(***************************************************************************)
(* Disk snapshots of the rooms, internal/store/persist.go, composed with   *)
(* the store they are taken from: the flusher goroutine, which holds the   *)
(* store's lock only to take the flags, to copy one room and to re-check   *)
(* it; file writes and removals that fail silently; a crash at any point;  *)
(* Close; and loadPersisted.                                               *)
(*                                                                         *)
(* A snapshot is the room (LinearChain and Items lose nothing of the       *)
(* document, see module RgaReplicas).  The rename of the temporary file    *)
(* makes a write atomic.  Lifetimes are in the clock's unit, so cutting    *)
(* the expiry to seconds is the identity here.                             *)
(***************************************************************************)
EXTENDS RoomStore

CONSTANTS
    KeyOrder,    \* the keys in the order of os.ReadDir
    DiskFails,   \* may a file operation fail?
    MaxRestarts  \* bound: crashes and restarts

ASSUME PersistenceAssumption ==
    /\ KeyOrder \in Seq(Key)
    /\ \A k \in Key : \E i \in DOMAIN KeyOrder : KeyOrder[i] = k
    /\ \A i, j \in DOMAIN KeyOrder : KeyOrder[i] = KeyOrder[j] => i = j
    /\ DiskFails \in BOOLEAN
    /\ None \notin Key

VARIABLES
    disk,     \* disk[k]: the snapshot file of room k, or None
    flusher,  \* the flusher's local variables
    phase,    \* how far Close is: see Phase
    behind,   \* for the properties: files that failed to follow, or were not loaded
    restarts

diskVars == <<disk, flusher, phase, behind, restarts>>
allVars == <<vars, diskVars>>

\* running; closing: persistStop is closed; last: the flusher has seen it and
\* makes its last round; closed: persistDone is closed.
Phase == {"running", "closing", "last", "closed"}

\* Between rounds removing and writing are empty and at is "files".
FlusherType ==
    [at : {"files", "rename", "recheck"}, removing : SUBSET Key, writing : SUBSET Key,
     key : Key \cup {None}, snap : RoomType \cup {None}]

Waiting == [at |-> "files", removing |-> {}, writing |-> {}, key |-> None, snap |-> None]

InitDisk ==
    /\ Init
    /\ disk = [k \in Key |-> None]
    /\ flusher = Waiting
    /\ phase = "running"
    /\ behind = {}
    /\ restarts = 0

-----------------------------------------------------------------------------
(* flushDirty and writeSnapshot                                            *)

Flagged == store.dirty # {} \/ store.deleted # {}

\* Both maps are taken and replaced by empty ones under the lock.
\* Mutant: the removals are taken, the writes too, but only if there are no
\* removals in the round.
TakeOneKind(st) ==
    [flusher EXCEPT !.removing = st.deleted,
                    !.writing = IF st.deleted = {} THEN st.dirty ELSE {}]

Take(st) == [flusher EXCEPT !.removing = st.deleted, !.writing = st.dirty]

TakeFlags ==
    /\ flusher' = Take(store)
    /\ store' = [store EXCEPT !.dirty = {}, !.deleted = {}]
    /\ UNCHANGED <<now, pending, session, salts, disk, behind, restarts>>

\* A tick of the flusher; one that finds no flags does nothing.
FlushTick ==
    /\ flusher = Waiting
    /\ phase \in {"running", "closing"}
    /\ Flagged
    /\ TakeFlags
    /\ UNCHANGED phase

Removed(k) ==
    /\ disk' = [disk EXCEPT ![k] = None]
    /\ behind' = behind \ {k}

Failed(k) ==
    /\ DiskFails
    /\ disk' = disk
    /\ behind' = behind \cup {k}

RemoveFile(k) ==
    /\ flusher.at = "files" /\ k \in flusher.removing
    /\ Removed(k) \/ Failed(k)
    /\ flusher' = [flusher EXCEPT !.removing = @ \ {k}]
    /\ UNCHANGED <<vars, phase, restarts>>

\* The room is copied under the lock, and removed first if it has expired.
Snapshot(k) ==
    /\ flusher.at = "files" /\ flusher.removing = {} /\ k \in flusher.writing
    /\ store' = GetLive(k)
    /\ flusher' = [flusher EXCEPT !.at = "rename", !.key = k, !.writing = @ \ {k},
                                  !.snap = GetLive(k).items[k]]
    /\ UNCHANGED <<now, pending, session, salts, disk, phase, behind, restarts>>

NextFile == [flusher EXCEPT !.at = "files", !.key = None, !.snap = None]

\* Without the lock: the file is removed, or written and renamed into place.
RemoveMissing ==
    /\ flusher.at = "rename" /\ flusher.snap = None
    /\ Removed(flusher.key) \/ Failed(flusher.key)
    /\ flusher' = NextFile
    /\ UNCHANGED <<vars, phase, restarts>>

Rename ==
    /\ flusher.at = "rename" /\ flusher.snap # None
    /\ disk' = [disk EXCEPT ![flusher.key] = flusher.snap]
    /\ behind' = behind \ {flusher.key}
    /\ flusher' = [flusher EXCEPT !.at = "recheck"]
    /\ UNCHANGED <<vars, phase, restarts>>

\* The flag is gone with the failed write.
WriteFails ==
    /\ flusher.at = "rename" /\ flusher.snap # None
    /\ Failed(flusher.key)
    /\ flusher' = NextFile
    /\ UNCHANGED <<vars, phase, restarts>>

Stale(r, snap) ==
    \/ r.ver # snap.ver \/ r.gen # snap.gen
    \/ r.lock.salt # snap.lock.salt \/ Len(r.hist) # Len(snap.hist)

\* Under the lock again: a room that has gone takes its file with it, one that
\* has changed is written again in the next round.
Recheck ==
    LET k == flusher.key
        r == store.items[k]
    IN  /\ flusher.at = "recheck"
        /\ IF r = None
           THEN /\ Removed(k) \/ Failed(k)
                /\ store' = store
           ELSE /\ store' = IF Stale(r, flusher.snap)
                            THEN [store EXCEPT !.dirty = @ \cup {k}] ELSE store
                /\ UNCHANGED <<disk, behind>>
        /\ flusher' = NextFile
        /\ UNCHANGED <<now, pending, session, salts, phase, restarts>>

-----------------------------------------------------------------------------
(* Close and the restart                                                   *)

Close ==
    /\ phase = "running"
    /\ phase' = "closing"
    /\ UNCHANGED <<vars, disk, flusher, behind, restarts>>

\* The flusher selects persistStop and makes its last round.
Stop ==
    /\ flusher = Waiting
    /\ phase = "closing"
    /\ phase' = "last"
    /\ TakeFlags

\* Mutant: the loop goes on instead of closing persistDone.
DoneLoops ==
    /\ flusher = Waiting
    /\ phase = "last"
    /\ phase' = "closing"
    /\ UNCHANGED <<vars, disk, flusher, behind, restarts>>

Done ==
    /\ flusher = Waiting
    /\ phase = "last"
    /\ phase' = "closed"
    /\ UNCHANGED <<vars, disk, flusher, behind, restarts>>

\* loadPersisted, one file: an expired room's file is removed, the room cap
\* ends the loading, the byte budget skips the file.
\* Mutant: a room is loaded whatever the budget.
LoadAnyway(st, snap) == st.total >= 0

FitsBudget(st, snap) == st.total + Bytes(snap) <= MaxTotal

LoadFile(acc, k) ==
    LET snap == disk[k]
        st == acc.st
    IN  IF snap = None \/ acc.full THEN acc
        ELSE IF snap.exp <= now THEN [acc EXCEPT !.gone = @ \cup {k}]
        ELSE IF Cardinality(Present(st)) >= MaxRooms THEN [acc EXCEPT !.full = TRUE]
        ELSE IF ~FitsBudget(st, snap) THEN acc
        ELSE [acc EXCEPT !.st =
                [st EXCEPT !.items[k] = snap, !.sizeBy[k] = Bytes(snap),
                           !.total = @ + Bytes(snap),
                           !.nextGeneration = IF @ < snap.gen THEN snap.gen ELSE @]]

\* A new process: its incarnations start from the clock in microseconds, above
\* any the last process gave out (it would have to begin one every microsecond
\* to catch up).
NewStore ==
    [items |-> [k \in Key |-> None], sizeBy |-> [k \in Key |-> 0], total |-> 0,
     nextGeneration |-> store.nextGeneration, dirty |-> {}, deleted |-> {}]

\* The loop over the directory.
LoadPersisted ==
    LET loaded[n \in 0 .. Len(KeyOrder)] ==
            IF n = 0 THEN [st |-> NewStore, gone |-> {}, full |-> FALSE]
            ELSE LoadFile(loaded[n - 1], KeyOrder[n])
    IN  loaded[Len(KeyOrder)]

\* The process ends, at any moment or after Close, and starts again.  Requests
\* and websocket sessions end with it; clients keep what they have read.
Restart ==
    /\ restarts < MaxRestarts
    /\ LET acc == LoadPersisted
       IN  /\ store' = acc.st
           /\ disk' = [k \in Key |-> IF k \in acc.gone THEN None ELSE disk[k]]
           /\ behind' = {k \in Key : disk'[k] # None /\ acc.st.items[k] = None}
    /\ pending' = [h \in Handler |-> None]
    /\ session' = [h \in Handler |-> [session[h] EXCEPT !.cred = 0, !.proved = None]]
    /\ flusher' = Waiting
    /\ phase' = "running"
    /\ restarts' = restarts + 1
    /\ UNCHANGED <<now, salts>>

-----------------------------------------------------------------------------
Flush ==
    \/ FlushTick
    \/ \E k \in Key : RemoveFile(k) \/ Snapshot(k)
    \/ RemoveMissing \/ Rename \/ WriteFails \/ Recheck
    \/ Done

NextDisk ==
    \/ Next /\ UNCHANGED diskVars
    \/ Flush \/ Stop \/ Close \/ Restart

\* The flusher is a goroutine of its own and its ticker never stops, so each
\* of its steps is eventually taken; when both the ticker and persistStop are
\* ready, select picks at random, so it does not pick the ticker for ever.
SpecDisk ==
    InitDisk /\ [][NextDisk]_allVars /\ WF_allVars(Flush) /\ SF_allVars(Stop)

-----------------------------------------------------------------------------
(* Properties *)

\* What a restart must bring back of a room.  The expiry is left out: a save
\* or batch that only extends it is not flagged (store.go:216).
Lasting(r) == IF r = None THEN None ELSE [r EXCEPT !.exp = 0]

\* The rooms a crash may lose the latest state of: flagged, or in the round
\* the flusher is making.
InFlight ==
    store.dirty \cup store.deleted \cup flusher.removing \cup flusher.writing
        \cup ({flusher.key} \ {None})

\* Nothing is forgotten: a file that does not hold its room's state belongs to
\* a room still flagged or being written, or its last operation failed, or it
\* was passed over when loading; however writes, deletions, expiry and
\* re-creations of the room fall between the flusher's steps (flushDirty takes
\* the flags before it touches a file).
NoLostWrite ==
    \A k \in Key : Lasting(store.items[k]) = Lasting(disk[k]) \/ k \in InFlight \cup behind

\* A restart, in a crash or after Close, brings back every room whose state was
\* not in flight, as it was, and no room that had been deleted before; a live
\* room stays away only if the limits pass it over.
CrashLosesOnlyInFlight ==
    [][restarts' # restarts =>
        \A k \in Key \ (InFlight \cup behind) :
            LET r == store.items[k]
            IN  \/ Lasting(store'.items[k]) = Lasting(r)
                \/ /\ store'.items[k] = None /\ disk[k] # None
                   /\ disk[k].exp <= now \/ k \in behind']_allVars

\* Every room's file catches up with the room again and again (persistLoop),
\* unless its file operations fail.
FilesCatchUp ==
    \A k \in Key : []<>(Lasting(store.items[k]) = Lasting(disk[k]) \/ k \in behind
                          \/ phase = "closed")

\* Close returns (it waits for persistDone), unless the process crashes first.
CloseReturns == phase = "closing" ~> phase \in {"closed", "running"}

=============================================================================
