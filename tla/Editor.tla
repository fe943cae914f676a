------------------------------- MODULE Editor -------------------------------
(***************************************************************************)
(* The editor of one browser, static/app.js, on its websocket: the text    *)
(* area, the input method, undo and redo, the replay of what is not saved, *)
(* the user's caret and the caret of a peer.                               *)
(*                                                                         *)
(* The server is what RoomSync shows a session to be: a room, the cached   *)
(* event, the last pair it has sent, and a connection that keeps the order *)
(* of messages until it is lost.  A batch is applied the moment it is      *)
(* sent; what the wire delays is the answer.  The clocks of the code (the  *)
(* window in which edits join one undo entry, the delays of the timers)    *)
(* are choices.  Characters are numbers, each typed once; a selection is   *)
(* collapsed to its caret.                                                 *)
(***************************************************************************)
EXTENDS Rga

CONSTANTS
    None,
    Me, Peer, Rest,  \* the sites of this browser, of a peer and of REST writers
    MaxUndo,         \* maxUndoDepth
    MaxBatch,        \* maxOpsPerSend
    Drafts,          \* the texts a text area may hold before the script runs
    MaxEdits,        \* bound: edits of this user and of others
    MaxPuts,         \* bound: those that are texts put by REST writers
    MaxGeneration,   \* bound: incarnations of the room
    MaxSends,        \* bound: batches
    MaxWire,         \* bound: frames on their way
    MaxDrops         \* bound: connections lost

ASSUME EditorAssumption ==
    /\ {Me, Peer, Rest} \subseteq Nat \ {0} /\ Cardinality({Me, Peer, Rest}) = 3
    /\ {MaxUndo, MaxBatch} \subseteq Nat \ {0}
    /\ Drafts # {} /\ IsFiniteSet(Drafts) /\ Drafts \subseteq Seq(Nat)

VARIABLES
    room,     \* the room in the store
    event,    \* lastEvent: the latest change, or None
    session,  \* the server's side of the connection, or None
    wire,     \* frames on their way to the browser
    ed,       \* the browser: see Blank
    trail,    \* a snapshot of the room's text, or None
    count,    \* what the bounds count
    owed      \* for the properties: characters typed here and not saved yet

vars == <<room, event, session, wire, ed, trail, count, owed>>

-----------------------------------------------------------------------------
(* Texts and carets                                                        *)

Clamp(n, max) == IF n < max THEN n ELSE max
Larger(a, b) == IF a < b THEN b ELSE a
Chars(text) == ToSet(text)
Text(e) == Materialize(e.doc)

\* posFromAfterId: 0 for the start of the document, -1 if the item is not shown.
Unknown == -1
PosAfter(id, ids) ==
    IF id = Root THEN 0
    ELSE IF id \in ToSet(ids) THEN CHOOSE i \in DOMAIN ids : ids[i] = id ELSE Unknown

\* anchorIdAt
AnchorAt(pos, ids) == IF pos = 0 \/ ids = << >> THEN Root ELSE ids[Clamp(pos, Len(ids))]

\* mapCaretIndex: a caret before the edit stays, one behind it moves with the
\* text, one inside what was removed goes to the start of the edit.
MapCaret(old, new, pos) ==
    LET lo == CommonPrefix(old, new)
        kept == CommonPrefix(Reverse(SubSeq(old, lo + 1, Len(old))),
                             Reverse(SubSeq(new, lo + 1, Len(new))))
    IN  IF Clamp(pos, Len(old)) <= lo THEN Clamp(pos, Len(old))
        ELSE IF pos >= Len(old) - kept THEN Clamp(pos, Len(old)) + Len(new) - Len(old)
        ELSE lo

\* captureSelection: the caret and the item to its left.
Selection(e) ==
    LET at == Clamp(e.caret, Len(VisibleIDs(e.doc)))
    IN  [at |-> at, left |-> AnchorAt(at, VisibleIDs(e.doc))]

\* resolveCaretCp, restoreSelection.  Mutant: the old index, whatever moved.
RestoreIndex(e, sel) == Clamp(sel.at, Len(e.value))
RestoreSelection(e, sel) ==
    LET pos == PosAfter(sel.left, VisibleIDs(e.doc))
    IN  IF pos # Unknown THEN pos ELSE Clamp(sel.at, Len(VisibleIDs(e.doc)))

\* setContentValue: nothing is touched if the text is there already.
Show(e, sel) ==
    IF e.value = Text(e) THEN e
    ELSE LET shown == [e EXCEPT !.value = Text(e)]
         IN  [shown EXCEPT !.caret = RestoreSelection(shown, sel)]

\* onLocalTextChanged: a peer's caret stays behind its item, or is mapped
\* through the change if the item has gone.
TextChanged(e, old) ==
    LET new == Text(e)
        ids == VisibleIDs(e.doc)
        pos == PosAfter(e.peer.after, ids)
        mapped == MapCaret(old, new, e.peer.pos)
    IN  IF e.peer = None \/ old = new THEN e
        ELSE IF pos # Unknown THEN [e EXCEPT !.peer.pos = pos]
        ELSE [e EXCEPT !.peer = [after |-> AnchorAt(mapped, ids), pos |-> mapped]]

\* refreshRemoteCursorPositions, then reanchorRemoteCursorsFromPos
Reanchored(e) ==
    LET ids == VisibleIDs(e.doc)
        known == PosAfter(e.peer.after, ids)
        pos == IF known # Unknown THEN known ELSE Clamp(e.peer.pos, Len(ids))
    IN  IF e.peer = None THEN e
        ELSE [e EXCEPT !.peer = [after |-> AnchorAt(pos, ids), pos |-> pos]]

-----------------------------------------------------------------------------
(* Local edits                                                             *)

\* opKey: an insertion and a deletion of one item differ.
Key(op) == <<op.op, op.id>>
Keys(ops) == {Key(ops[i]) : i \in DOMAIN ops}
Without(ops, keys) ==
    LET kept[n \in 0 .. Len(ops)] ==
            IF n = 0 THEN << >>
            ELSE IF Key(ops[n]) \in keys THEN kept[n - 1] ELSE Append(kept[n - 1], ops[n])
    IN  kept[Len(ops)]

\* pushUndoEntry: within the window an edit joins the last entry.
Pushed(stack, ops, join) ==
    IF join /\ stack # << >> THEN Front(stack) \o <<Last(stack) \o ops>>
    ELSE IF Len(stack) = MaxUndo THEN Append(Tail(stack), ops)
    ELSE Append(stack, ops)

Clock(e) == Larger(e.clock, MaxClock(e.doc))

\* What applyLocalText and commitComposition do with a difference.
Typed(e, ops, join) ==
    LET doc == ApplyBatch(e.doc, ops).doc
    IN  IF ops = << >> THEN e
        ELSE [e EXCEPT !.doc = doc,
                       !.clock = Clock([e EXCEPT !.doc = doc]),
                       !.pending = @ \o ops,
                       !.undo = Pushed(@, ops, join),
                       !.redo = << >>]

\* applyLocalText
LocalText(e, text, join) ==
    Typed(e, DiffToOps(VisibleIDs(e.doc), Text(e), text, Me, Clock(e)), join)

\* inverseOps: the batch from its end; an insertion becomes a deletion, a
\* deleted item that is still known is revived under a fresh identifier.
Undoing(e, acc, op) ==
    IF op.op = "ins" THEN [acc EXCEPT !.ops = Append(@, DelOp(op.id))]
    ELSE IF op.id \notin Known(e.doc) THEN acc
    ELSE LET item == e.doc.items[op.id]
             id == [clock |-> acc.clock + 1, site |-> Me]
         IN  [clock |-> acc.clock + 1, ops |-> Append(acc.ops, InsOp(id, item.after, item.ch))]

InverseOps(e, ops) ==
    LET acc[n \in 0 .. Len(ops)] ==
            IF n = 0 THEN [clock |-> e.clock, ops |-> << >>]
            ELSE Undoing(e, acc[n - 1], ops[Len(ops) + 1 - n])
    IN  acc[Len(ops)]

\* applyOpsLocal, for an inverse: what is returned is the editor and the batch.
\* An inverse always fits: it names items of the document, and what they hang on.
Inverted(e, entry) ==
    LET inv == InverseOps(e, entry)
        doc == ApplyBatch(e.doc, inv.ops).doc
    IN  [ops |-> inv.ops,
         e |-> [e EXCEPT !.doc = doc,
                         !.clock = Larger(inv.clock, MaxClock(doc)),
                         !.pending = @ \o inv.ops]]

\* undo and redo take the selection when the document has changed already, so
\* the caret keeps its index.
\* Mutant: the document changes, the text area does not.
ShowInverseNot(e, old) == TextChanged(e, old)

ShowInverse(e, old) ==
    TextChanged([e EXCEPT !.value = Text(e), !.caret = Clamp(@, Len(Text(e)))], old)

Undone(e) ==
    LET res == Inverted(e, Last(e.undo))
    IN  IF res.ops = << >> THEN [e EXCEPT !.undo = Front(@)]
        ELSE ShowInverse([res.e EXCEPT !.undo = Front(@), !.redo = Append(@, res.ops)], Text(e))

Redone(e) ==
    LET res == Inverted(e, Last(e.redo))
    IN  IF res.ops = << >> THEN [e EXCEPT !.redo = Front(@)]
        ELSE ShowInverse([res.e EXCEPT !.redo = Front(@), !.undo = Append(@, res.ops)], Text(e))

\* merge3: both differences on the common base; sites "base" < "mine" < "their".
Merge3(base, mine, theirs) ==
    LET d == BuildFromString(1, base)
        ops(text, site) == DiffToOps(VisibleIDs(d), base, text, site, Len(base))
    IN  Materialize(ApplyBatch(ApplyBatch(d, ops(theirs, 3)).doc, ops(mine, 2)).doc)

-----------------------------------------------------------------------------
(* Messages                                                                *)

StateFrame(r) == [type |-> "state", room |-> r]
OpsFrame(r, ev) ==
    [type |-> "ops", gen |-> r.gen, ver |-> r.ver, by |-> ev.by, ops |-> ev.ops,
     text |-> Materialize(r.doc)]
Ack(seq, r, own) ==
    [type |-> "ack", ok |-> TRUE, seq |-> seq, gen |-> r.gen, ver |-> r.ver, own |-> own]
ErrorAck(seq) == [type |-> "ack", ok |-> FALSE, seq |-> seq]
CursorFrame(after, pos) == [type |-> "cursor", after |-> after, pos |-> pos]

\* The page before anything has arrived.  ime is "on" from compositionstart to
\* compositionend, and "ending" until the task it queued has run; ask is a
\* resynchronisation request on its way.  For the properties: astray, when a
\* replay stopped half-way, so that what fitted stays in the document without
\* being pending, or deletes what the snapshot lacks; when an acknowledgement was
\* handled while a state was held back, which is then adopted without what was
\* acknowledged; when one made the page believe to know a version that others
\* made, because the batch had been applied before (own tells those apart); or
\* when the room has been deleted.  Torn, when a batch of others stopped half-way:
\* the document has changed, and the text area waits for the state asked for.
Blank(draft) ==
    [doc |-> NewDoc, clock |-> 0, known |-> [exists |-> FALSE, gen |-> 0, ver |-> 0],
     pending |-> << >>, flying |-> {}, seq |-> 0, synced |-> << >>,
     value |-> draft, caret |-> Len(draft), painted |-> FALSE,
     undo |-> << >>, redo |-> << >>,
     ime |-> "off", base |-> None, deferred |-> << >>,
     peer |-> None, ask |-> FALSE, astray |-> FALSE, torn |-> FALSE]

\* snapshotIsStale; of a missing room the generation is not sent.
SnapshotIsStale(known, r) ==
    /\ r.exists
    /\ \/ r.gen < known.gen
       \/ r.gen = known.gen /\ (~known.exists \/ r.ver < known.ver)

\* The text handleState re-diffs when the pending operations do not fit the
\* snapshot, or the text area was filled before the script ran.
Rebased(e, theirs) ==
    IF e.synced # << >> /\ e.synced # e.value THEN Merge3(e.synced, e.value, theirs)
    ELSE e.value

\* Mutant: the snapshot is adopted without what is pending.
ReplayedNothing(e, doc) == [doc |-> doc, ok |-> e.pending # << >>]

Replayed(e, doc) == ApplyBatch(doc, e.pending)

\* For the properties: some operations fit the snapshot and some do not, or an
\* identifier of this browser is already that of another character.
Unfit(e, r, res) ==
    \/ ~res.ok /\ res.doc # r.doc
    \/ \E i \in DOMAIN e.pending :
          LET op == e.pending[i]
          IN  IF op.op = "del" THEN op.id \notin Known(res.doc)
              ELSE op.id \in Known(r.doc) /\ r.doc.items[op.id].ch # op.ch

\* handleState: the tree of the snapshot is adopted, what is pending replayed or
\* rebased, and the text shown with the caret behind the same character.
\* The undo stacks survive: the generation is compared after it is adopted.
Adopted(e, r, join) ==
    LET theirs == Materialize(r.doc)
        res == Replayed(e, r.doc)
        replayed == e.pending # << >> /\ res.ok
        draft == ~e.painted /\ e.pending = << >> /\ e.synced = << >> /\ e.value # << >>
        rebase == ~replayed /\ e.value # theirs /\ (e.pending # << >> \/ draft)
                  /\ Rebased(e, theirs) # theirs
        fresh == [e EXCEPT !.doc = res.doc,
                           !.clock = IF replayed THEN MaxClock(res.doc) ELSE MaxClock(r.doc),
                           !.pending = IF replayed THEN @ ELSE << >>,
                           !.flying = {},
                           !.synced = theirs,
                           !.known = [exists |-> r.exists, ver |-> r.ver,
                                      gen |-> IF r.exists THEN r.gen ELSE @.gen],
                           !.ask = FALSE,
                           !.torn = FALSE,
                           !.painted = TRUE,
                           !.astray = @ \/ Unfit(e, r, res)]
        next == IF rebase THEN LocalText(fresh, Rebased(e, theirs), join) ELSE fresh
    IN  Reanchored(Show(next, Selection(e)))

HandleState(e, f, join) ==
    IF SnapshotIsStale(e.known, f.room) THEN e ELSE Adopted(e, f.room, join)

\* forgetSentIds
Forget(flying, keys) ==
    {b \in {[b EXCEPT !.keys = @ \ keys] : b \in flying} : b.keys # {}}

\* handleRemoteOps: the version after the known one, of the known incarnation;
\* the browser's own operations are in its document already.
Misses(e, f) ==
    \/ f.gen > e.known.gen
    \/ f.gen = e.known.gen /\ (~e.known.exists \/ f.ver > e.known.ver + 1)

\* The clock, bumped by each operation.
Bumped(clock, ops) == MaxOf({clock} \cup {ops[i].id.clock : i \in DOMAIN ops})

HandleOps(e, f) ==
    LET res == ApplyBatch(e.doc, f.ops)
        next == [e EXCEPT !.known.ver = f.ver, !.synced = f.text]
    IN  IF Misses(e, f) THEN [e EXCEPT !.ask = TRUE]
        ELSE IF f.gen < e.known.gen \/ f.ver <= e.known.ver THEN e
        ELSE IF f.by = Me
        THEN [next EXCEPT !.pending = Without(@, Keys(f.ops)), !.flying = Forget(@, Keys(f.ops))]
        ELSE IF ~res.ok THEN [e EXCEPT !.doc = res.doc, !.ask = TRUE,
                                       !.torn = @ \/ res.doc # e.doc]
        ELSE TextChanged(Show([next EXCEPT !.doc = res.doc, !.clock = Bumped(@, f.ops)],
                              Selection(e)), Text(e))

\* handleAck.  Mutant: an acknowledgement confirms all that is pending.
ConfirmsAll(e, seq) == Keys(e.pending)

Confirms(e, seq) == UNION {b.keys : b \in {b \in e.flying : b.seq = seq}}

HandleAck(e, f) ==
    LET next == [e EXCEPT !.pending = Without(@, Confirms(e, f.seq)),
                          !.flying = {b \in @ : b.seq # f.seq},
                          !.astray = @ \/ \E i \in DOMAIN e.deferred : e.deferred[i].type = "state"]
        newer == f.gen >= e.known.gen
        moves == f.ver = e.known.ver + 1
    IN  IF ~f.ok THEN next
        ELSE [next EXCEPT
                !.known = [exists |-> @.exists \/ newer,
                           gen |-> IF newer THEN f.gen ELSE @.gen,
                           ver |-> IF moves THEN f.ver ELSE @.ver],
                !.astray = @ \/ (moves /\ ~f.own)]

\* updateRemoteCursors: an anchor that is not shown leaves the caret where it is
\* if the peer has not moved, and falls back to the index it sent.
HandleCursor(e, f) ==
    LET ids == VisibleIDs(e.doc)
        pos == PosAfter(f.after, ids)
    IN  IF pos = Unknown /\ e.peer # None /\ e.peer.after = f.after THEN e
        ELSE [e EXCEPT !.peer = [after |-> f.after,
                                 pos |-> IF pos = Unknown THEN Clamp(f.pos, Len(ids)) ELSE pos]]

\* Content messages that arrive during a composition are held back.
\* Mutant: a state is not.
HeldOnlyOps(e, f) == e.ime # "off" /\ f.type = "ops"

Held(e, f) == e.ime # "off" /\ f.type \in {"state", "ops"}

Handle(e, f, join) ==
    CASE f.type = "state" -> HandleState(e, f, join)
      [] f.type = "ops" -> HandleOps(e, f)
      [] f.type = "ack" -> HandleAck(e, f)
      [] f.type = "cursor" -> HandleCursor(e, f)

-----------------------------------------------------------------------------
Init ==
    /\ room = [exists |-> FALSE, gen |-> 0, ver |-> 0, doc |-> NewDoc]
    /\ event = None
    /\ session = None
    /\ wire = << >>
    /\ \E draft \in Drafts : ed = Blank(draft)
    /\ trail = None
    /\ count = [edits |-> 0, puts |-> 0, drops |-> 0]
    /\ owed = Chars(ed.value)

Counted(field) == count' = [count EXCEPT ![field] = @ + 1]
Fresh == count.edits + 1 + MaxOf({Len(draft) : draft \in Drafts})

\* What the user does: what is no longer shown was taken away by the user.
ByUser(e) ==
    /\ ed' = e
    /\ owed' = (owed \cup (Chars(e.value) \ Chars(ed.value))) \cap Chars(e.value)
    /\ UNCHANGED <<room, event, session, wire, trail>>

-----------------------------------------------------------------------------
(* The user                                                                *)

\* onInput after a key: a character is inserted or removed at the caret.
Input(text, caret, join) ==
    LET e == LocalText([ed EXCEPT !.value = text, !.caret = caret], text, join)
    IN  ByUser(TextChanged(e, Text(ed)))

Type ==
    /\ ed.ime = "off" /\ count.edits < MaxEdits
    /\ \E at \in 0 .. Len(ed.value), join \in BOOLEAN :
          Input(InsertAt(ed.value, at + 1, Fresh), at + 1, join)
    /\ Counted("edits")

Erase ==
    /\ ed.ime = "off" /\ count.edits < MaxEdits
    /\ \E at \in DOMAIN ed.value, join \in BOOLEAN :
          Input(RemoveAt(ed.value, at), at - 1, join)
    /\ Counted("edits")

\* The buttons and shortcuts are not for an input method that is at work: a
\* click ends it first, and the keys are its own.
Undo ==
    /\ ed.ime = "off" /\ ed.undo # << >> /\ count.edits < MaxEdits
    /\ ByUser(Undone(ed))
    /\ Counted("edits")

Redo ==
    /\ ed.ime = "off" /\ ed.redo # << >> /\ count.edits < MaxEdits
    /\ ByUser(Redone(ed))
    /\ Counted("edits")

\* restoreSnapshot: the difference to the snapshot is typed.
Restore ==
    /\ ed.ime = "off" /\ trail # None /\ trail # Text(ed) /\ count.edits < MaxEdits
    /\ \E join \in BOOLEAN : ByUser(ShowInverse(LocalText(ed, trail, join), Text(ed)))
    /\ Counted("edits")

\* onCompositionStart, and the provisional text of the input method.
ComposeStart ==
    /\ ed.ime = "off" /\ count.edits < MaxEdits
    /\ ByUser([ed EXCEPT !.ime = "on", !.base = [text |-> ed.value, ids |-> VisibleIDs(ed.doc)]])
    /\ UNCHANGED count

ComposeInput ==
    /\ ed.ime # "off" /\ ed.value = ed.base.text /\ count.edits < MaxEdits
    /\ \E at \in 0 .. Len(ed.value) :
          ByUser([ed EXCEPT !.value = InsertAt(@, at + 1, Fresh), !.caret = at + 1])
    /\ Counted("edits")

ComposeCancel ==
    /\ ed.ime = "on" /\ ed.value # ed.base.text
    /\ ByUser([ed EXCEPT !.value = ed.base.text, !.caret = Clamp(@, Len(ed.base.text))])
    /\ UNCHANGED count

ComposeEnd ==
    /\ ed.ime = "on"
    /\ ByUser([ed EXCEPT !.ime = "ending"])
    /\ UNCHANGED count

\* The operations of a composition: the difference to the text it began with, on
\* the items shown then; a draft has characters without an item.
Composed(e) ==
    LET ids == [i \in DOMAIN e.base.text |->
                   IF i \in DOMAIN e.base.ids THEN e.base.ids[i] ELSE Root]
    IN  DiffToOps(ids, e.base.text, e.value, Me, Clock(e))

\* commitComposition, then flushDeferredContentMessages.  If the operations do
\* not fit, the text area is left to the next state.
Committed(e, join) ==
    LET ops == Composed(e)
        res == ApplyBatch(e.doc, ops)
        off == [e EXCEPT !.ime = "off", !.base = None, !.deferred = << >>]
    IN  IF ~res.ok THEN [off EXCEPT !.doc = res.doc, !.clock = Bumped(Clock(e), ops), !.ask = TRUE]
        ELSE ShowInverse(Typed(off, ops, join), Text(e))

\* What was held back, in the order of its arrival.
HandleAll(e, frames, join) ==
    LET after[n \in 0 .. Len(frames)] ==
            IF n = 0 THEN e ELSE Handle(after[n - 1], frames[n], join)
    IN  after[Len(frames)]

Commit ==
    /\ ed.ime = "ending"
    /\ \E join \in BOOLEAN : ed' = HandleAll(Committed(ed, join), ed.deferred, join)
    /\ UNCHANGED <<room, event, session, wire, trail, count, owed>>

-----------------------------------------------------------------------------
(* The connection                                                          *)

Pair(r) == [exists |-> r.exists, gen |-> r.gen, ver |-> r.ver]
Open == session # None
Fits(frames) == Len(wire) + frames <= MaxWire

\* A session's first frame is a state, whatever it has.
Connect ==
    /\ ~Open
    /\ session' = [last |-> None]
    /\ UNCHANGED <<room, event, wire, ed, trail, count, owed>>

\* onclose: what is in flight has an unknown fate and stays pending; the
\* messages held back by a composition stay.
Disconnect ==
    /\ Open /\ count.edits < MaxEdits /\ count.drops < MaxDrops
    /\ session' = None
    /\ wire' = << >>
    /\ ed' = [ed EXCEPT !.flying = {}, !.peer = None, !.ask = FALSE]
    /\ count' = [count EXCEPT !.edits = @ + 1, !.drops = @ + 1]
    /\ UNCHANGED <<room, event, trail, owed>>

\* enqueueRoomState: operations only to who has been sent the version before.
Push ==
    /\ Open /\ Fits(1) /\ session.last # Pair(room)
    /\ LET last == session.last
           compact == /\ last # None /\ last.exists /\ room.exists /\ event # None
                      /\ event.ops # << >> /\ event.gen = room.gen /\ event.ver = room.ver
                      /\ last.gen = room.gen /\ room.ver = last.ver + 1
       IN  wire' = Append(wire, IF compact THEN OpsFrame(room, event) ELSE StateFrame(room))
    /\ session' = [session EXCEPT !.last = Pair(room)]
    /\ UNCHANGED <<room, event, ed, trail, count, owed>>

\* The answer to requestSync.
Answer ==
    /\ Open /\ Fits(1) /\ session.last # None /\ ed.ask
    /\ wire' = Append(wire, StateFrame(room))
    /\ ed' = [ed EXCEPT !.ask = FALSE]
    /\ UNCHANGED <<room, event, session, trail, count, owed>>

\* flushPending: the pending operations that are not in flight, at most MaxBatch.
Batch ==
    LET ops == Without(ed.pending, UNION {b.keys : b \in ed.flying})
    IN  SubSeq(ops, 1, Clamp(Len(ops), MaxBatch))

\* A write finds the room, or begins a new incarnation.
Current == IF room.exists THEN room ELSE [room EXCEPT !.gen = @ + 1, !.doc = NewDoc]
Writable == room.exists \/ room.gen < MaxGeneration

Write(doc, by, ops) ==
    /\ room' = [Current EXCEPT !.exists = TRUE, !.ver = @ + 1, !.doc = doc]
    /\ event' = [gen |-> room'.gen, ver |-> room'.ver, by |-> by, ops |-> ops]

Sending ==
    /\ Open /\ session.last # None /\ Fits(2) /\ ed.seq < MaxSends /\ Batch # << >> /\ Writable
    /\ ed' = [ed EXCEPT !.seq = @ + 1,
                        !.flying = @ \cup {[seq |-> ed.seq + 1, keys |-> Keys(Batch)]}]
    /\ owed' = owed \ {Batch[i].ch : i \in {i \in DOMAIN Batch : Batch[i].op = "ins"}}
    /\ UNCHANGED <<session, trail, count>>

\* The batch changes the document, or it has been applied before.
FlushAccepted ==
    /\ Sending
    /\ LET res == ApplyBatch(Current.doc, Batch)
       IN  /\ res.ok
           /\ IF res.doc # Current.doc \/ ~room.exists THEN Write(res.doc, Me, Batch)
              ELSE room' = room /\ event' = [gen |-> room.gen, ver |-> room.ver,
                                             by |-> Me, ops |-> << >>]
    /\ wire' = Append(wire, Ack(ed.seq + 1, room', room' # room))

\* It does not fit, or the room is full: an error, and a state.
FlushRefused ==
    /\ Sending
    /\ room' = [Current EXCEPT !.doc = room.doc]
    /\ event' = event
    /\ wire' = wire \o <<ErrorAck(ed.seq + 1), StateFrame(room')>>

\* The frames that have arrived are handled in order.
Receive ==
    /\ wire # << >>
    /\ wire' = Tail(wire)
    /\ \E join \in BOOLEAN :
          ed' = IF Held(ed, Head(wire)) THEN [ed EXCEPT !.deferred = Append(@, Head(wire))]
                ELSE Handle(ed, Head(wire), join)
    /\ UNCHANGED <<room, event, session, trail, count, owed>>

\* pruneStalePeers
Prune ==
    /\ ed.peer # None
    /\ ed' = [ed EXCEPT !.peer = None]
    /\ UNCHANGED <<room, event, session, wire, trail, count, owed>>

-----------------------------------------------------------------------------
(* Others                                                                  *)

\* A peer's client types behind or erases what it shows, or types over a character;
\* it may not have seen the newest items yet.
Erasing(ids) == {DelOp(ids[i]) : i \in DOMAIN ids}
Typing(ids) ==
    {op \in {InsOp([clock |-> at[1], site |-> Peer], at[2], Fresh) :
               at \in (1 .. MaxClock(Current.doc) + 1) \X (ToSet(ids) \cup {Root})} :
        /\ op.id.clock > op.after.clock
        /\ \A id \in Known(Current.doc) : id.site = Peer => id.clock < op.id.clock}
PeerOps(ids) ==
    {<<op>> : op \in Erasing(ids) \cup Typing(ids)}
    \cup {<<at[1], at[2]>> : at \in Erasing(ids) \X Typing(ids)}

PeerEdit ==
    /\ count.edits < MaxEdits /\ Writable
    /\ \E ops \in PeerOps(VisibleIDs(Current.doc)) :
          Write(ApplyBatch(Current.doc, ops).doc, Peer, ops)
    /\ Counted("edits")
    /\ UNCHANGED <<session, wire, ed, trail, owed>>

\* The peer tells where its caret is.
PeerMove ==
    /\ Open /\ session.last # None /\ Fits(1) /\ room.exists
    /\ \E pos \in 0 .. Len(VisibleIDs(room.doc)) :
          wire' = Append(wire, CursorFrame(AnchorAt(pos, VisibleIDs(room.doc)), pos))
    /\ count.edits < MaxEdits /\ Counted("edits")
    /\ UNCHANGED <<room, event, session, ed, trail, owed>>

\* A text put over REST rebuilds the document.
Put ==
    /\ count.edits < MaxEdits /\ count.puts < MaxPuts /\ Writable
    /\ LET old == Materialize(Current.doc)
       IN  \E text \in {Append(old, Fresh), <<Fresh>>, << >>} :
             text # old /\ Write(BuildFromString(Rest, text), Rest, << >>)
    /\ count' = [count EXCEPT !.edits = @ + 1, !.puts = @ + 1]
    /\ UNCHANGED <<session, wire, ed, trail, owed>>

\* The room is deleted, or expires.
Vanish ==
    /\ room.exists /\ room.gen < MaxGeneration /\ count.edits < MaxEdits
    /\ Counted("edits")
    /\ room' = [room EXCEPT !.exists = FALSE, !.ver = 0, !.doc = NewDoc]
    /\ event' = None
    /\ ed' = [ed EXCEPT !.astray = TRUE]
    /\ UNCHANGED <<session, wire, trail, owed>>

\* The trail captures the text.
Capture ==
    /\ room.exists /\ trail = None /\ count.edits < MaxEdits
    /\ trail' = Materialize(room.doc)
    /\ Counted("edits")
    /\ UNCHANGED <<room, event, session, wire, ed, owed>>

User == Type \/ Erase \/ Undo \/ Redo \/ Restore
        \/ ComposeStart \/ ComposeInput \/ ComposeCancel \/ ComposeEnd \/ Commit
Network == Connect \/ Disconnect \/ Push \/ Answer \/ FlushAccepted \/ FlushRefused
           \/ Receive \/ Prune
Others == PeerEdit \/ PeerMove \/ Put \/ Vanish \/ Capture

Next == User \/ Network \/ Others

Spec == Init /\ [][Next]_vars

-----------------------------------------------------------------------------
(* Properties *)

\* Once a state has been shown, the text area holds exactly the text of the
\* document, after any local edit, remote operation, snapshot, undo or
\* composition (onInput, handleState, handleRemoteOps, undo, commitComposition);
\* what is typed next would otherwise be taken for a difference.  Only a batch of
\* others that does not fit leaves them apart, until the state it makes the page ask
\* for (handleRemoteOps).
TextareaShowsDocument ==
    ed.painted /\ ed.ime = "off" /\ ~ed.torn => ed.value = Text(ed)

\* Nothing is on its way in either direction, nothing is pending, and the page
\* believes to know the room.
Settled ==
    /\ Open /\ session.last = Pair(room) /\ wire = << >> /\ ~ed.ask
    /\ ed.ime = "off" /\ ed.pending = << >> /\ ed.known = Pair(room)

\* Then it shows the room, if it has not gone astray (the three ways of handleAck,
\* handleRemoteOps and handleState to confirm a batch).
WriterAgrees == Settled /\ ~ed.astray => Text(ed) = Materialize(room.doc)

\* What the user typed is shown until the room has had it, refused it or the
\* user took it away, whatever arrives meanwhile, connected or not, composed or
\* not (the replay and the rebase of handleState, deferredContentMessages).
NothingTypedIsLost == ed.astray \/ owed \subseteq Chars(ed.value)

\* Nothing but the user changes the text area while an input method is at work.
CompositionUntouched ==
    [][ed.ime # "off" /\ ed'.ime # "off" /\ ed'.value # ed.value
       => ComposeInput \/ ComposeCancel]_vars

\* A message from the server leaves the caret behind the character it was behind, if
\* that character is still shown, through remote edits and snapshots
\* (captureSelection, restoreSelection).
CaretSticks ==
    [][Receive /\ ed.ime = "off" /\ ed.painted /\ ed'.value # ed.value =>
         LET left == Selection(ed).left
         IN  PosAfter(left, VisibleIDs(ed'.doc)) \in {Unknown, ed'.caret}]_vars

\* The text area shows the document, and no character twice.
Clear(e) == e.painted /\ ~e.torn /\ IsInjective(Text(e))

\* A peer's caret is right behind its item, or the item is not shown.
Behind(e) == PosAfter(e.peer.after, VisibleIDs(e.doc)) \in {Unknown, e.peer.pos}

\* A peer's caret that is right behind an item of the document stays there, and one that
\* is moved is put there, through local and remote edits, undo, compositions and
\* snapshots (updateAllCursorPositions).  Not if a character is shown twice:
\* onLocalTextChanged compares texts, and an item that gives way to an equal one
\* moves no caret.
PeerCaretSticks ==
    [][LET stands == /\ ed.peer # None /\ Behind(ed)
                     /\ ed.peer.after \in Known(ed.doc) \cup {Root}
       IN  ed'.peer # None /\ Clear(ed') /\ (stands \/ ed'.peer # ed.peer) => Behind(ed')]_vars

\* Both carets stay where they belong.
CaretsStick == CaretSticks /\ PeerCaretSticks
=============================================================================
