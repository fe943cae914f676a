------------------------------ MODULE RoomSync ------------------------------
(***************************************************************************)
(* One room shared over websockets: the sessions, the broker and the       *)
(* cached event of internal/handler/handler.go, and the synchronisation of *)
(* the client, static/app.js.                                              *)
(*                                                                         *)
(* A session has two goroutines that write to one bounded queue: the main  *)
(* loop, which turns a wake-up into a frame in three steps (read the room, *)
(* take the cached event, queue the frame), and the read loop, which       *)
(* applies a batch and then acknowledges, caches and announces it.  Other  *)
(* handlers change the room beside them: REST, the sweep, and sessions     *)
(* whose clients are not followed, one at a time in the middle of its      *)
(* steps.  The broker only makes a wake-up come sooner than the presence   *)
(* ticker does, so the main loop may wake at any moment.                   *)
(*                                                                         *)
(* The room is that of module RoomStore without lock, trail and budget.  A *)
(* document is the set of its items: by Convergence in RgaReplicas items   *)
(* determine it.  Operations are insertions (a deletion is one that needs  *)
(* no parent); ch tells two items with the same identifier apart.          *)
(***************************************************************************)
EXTENDS Integers, FiniteSets, Sequences

CONSTANTS
    Client,           \* the sites of the clients that are followed
    None,
    QueueCap,         \* the capacity of a session's send queue
    Lossy,            \* does a crash lose the snapshots in flight?
    MaxEdits,         \* bound: characters typed, texts put and changes of the lock
    MaxVersion,       \* bound: no change of the room begins beyond this version
    MaxGeneration,    \* bound: nor on an absent room after so many incarnations and drops
    MaxSeq,           \* bound: batches a client sends
    MaxDrops          \* bound: drops (connections lost and restarts); see MaxGeneration

ASSUME SyncAssumption ==
    /\ Client \subseteq Nat \ {0}
    /\ QueueCap \in Nat \ {0}
    /\ Lossy \in BOOLEAN

VARIABLES
    room,      \* the room: see Absent
    nextGen,   \* the store's incarnation counter
    event,     \* lastEvent: the latest change, or None
    other,     \* what a handler of nobody followed has left to do, or None
    session,   \* session[c]: the server's side of c's connection, or None
    up, down,  \* the messages on their way from and to client c
    client,    \* client[c]: see NewClient
    edits, drops,
    past       \* for the properties: every state the room has been in

vars == <<room, nextGen, event, other, session, up, down, client, edits, drops, past>>

Root == [site |-> 0, clock |-> 0]

\* The site of everybody who is not followed.
OtherSite == -1

\* The zero Clipboard that Peek returns of a missing room.
Absent == [exists |-> FALSE, gen |-> 0, ver |-> 0, doc |-> {}]

-----------------------------------------------------------------------------
(* Documents *)

Ids(doc) == {o.id : o \in doc}

\* The identifiers that ops[i] meets: those of the document and of the
\* operations before it.
Met(doc, ops, i) == Ids(doc) \cup {ops[j].id : j \in 1 .. i - 1}

\* Doc.ApplyBatch: known identifiers change nothing, an unknown parent ends
\* the batch; what came before it has been applied to the document at hand.
Apply(doc, ops) ==
    LET fits(i) == ops[i].id \in Met(doc, ops, i) \/ ops[i].after \in Met(doc, ops, i) \cup {Root}
        applied == {i \in DOMAIN ops : \A j \in 1 .. i : fits(j)}
    IN  [doc |-> doc \cup {ops[i] : i \in {n \in applied : ops[n].id \notin Met(doc, ops, n)}},
         ok |-> applied = DOMAIN ops]

MaxClock(doc) ==
    CHOOSE n \in {id.clock : id \in Ids(doc)} \cup {0} : \A o \in doc : o.id.clock <= n

-----------------------------------------------------------------------------
(* Messages and records *)

StateFrame(r) == [type |-> "state", room |-> r]
OpsFrame(r, ev) == [type |-> "ops", gen |-> r.gen, ver |-> r.ver, by |-> ev.by, ops |-> ev.ops]
Ack(seq, r) == [type |-> "ack", seq |-> seq, ok |-> TRUE, gen |-> r.gen, ver |-> r.ver]
ErrorAck(seq) == [type |-> "ack", seq |-> seq, ok |-> FALSE, gen |-> 0, ver |-> 0]

\* Cached events; one without operations asks for a full state.
OpsEvent(r, by, ops) == [gen |-> r.gen, ver |-> r.ver, by |-> by, ops |-> ops]
FullEvent(r, by) == [gen |-> r.gen, ver |-> r.ver, by |-> by, ops |-> << >>]

\* main and read are what each goroutine has in hand.  lastVersion starts at
\* -1, and the first state is forced.
Idle == [at |-> "idle"]
NewSession ==
    [force |-> TRUE, last |-> [exists |-> FALSE, gen |-> -1, ver |-> -1],
     main |-> Idle, read |-> Idle]

NewClient ==
    [doc |-> {}, known |-> [exists |-> FALSE, gen |-> 0, ver |-> 0],
     pending |-> << >>, sent |-> {}, seq |-> 0, asked |-> FALSE]

Init ==
    /\ room = Absent
    /\ nextGen = 0
    /\ event = None
    /\ other = None
    /\ session = [c \in Client |-> None]
    /\ up = [c \in Client |-> << >>]
    /\ down = [c \in Client |-> << >>]
    /\ client = [c \in Client |-> NewClient]
    /\ edits = 0
    /\ drops = 0
    /\ past = {Absent}

\* The room changes, with the store's counter if it was absent.
Become(r, gen) ==
    /\ room' = r
    /\ nextGen' = gen
    /\ past' = past \cup {r}

Changeable == room.ver < MaxVersion /\ (room.exists \/ nextGen + drops < MaxGeneration)

-----------------------------------------------------------------------------
(* Other handlers                                                          *)

\* An incarnation for a room that is written, and the counter after it.
Gen == IF room.exists THEN room.gen ELSE nextGen + 1
Counter == IF room.exists THEN nextGen ELSE nextGen + 1

Written(bump, doc) == [exists |-> TRUE, gen |-> Gen, ver |-> room.ver + bump, doc |-> doc]

\* A document rebuilt from a text, and a character typed by somebody else.
Rebuilt == [id |-> [site |-> 0, clock |-> 1], after |-> Root, ch |-> edits + 1]
Foreign(after) ==
    [id |-> [site |-> OtherSite, clock |-> MaxClock(room.doc) + 1], after |-> after,
     ch |-> edits + 1]

\* handleSaveClipboard and handleWSOps of a foreign session: one store call,
\* then noteFullState or noteOps.
OtherWrite ==
    /\ other = None /\ edits < MaxEdits /\ Changeable
    /\ \/ \E doc \in {{Rebuilt}, {}} :
            /\ ~room.exists \/ doc # room.doc
            /\ Become(Written(1, doc), Counter)
            /\ other' = [at |-> "note", ev |-> FullEvent(room', None)]
       \/ \E after \in Ids(room.doc) \cup {Root} :
            LET o == Foreign(after)
            IN  /\ Become(Written(1, room.doc \cup {o}), Counter)
                /\ other' = [at |-> "note", ev |-> OpsEvent(room', OtherSite, <<o>>)]
    /\ edits' = edits + 1
    /\ UNCHANGED <<event, session, up, down, client, drops>>

\* The text the room has is saved again; a batch is applied again, or is empty
\* and changes at most the lifetime.
OtherTouch ==
    /\ other = None /\ room.exists /\ edits < MaxEdits /\ Changeable
    /\ \E bump \in {0, 1} : Become(Written(bump, room.doc), nextGen)
    /\ other' = [at |-> "note", ev |-> FullEvent(room', None)]
    /\ UNCHANGED <<event, session, up, down, client, edits, drops>>

\* handleEditPassword: an empty room is created to hold the password, or the
\* lock changes; sessions are woken, but no event is cached.
OtherLock ==
    /\ other = None /\ edits < MaxEdits /\ Changeable
    /\ Become(Written(1, room.doc), Counter)
    /\ edits' = edits + 1
    /\ UNCHANGED <<event, other, session, up, down, client, drops>>

OtherNote ==
    /\ other # None /\ other.at = "note"
    /\ event' = other.ev
    /\ other' = None
    /\ UNCHANGED <<room, nextGen, session, up, down, client, edits, drops, past>>

\* handleDeleteClipboard, and CleanupExpired followed by PingExpired.
OtherDelete ==
    /\ other = None /\ room.exists
    /\ Become(Absent, nextGen)
    /\ other' = [at |-> "forget"]
    /\ UNCHANGED <<event, session, up, down, client, edits, drops>>

OtherForget ==
    /\ other # None /\ other.at = "forget"
    /\ event' = None
    /\ other' = None
    /\ UNCHANGED <<room, nextGen, session, up, down, client, edits, drops, past>>

\* Any call on the store removes an expired room, and tells nobody.
Expire ==
    /\ room.exists
    /\ Become(Absent, nextGen)
    /\ UNCHANGED <<event, other, session, up, down, client, edits, drops>>

-----------------------------------------------------------------------------
(* The main loop: enqueueRoomState                                         *)

Pair(r) == [exists |-> r.exists, gen |-> r.gen, ver |-> r.ver]

Main(c, at) == session[c] # None /\ session[c].main.at = at

\* A wake-up that matters: for the first state, when something has changed, or
\* when there is an event to forget.
MainPeek(c) ==
    /\ Main(c, "idle")
    /\ \/ session[c].force
       \/ session[c].last # Pair(room)
       \/ ~room.exists /\ event # None
    /\ session' = [session EXCEPT ![c].main = [at |-> "compose", room |-> room]]
    /\ UNCHANGED <<room, nextGen, event, other, up, down, client, edits, drops, past>>

\* The operations are sent instead of the state only to a client that has been
\* sent the version before.  Mutant: whatever version the event is of.
CompactAnyEvent(s, r) ==
    /\ ~s.force /\ r.exists /\ s.last.exists
    /\ event # None /\ event.ops # << >>
    /\ event.gen = r.gen /\ s.last.gen = r.gen
    /\ r.ver = s.last.ver + 1

Compact(s, r) ==
    /\ ~s.force /\ r.exists /\ s.last.exists
    /\ event # None /\ event.ops # << >>
    /\ event.gen = r.gen /\ event.ver = r.ver /\ s.last.gen = r.gen
    /\ r.ver = s.last.ver + 1

\* forgetEvent if the room has gone; takeEvent; nothing to send if nothing has
\* changed since the last frame.
MainCompose(c) ==
    /\ Main(c, "compose")
    /\ LET s == session[c]
           r == s.main.room
       IN  /\ event' = IF r.exists THEN event ELSE None
           /\ session' = [session EXCEPT ![c].main =
                IF ~s.force /\ s.last = Pair(r) THEN Idle
                ELSE [at |-> "send", room |-> r,
                      frame |-> IF Compact(s, r) THEN OpsFrame(r, event) ELSE StateFrame(r)]]
    /\ UNCHANGED <<room, nextGen, other, up, down, client, edits, drops, past>>

\* A full queue drops a message.
Queue(c, msg) ==
    down' = [down EXCEPT ![c] = IF Len(@) < QueueCap THEN Append(@, msg) ELSE @]

\* A frame dropped is tried again at the next wake-up.
\* Mutant: the session takes it for sent.
LastAlways(c) == Pair(session[c].main.room)

LastSent(c) ==
    IF Len(down[c]) < QueueCap THEN Pair(session[c].main.room) ELSE session[c].last

MainSend(c) ==
    /\ Main(c, "send")
    /\ Queue(c, session[c].main.frame)
    /\ session' = [session EXCEPT ![c].last = LastSent(c), ![c].main = Idle, ![c].force = FALSE]
    /\ UNCHANGED <<room, nextGen, event, other, up, client, edits, drops, past>>

-----------------------------------------------------------------------------
(* The read loop: it starts when the first state is in the queue           *)

Read(c, at) == session[c] # None /\ ~session[c].force /\ session[c].read.at = at
Reading(c, type) == Read(c, "idle") /\ up[c] # << >> /\ Head(up[c]).type = type

\* ApplyOps, the first step of handleWSOps: the batch changes the document; or
\* it has been applied before, or is empty, and at most the lifetime changes;
\* or it is empty and creates the room; or an operation's parent is unknown,
\* and an absent room has used up an incarnation.
ReadOps(c) ==
    /\ Reading(c, "ops")
    /\ Changeable
    /\ LET msg == Head(up[c])
           res == Apply(room.doc, msg.ops)
           next(bump) == Written(bump, res.doc)
           accept(r, ev) ==
               /\ Become(r, Counter)
               /\ session' = [session EXCEPT ![c].read =
                                [at |-> "ack", frame |-> Ack(msg.seq, r), ev |-> ev]]
       IN  /\ up' = [up EXCEPT ![c] = Tail(@)]
           /\ \/ /\ res.ok /\ res.doc # room.doc
                 /\ accept(next(1), OpsEvent(next(1), c, msg.ops))
              \/ /\ res.ok /\ res.doc = room.doc /\ room.exists
                 /\ \E bump \in {0, 1} : accept(next(bump), FullEvent(next(bump), c))
              \/ /\ ~room.exists /\ msg.ops = << >>
                 /\ accept(next(1), FullEvent(next(1), c))
              \/ /\ ~res.ok
                 /\ session' = [session EXCEPT ![c].read = [at |-> "reject", seq |-> msg.seq]]
                 /\ nextGen' = Counter
                 /\ UNCHANGED <<room, past>>
    /\ UNCHANGED <<event, other, down, client, edits, drops>>

ReadAck(c) ==
    /\ Read(c, "ack")
    /\ Queue(c, session[c].read.frame)
    /\ session' = [session EXCEPT ![c].read = [at |-> "note", ev |-> @.ev]]
    /\ UNCHANGED <<room, nextGen, event, other, up, client, edits, drops, past>>

\* noteOps or noteFullState
ReadNote(c) ==
    /\ Read(c, "note")
    /\ event' = session[c].read.ev
    /\ session' = [session EXCEPT ![c].read = Idle]
    /\ UNCHANGED <<room, nextGen, other, up, down, client, edits, drops, past>>

\* A rejected batch is answered with an error and then a full state.
ReadReject(c) ==
    /\ Read(c, "reject")
    /\ Queue(c, ErrorAck(session[c].read.seq))
    /\ session' = [session EXCEPT ![c].read = [at |-> "peek"]]
    /\ UNCHANGED <<room, nextGen, event, other, up, client, edits, drops, past>>

ReadSync(c) ==
    /\ Reading(c, "sync")
    /\ up' = [up EXCEPT ![c] = Tail(@)]
    /\ session' = [session EXCEPT ![c].read = [at |-> "peek"]]
    /\ UNCHANGED <<room, nextGen, event, other, down, client, edits, drops, past>>

ReadPeek(c) ==
    /\ Read(c, "peek")
    /\ session' = [session EXCEPT ![c].read = [at |-> "reply", room |-> room]]
    /\ UNCHANGED <<room, nextGen, event, other, up, down, client, edits, drops, past>>

ReadReply(c) ==
    /\ Read(c, "reply")
    /\ Queue(c, StateFrame(session[c].read.room))
    /\ session' = [session EXCEPT ![c].read = Idle]
    /\ UNCHANGED <<room, nextGen, event, other, up, client, edits, drops, past>>

-----------------------------------------------------------------------------
(* The connection                                                          *)

\* The first state is queued before the read loop starts.
Connect(c) ==
    /\ session[c] = None
    /\ session' = [session EXCEPT ![c] = NewSession]
    /\ UNCHANGED <<room, nextGen, event, other, up, down, client, edits, drops, past>>

\* onclose: what has been sent has an unknown fate and stays pending.
Dropped(cs) ==
    /\ drops < MaxDrops /\ nextGen + drops < MaxGeneration
    /\ drops' = drops + 1
    /\ up' = [c \in Client |-> IF c \in cs THEN << >> ELSE up[c]]
    /\ down' = [c \in Client |-> IF c \in cs THEN << >> ELSE down[c]]
    /\ client' = [c \in Client |-> IF c \in cs THEN [client[c] EXCEPT !.sent = {}] ELSE client[c]]

\* The read loop finishes the batch it is at before the session ends.
Disconnect(c) ==
    /\ session[c] # None /\ session[c].read = Idle
    /\ Dropped({c})
    /\ session' = [session EXCEPT ![c] = None]
    /\ UNCHANGED <<room, nextGen, event, other, edits, past>>

\* The server dies at any moment and starts again with the room of its snapshot
\* file, which may be older by what was in flight, or as old as the last snapshot
\* whose writing did not fail (RoomPersistence).
Restorable == IF Lossy THEN past ELSE {room}

Restart ==
    /\ Dropped(Client)
    /\ room' \in Restorable
    /\ event' = None
    /\ other' = None
    /\ session' = [c \in Client |-> None]
    /\ UNCHANGED <<nextGen, edits, past>>

-----------------------------------------------------------------------------
(* The client                                                              *)

Update(c, cl) == client' = [client EXCEPT ![c] = cl]

\* opKeys in flight: sentBatches.
Outstanding(cl) == UNION {b.ids : b \in cl.sent}
Without(ops, ids) ==
    LET kept[n \in 0 .. Len(ops)] ==
            IF n = 0 THEN << >>
            ELSE IF ops[n].id \in ids THEN kept[n - 1] ELSE Append(kept[n - 1], ops[n])
    IN  kept[Len(ops)]

\* applyLocalText: an item typed behind any other, with a clock above all.
Type(c) ==
    /\ edits < MaxEdits
    /\ \E after \in Ids(client[c].doc) \cup {Root} :
        LET o == [id |-> [site |-> c, clock |-> MaxClock(client[c].doc) + 1],
                  after |-> after, ch |-> edits + 1]
        IN  Update(c, [client[c] EXCEPT !.doc = @ \cup {o}, !.pending = Append(@, o)])
    /\ edits' = edits + 1
    /\ UNCHANGED <<room, nextGen, event, other, session, up, down, drops, past>>

\* flushPending, on a timer that typing, a change of the settings and several
\* messages start: what is not in flight is sent, or an empty batch, which
\* refreshes the lifetime, if nothing is pending at all.
Flush(c) ==
    LET cl == client[c]
        batch == Without(cl.pending, Outstanding(cl))
        ids == {batch[i].id : i \in DOMAIN batch}
    IN  /\ session[c] # None /\ cl.seq < MaxSeq
        /\ batch # << >> \/ cl.pending = << >>
        /\ up' = [up EXCEPT ![c] = Append(@, [type |-> "ops", ops |-> batch, seq |-> cl.seq + 1])]
        /\ Update(c, [cl EXCEPT !.seq = @ + 1,
                                !.sent = IF batch = << >> THEN @
                                         ELSE @ \cup {[seq |-> cl.seq + 1, ids |-> ids]}])
        /\ UNCHANGED <<room, nextGen, event, other, session, down, edits, drops, past>>

Receiving(c, type) == down[c] # << >> /\ Head(down[c]).type = type
Received(c) == down' = [down EXCEPT ![c] = Tail(@)]

\* snapshotIsStale; a missing room has no incarnation and is never stale.
SnapshotIsStale(known, r) ==
    /\ r.exists
    /\ \/ r.gen < known.gen
       \/ r.gen = known.gen /\ (~known.exists \/ r.ver < known.ver)

\* Where the pending operations do not fit the new document, the text they
\* made is merged into it and typed again.
Retyped(c, doc, ops) ==
    LET base == MaxClock(doc)
        id(i) == [site |-> c, clock |-> base + i]
    IN  [i \in DOMAIN ops |-> [id |-> id(i), after |-> IF i = 1 THEN Root ELSE id(i - 1),
                               ch |-> ops[i].ch]]

\* handleState: the snapshot is adopted and the pending operations replayed.
Adopted(c, r) ==
    LET cl == client[c]
        res == Apply(r.doc, cl.pending)
        again == Retyped(c, res.doc, Without(cl.pending, Ids(res.doc)))
        pending == IF res.ok THEN cl.pending ELSE again
    IN  [cl EXCEPT !.doc = IF res.ok THEN res.doc ELSE Apply(res.doc, again).doc,
                   !.known = [exists |-> r.exists, ver |-> r.ver,
                              gen |-> IF r.exists THEN r.gen ELSE @.gen],
                   !.pending = pending,
                   !.sent = {},
                   !.asked = FALSE]

ReceiveState(c) ==
    /\ Receiving(c, "state")
    /\ Received(c)
    /\ LET r == Head(down[c]).room
       IN  Update(c, IF SnapshotIsStale(client[c].known, r) THEN client[c] ELSE Adopted(c, r))
    /\ UNCHANGED <<room, nextGen, event, other, session, up, edits, drops, past>>

\* requestSync: at most one request in 1.5 seconds.
RequestSync(c, cl) ==
    /\ Update(c, [cl EXCEPT !.asked = TRUE])
    /\ up' = IF cl.asked THEN up ELSE [up EXCEPT ![c] = Append(@, [type |-> "sync"])]

AskAgain(c) ==
    /\ client[c].asked
    /\ Update(c, [client[c] EXCEPT !.asked = FALSE])
    /\ UNCHANGED <<room, nextGen, event, other, session, up, down, edits, drops, past>>

\* The batches in flight, without operations that have been confirmed.
Forget(sent, ids) ==
    {b \in {[b EXCEPT !.ids = @ \ ids] : b \in sent} : b.ids # {}}

\* handleRemoteOps.  An operation frame is for the version after the known one
\* of the known incarnation; the client's own are in its document already.
ReceiveOps(c) ==
    /\ Receiving(c, "ops")
    /\ Received(c)
    /\ LET f == Head(down[c])
           cl == client[c]
           ids == {f.ops[i].id : i \in DOMAIN f.ops}
           known == [exists |-> TRUE, gen |-> f.gen, ver |-> f.ver]
           pending == Without(cl.pending, ids)
           res == Apply(cl.doc, f.ops)
       IN  \/ /\ \/ f.gen < cl.known.gen
                 \/ f.gen = cl.known.gen /\ cl.known.exists /\ f.ver <= cl.known.ver
              /\ UNCHANGED <<client, up>>
           \/ /\ f.gen >= cl.known.gen
              /\ \/ f.gen > cl.known.gen
                 \/ ~cl.known.exists
                 \/ f.ver > cl.known.ver + 1
              /\ RequestSync(c, cl)
           \/ /\ f.gen = cl.known.gen /\ cl.known.exists /\ f.ver = cl.known.ver + 1
              /\ \/ /\ f.by = c
                    /\ Update(c, [cl EXCEPT !.known = known, !.pending = pending,
                                            !.sent = Forget(@, ids)])
                    /\ UNCHANGED up
                 \/ /\ f.by # c /\ res.ok
                    /\ Update(c, [cl EXCEPT !.doc = res.doc, !.known = known])
                    /\ UNCHANGED up
                 \/ /\ f.by # c /\ ~res.ok
                    /\ RequestSync(c, [cl EXCEPT !.doc = res.doc])
    /\ UNCHANGED <<room, nextGen, event, other, session, edits, drops, past>>

\* The identifiers an acknowledgement confirms.  Mutant: all that is pending.
ConfirmsAll(cl, seq) == {cl.pending[i].id : i \in DOMAIN cl.pending}

Confirms(cl, seq) == UNION {b.ids : b \in {b \in cl.sent : b.seq = seq}}

\* handleAck
ReceiveAck(c) ==
    /\ Receiving(c, "ack")
    /\ Received(c)
    /\ LET m == Head(down[c])
           cl == client[c]
           pending == Without(cl.pending, Confirms(cl, m.seq))
           next == [cl EXCEPT !.pending = pending,
                              !.sent = {b \in @ : b.seq # m.seq}]
       IN  Update(c, IF ~m.ok THEN next
                     ELSE [next EXCEPT
                             !.known = [exists |-> @.exists \/ m.gen >= @.gen,
                                        gen |-> IF m.gen >= @.gen THEN m.gen ELSE @.gen,
                                        ver |-> IF m.ver = @.ver + 1 THEN m.ver ELSE @.ver]])
    /\ UNCHANGED <<room, nextGen, event, other, session, up, edits, drops, past>>

-----------------------------------------------------------------------------
Other == OtherWrite \/ OtherTouch \/ OtherLock \/ OtherNote \/ OtherDelete \/ OtherForget \/ Expire
MainLoop(c) == MainPeek(c) \/ MainCompose(c) \/ MainSend(c)
ReadLoop(c) ==
    \/ ReadOps(c) \/ ReadAck(c) \/ ReadNote(c)
    \/ ReadReject(c) \/ ReadSync(c) \/ ReadPeek(c) \/ ReadReply(c)
Receive(c) == ReceiveState(c) \/ ReceiveOps(c) \/ ReceiveAck(c)

Next ==
    \/ Other \/ Restart
    \/ \E c \in Client :
        \/ Type(c) \/ Flush(c) \/ AskAgain(c)
        \/ MainLoop(c) \/ ReadLoop(c) \/ Receive(c)
        \/ Connect(c) \/ Disconnect(c)

\* Each session's main loop is a goroutine woken by the presence ticker at the
\* latest; a browser handles the messages that have arrived and reconnects.
Spec ==
    /\ Init /\ [][Next]_vars
    /\ \A c \in Client :
        WF_vars(MainLoop(c)) /\ WF_vars(ReadLoop(c)) /\ WF_vars(Receive(c)) /\ WF_vars(Connect(c))

-----------------------------------------------------------------------------
(* Properties *)

Id == [site : Int, clock : Nat]
Item == [id : Id, after : Id, ch : Nat]
Doc == {d \in SUBSET Item : IsFiniteSet(d)}
RoomType == [exists : BOOLEAN, gen : Nat, ver : Nat, doc : Doc]
By == Client \cup {OtherSite, None}
EventType == [gen : Nat, ver : Nat, by : By, ops : Seq(Item)]

StateType == [type : {"state"}, room : RoomType]
OpsType == [type : {"ops"}, gen : Nat, ver : Nat, by : By, ops : Seq(Item)]
AckType == [type : {"ack"}, seq : Nat, ok : BOOLEAN, gen : Nat, ver : Nat]
DownType == StateType \cup OpsType \cup AckType
UpType == [type : {"ops"}, ops : Seq(Item), seq : Nat] \cup [type : {"sync"}]

MainType ==
    [at : {"idle"}] \cup [at : {"compose"}, room : RoomType]
    \cup [at : {"send"}, room : RoomType, frame : StateType \cup OpsType]
ReadType ==
    [at : {"idle", "peek"}] \cup [at : {"ack"}, frame : AckType, ev : EventType]
    \cup [at : {"note"}, ev : EventType] \cup [at : {"reject"}, seq : Nat]
    \cup [at : {"reply"}, room : RoomType]
SessionType ==
    [force : BOOLEAN, last : [exists : BOOLEAN, gen : Int, ver : Int],
     main : MainType, read : ReadType]

ClientType ==
    [doc : Doc, known : [exists : BOOLEAN, gen : Nat, ver : Nat], pending : Seq(Item),
     sent : SUBSET [seq : Nat, ids : SUBSET Id], seq : Nat, asked : BOOLEAN]

TypeOK ==
    /\ room \in RoomType
    /\ nextGen \in Nat
    /\ event \in EventType \cup {None}
    /\ other \in [at : {"note"}, ev : EventType] \cup [at : {"forget"}] \cup {None}
    /\ session \in [Client -> SessionType \cup {None}]
    /\ up \in [Client -> Seq(UpType)]
    /\ down \in [Client -> Seq(DownType)]
    /\ client \in [Client -> ClientType]
    /\ edits \in Nat
    /\ drops \in Nat
    /\ past \subseteq RoomType

\* A client that has typed and sent nothing.
Watching(c) ==
    client[c].seq = 0 /\ client[c].pending = << >> /\ \A o \in client[c].doc : o.id.site # c

\* A client shows exactly the document the room had in the version it knows.
ShowsItsVersion(c) ==
    LET k == client[c].known
    IN  IF k.exists
        THEN [exists |-> TRUE, gen |-> k.gen, ver |-> k.ver, doc |-> client[c].doc] \in past
        ELSE client[c].doc = {}

\* One version of an incarnation has been two documents.
Forked(gen) ==
    \E r, q \in past : /\ r.exists /\ q.exists /\ r.gen = gen /\ q.gen = gen
                      /\ r.ver = q.ver /\ r.doc # q.doc

\* Who only watches shows the version it knows, whatever was coalesced, dropped
\* from a full queue, sent as operations or as a state, reconnected, deleted and
\* created again: an operations frame is never applied to any other version than
\* the one it was made for (enqueueRoomState, handleState, handleRemoteOps);
\* unless a crash took the room back and its versions were used a second time.
WatcherAgrees ==
    \A c \in Client :
        Watching(c) => ShowsItsVersion(c) \/ Forked(client[c].known.gen)

\* The same without exception: within one incarnation the version orders what a
\* client gets (app.js:2449), and no batch is applied that would make it diverge
\* (app.js:2617).
NeverDiverges == \A c \in Client : Watching(c) => ShowsItsVersion(c)

\* A version of an incarnation is one document, unless a crash loses snapshots.
OneDocumentPerVersion == Lossy \/ \A gen \in {r.gen : r \in past} : ~Forked(gen)

\* A confirmation, direct or by an echo of the client's own operations, makes a
\* client give up an operation only when the room has had it, or has refused
\* the batch (handleAck, the secondary path in handleRemoteOps).
ConfirmedStep ==
    \A c \in Client :
        \A i \in DOMAIN client[c].pending :
            LET o == client[c].pending[i]
                m == Head(down[c])
            IN  /\ ReceiveAck(c) \/ ReceiveOps(c)
                /\ \A j \in DOMAIN (client'[c].pending) : client'[c].pending[j].id # o.id
                => \/ \E r \in past : o.id \in Ids(r.doc)
                   \/ m.type = "ack" /\ ~m.ok

GivesUpOnlyConfirmed == [][ConfirmedStep]_vars

\* A crash took the room back behind what the client knows.
TakenBack(c) ==
    Lossy /\ (SnapshotIsStale(client[c].known, room) \/ Forked(client[c].known.gen))

\* Who only watches catches up with the room again and again, although a full
\* queue drops frames and wake-ups are coalesced.
WatcherCatchesUp ==
    \A c \in Client :
        []<>(Watching(c) => \/ /\ client[c].doc = room.doc
                               /\ client[c].known.exists = room.exists
                            \/ TakenBack(c))

=============================================================================
