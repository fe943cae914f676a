----------------------------- MODULE EditorRest -----------------------------
(***************************************************************************)
(* The editor of one browser when its websocket cannot be relied on: the   *)
(* reconnection, the first load, the poll and the conditional PUT of       *)
(* static/app.js, which replace text by text, beside the operations that   *)
(* Editor models.                                                          *)
(*                                                                         *)
(* A request is asked, served and answered in three steps, and may be lost *)
(* before or after it is served.  Of a kind of read at most one is on its  *)
(* way.  A password that is asked for (403) and a refusal for the rate     *)
(* (429) are failed requests here.  The room is not deleted: incarnations  *)
(* are RoomSync's; compositions, undo and carets are Editor's.             *)
(***************************************************************************)
EXTENDS Editor

CONSTANTS
    MaxFails,   \* bound: requests lost
    MaxPolls,   \* bound: polls
    MaxChases   \* bound: PUTs sent while the socket is open

VARIABLE
    rest   \* the timers and requests of the page: see Start

restVars == <<vars, rest>>

Reads == {"load", "poll"}
Asked == [asked |-> TRUE]

-----------------------------------------------------------------------------
(* What the page does with a text.  A page is its editor and whether a PUT  *)
(* is scheduled (putFallbackTimer).                                         *)

Page == [ed |-> ed, armed |-> rest.armed]

\* The document is rebuilt, and with it the identifiers; nothing is pending.
\* Mutant: the version that came with the text is not noted.
RebuiltAtOldVersion(e, site, text, r, synced) ==
    LET doc == BuildFromString(site, text)
    IN  [e EXCEPT !.doc = doc, !.clock = MaxClock(doc),
                  !.known = [exists |-> r.exists, gen |-> r.gen, ver |-> Larger(1, @.ver)],
                  !.synced = synced, !.pending = << >>, !.flying = {}]

Rebuilt(e, site, text, r, synced) ==
    LET doc == BuildFromString(site, text)
    IN  [e EXCEPT !.doc = doc, !.clock = MaxClock(doc),
                  !.known = [exists |-> r.exists, gen |-> r.gen, ver |-> r.ver],
                  !.synced = synced, !.pending = << >>, !.flying = {}, !.torn = FALSE]

\* setContentValue with the old index of the caret (useAnchor is off).
ShowAt(e, text) ==
    IF e.value = text THEN e
    ELSE [e EXCEPT !.value = text, !.caret = Clamp(@, Len(text))]

\* mergeServerState: both sides' changes since the text they last agreed on.
\* Mutant: the last write wins.
MergedTheirs(base, mine, theirs) == theirs

MergedText(base, mine, theirs) ==
    IF mine \in {base, theirs} THEN theirs
    ELSE IF theirs = base THEN mine
    ELSE Merge3(base, mine, theirs)

\* Mutant: the result is shown and not put.
MergedAndDone(p, r) ==
    LET merged == MergedText(p.ed.synced, p.ed.value, r.text)
    IN  [p EXCEPT !.ed = [ShowAt(Rebuilt(@, Me, merged, r, r.text), merged) EXCEPT !.painted = TRUE]]

Merged(p, r) ==
    LET merged == MergedText(p.ed.synced, p.ed.value, r.text)
        next == ShowAt(Rebuilt(p.ed, Me, merged, r, r.text), merged)
    IN  [ed |-> [next EXCEPT !.painted = TRUE], armed |-> p.armed \/ merged # r.text]

\* restSnapshotIsStale
RestSnapshotIsStale(known, r) ==
    \/ SnapshotIsStale(known, r)
    \/ r.gen = known.gen /\ r.exists /\ (known.exists => r.ver <= known.ver)

\* applyLoadedSnapshot: a load is dropped if the socket will bring the state,
\* unless nothing has been painted or typed yet, or if something is pending.
LoadDropped(e, r) ==
    LET early == ~e.painted /\ e.pending = << >> /\ e.value \in {<< >>, e.synced}
    IN  \/ ~early /\ (rest.dialing \/ Open)
        \/ e.pending # << >>
        \/ Open /\ RestSnapshotIsStale(e.known, r)

Loaded(e, r) ==
    LET next == ShowAt(Rebuilt(e, Rest, r.text, r, r.text), r.text)
    IN  IF LoadDropped(e, r) THEN e
        ELSE [next EXCEPT !.painted = TRUE, !.astray = @ \/ e.value # e.synced]

\* putReplace, the save accepted: what was typed meanwhile is put next.
\* Mutant: it is not.
PutDoneOnce(p, put) ==
    [p EXCEPT !.ed = Rebuilt(p.ed, Me, put.text, put.reply, put.text)]

PutDone(p, put) ==
    [ed |-> Rebuilt(p.ed, Me, put.text, put.reply, put.text),
     armed |-> p.armed \/ p.ed.value # put.text]

-----------------------------------------------------------------------------
\* The page opens: it dials, and loads once.
Start ==
    [dialing |-> TRUE, tries |-> 0, poll |-> FALSE, flush |-> FALSE, armed |-> FALSE,
     putInFlight |-> FALSE, put |-> None,
     get |-> [k \in Reads |-> IF k = "load" THEN Asked ELSE None],
     fails |-> 0, polls |-> 0, chases |-> 0]

InitRest == Init /\ rest = Start

\* What the user does to the editor is Editor's; a change schedules a flush.
UserRest ==
    /\ Type \/ Erase
    /\ rest' = [rest EXCEPT !.flush = @ \/ ed'.pending # ed.pending]

-----------------------------------------------------------------------------
(* The connection: connectWS, scheduleReconnect                             *)

Same == UNCHANGED <<room, event, session, wire, trail, count, owed>>

Redial ==
    /\ ~Open /\ ~rest.dialing
    /\ rest' = [rest EXCEPT !.dialing = TRUE]
    /\ ed' = ed /\ Same

\* Two failures in a row start the poll.
Failed(tries) ==
    rest' = [rest EXCEPT !.dialing = FALSE, !.tries = Clamp(tries, 2),
                         !.poll = @ \/ tries >= 2]

DialFails ==
    /\ rest.dialing
    /\ Failed(rest.tries + 1)
    /\ ed' = ed /\ Same

DialSucceeds ==
    /\ rest.dialing
    /\ Connect
    /\ rest' = [rest EXCEPT !.dialing = FALSE, !.tries = 0, !.poll = FALSE]

Drop == Disconnect /\ Failed(1)

Socket ==
    \/ (Push \/ Answer) /\ rest' = rest
    \/ (FlushAccepted \/ FlushRefused) /\ rest' = [rest EXCEPT !.flush = FALSE]

\* For the properties the page is astray once the socket is back and brings a
\* text or operations while a PUT is still due.
ReceiveRest ==
    /\ wire # << >> /\ wire' = Tail(wire)
    /\ LET both == Head(wire).type # "ack" /\ (rest.armed \/ rest.putInFlight)
       IN  \E join \in BOOLEAN :
             ed' = Handle([ed EXCEPT !.astray = @ \/ both], Head(wire), join)
    /\ rest' = [rest EXCEPT !.flush = @ \/ ed'.pending # << >>]
    /\ UNCHANGED <<room, event, session, trail, count, owed>>

\* flushPending without a socket: the operations wait for a quick reconnection,
\* and are put only once the websocket looks unusable.
FlushOffline ==
    /\ rest.flush /\ ~Open
    /\ rest' = [rest EXCEPT !.flush = FALSE, !.armed = @ \/ rest.tries >= 2]
    /\ ed' = ed /\ Same

-----------------------------------------------------------------------------
(* Reads                                                                    *)

Reading == [exists |-> room.exists, gen |-> room.gen, ver |-> room.ver,
            text |-> Materialize(room.doc)]

\* startRestPoll's interval
Poll ==
    /\ rest.poll /\ ~Open /\ ~rest.putInFlight /\ rest.get["poll"] = None /\ rest.polls < MaxPolls
    /\ rest' = [rest EXCEPT !.get["poll"] = Asked, !.polls = @ + 1]
    /\ ed' = ed /\ Same

ReadServed ==
    /\ \E k \in Reads : rest.get[k] = Asked /\ rest' = [rest EXCEPT !.get[k] = Reading]
    /\ ed' = ed /\ Same

\* A load that fails takes its overlay away.
ReadFails ==
    /\ rest.fails < MaxFails
    /\ \E k \in Reads :
        /\ rest.get[k] = Asked
        /\ rest' = [rest EXCEPT !.get[k] = None, !.fails = @ + 1]
        /\ ed' = [ed EXCEPT !.painted = @ \/ (k = "load" /\ ~Open)]
    /\ Same

LoadAnswered ==
    /\ rest.get["load"] \notin {None, Asked}
    /\ ed' = Loaded(ed, rest.get["load"])
    /\ rest' = [rest EXCEPT !.get["load"] = None]
    /\ Same

\* The poll's answer is of use only while nothing else is going on.
PollAnswered ==
    /\ rest.get["poll"] \notin {None, Asked}
    /\ LET r == rest.get["poll"]
           news == r.gen # ed.known.gen \/ r.exists # ed.known.exists
                   \/ (r.exists /\ r.ver # ed.known.ver)
           p == IF news /\ ~Open /\ ~rest.putInFlight THEN Merged(Page, r) ELSE Page
       IN  /\ ed' = p.ed
           /\ rest' = [rest EXCEPT !.get["poll"] = None, !.armed = p.armed]
    /\ Same

-----------------------------------------------------------------------------
(* The conditional PUT                                                      *)

\* What the document and the last synchronised text say the room held.
Knew(e) == {e.doc.items[id].ch : id \in Known(e.doc)} \cup Chars(e.synced)

\* schedulePutFallback's timer, putReplace
PutSent ==
    /\ rest.armed /\ ~rest.putInFlight /\ (Open => rest.chases < MaxChases)
    /\ rest' = [rest EXCEPT !.armed = FALSE, !.putInFlight = TRUE,
                            !.chases = IF Open THEN @ + 1 ELSE @,
                            !.put = [text |-> ed.value, base |-> ed.known.ver,
                                     knew |-> Knew(ed), reply |-> None, conflict |-> FALSE]]
    /\ ed' = ed /\ Same

\* SaveWithBase: a base must be the version of the room.
\* Mutant: the base is not compared.
NeverConflicts(base) == FALSE

Conflicts(base) == base > 0 /\ (~room.exists \/ room.ver # base)

PutAccepted ==
    /\ rest.putInFlight /\ rest.put.reply = None /\ ~Conflicts(rest.put.base) /\ Writable
    /\ IF room.exists /\ Materialize(room.doc) = rest.put.text THEN UNCHANGED <<room, event>>
       ELSE Write(BuildFromString(Me, rest.put.text), Me, << >>)
    /\ rest' = [rest EXCEPT !.put.reply = [exists |-> TRUE, gen |-> room'.gen, ver |-> room'.ver,
                                           text |-> rest.put.text]]
    /\ owed' = owed \ Chars(rest.put.text)
    /\ UNCHANGED <<session, wire, ed, trail, count>>

PutConflicts ==
    /\ rest.putInFlight /\ rest.put.reply = None /\ Conflicts(rest.put.base)
    /\ rest' = [rest EXCEPT !.put.reply = Reading, !.put.conflict = TRUE]
    /\ ed' = ed /\ Same

\* The request or its answer is lost: it is put again, with the same base.
PutFails ==
    /\ rest.putInFlight /\ rest.fails < MaxFails
    /\ rest' = [rest EXCEPT !.putInFlight = FALSE, !.put = None, !.armed = TRUE, !.fails = @ + 1]
    /\ ed' = ed /\ Same

PutAnswered ==
    /\ rest.putInFlight /\ rest.put.reply # None
    /\ LET p == IF rest.put.conflict THEN Merged(Page, rest.put.reply) ELSE PutDone(Page, rest.put)
       IN  /\ ed' = p.ed
           /\ rest' = [rest EXCEPT !.putInFlight = FALSE, !.put = None, !.armed = p.armed]
    /\ Same

OthersRest == PeerEdit /\ rest' = rest

NextRest ==
    \/ UserRest
    \/ Redial \/ DialFails \/ DialSucceeds \/ Drop \/ Socket \/ ReceiveRest \/ FlushOffline
    \/ Poll \/ ReadServed \/ ReadFails \/ LoadAnswered \/ PollAnswered
    \/ PutSent \/ PutAccepted \/ PutConflicts \/ PutFails \/ PutAnswered
    \/ OthersRest

SpecRest == InitRest /\ [][NextRest]_restVars

-----------------------------------------------------------------------------
(* Properties *)

\* What is shown and not in the document is about to be put (putReplace: "User
\* kept typing while the PUT was in flight"), or is a draft of the browser beside a
\* document that is still empty, or the socket has brought operations that did not
\* fit.
ShownOrPut ==
    ed.painted =>
        \/ ed.value = Text(ed) \/ (ed.value \in Drafts /\ Text(ed) = << >>)
        \/ rest.armed \/ rest.putInFlight \/ ed.torn

\* Nothing the user typed disappears before the room has had it, whatever loads, polls,
\* conflicts and failures come between.
NothingTypedIsLostOffline == ed.astray \/ owed \subseteq Chars(ed.value)

\* A PUT with a base takes from the room only characters that the page knew to be
\* in it ("merge ... instead of last-write-wins", app.js:3195-3196).
PutReplacesWhatItKnew ==
    [][PutAccepted /\ rest.put.base > 0 /\ ~ed.astray =>
         Chars(Materialize(room.doc)) \ Chars(rest.put.text) \subseteq rest.put.knew]_restVars

\* When nothing is on its way and nothing is left to do, a page that believes to
\* know the version of the room shows its text.
OfflineAgrees ==
    /\ ~Open /\ ed.pending = << >> /\ ~rest.armed /\ ~rest.putInFlight
    /\ \A k \in Reads : rest.get[k] = None
    /\ room.exists /\ ed.known = Pair(room) /\ ~ed.astray
    => ed.value = Materialize(room.doc)

\* The timer of a PUT fires, the server serves it and the answer is handled: no
\* stage of a save lasts for ever (weak fairness of PutSent, PutAccepted or
\* PutConflicts, and PutAnswered, each of which stays enabled until it is taken).
Timely ==
    /\ []<>~(rest.armed /\ ~rest.putInFlight)
    /\ []<>~(rest.putInFlight /\ rest.put.reply = None)
    /\ []<>~(rest.putInFlight /\ rest.put.reply # None)

\* Then, if the socket stays away, a save that is due comes to an end: requests
\* that fail are repeated, and conflicts merged and put again (putReplace).
SavesEnd ==
    Timely /\ <>[]~Open => (rest.armed ~> ~rest.armed /\ ~rest.putInFlight)
=============================================================================
