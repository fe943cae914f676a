---------------------------- MODULE Connections ----------------------------
(***************************************************************************)
(* The lives of the websocket connections, internal/handler/handler.go:    *)
(* the limiter (wsConnLimiter), the three goroutines of a connection (main *)
(* loop, wsReadLoop, wsWriteLoop) with the channel between them, the       *)
(* broker's notifications, the table of cursors, and the teardown in the   *)
(* order of the deferred calls.                                            *)
(*                                                                         *)
(* Of the messages only what they do to the goroutines is kept: RoomSync   *)
(* has their contents.  All connections are to one room: rooms share       *)
(* nothing but the limiter.                                                *)
(***************************************************************************)
EXTENDS Integers, FiniteSets

CONSTANTS
    Conn,         \* the connections, each dialled again and again
    Client,       \* clientId values
    None,         \* no clientId
    Owner,        \* Owner[c]: the clientId of connection c, or None
    Address,      \* Address[c]: the IP address it comes from
    MaxGlobal, MaxPerIP,  \* maxWSConns, maxWSConnsPerIP
    QueueCap      \* capacity of the channel send

ASSUME ConnectionsAssumption ==
    /\ IsFiniteSet(Conn)
    /\ None \notin Client
    /\ Owner \in [Conn -> Client \cup {None}]
    /\ DOMAIN Address = Conn
    /\ {MaxGlobal, MaxPerIP, QueueCap} \subseteq Nat

VARIABLES
    limiter,  \* wsConnLimiter: [global, perIP]
    subs,     \* broker.subs: the connections subscribed to the room
    cursors,  \* cursorStore.data: the clients whose caret is in the table
    unseen,   \* for the properties: the connections that have not read the room
              \* since what it shows (document and carets) last changed
    other,    \* has another handler changed the room and not yet pinged?
    conn      \* conn[c]: the goroutines and channels of connection c

vars == <<limiter, subs, cursors, unseen, other, conn>>

\* The main loop is the handler's own goroutine: from the handshake to the loop,
\* and back through the deferred calls.
Starting == {"upgrade", "subscribe"}
Serving == {"look", "send", "loop"}
Closing == {"close", "joinRead", "joinWrite", "presence", "tell", "leave", "release"}

ConnType ==
    [main : {"away"} \cup Starting \cup Serving \cup Closing,
     reader : {"none", "top", "cursor", "ops", "ack", "ping", "request", "done"},
     writer : {"none", "running", "stopped", "done"},
     sock : {"open", "gone", "closed"},  \* gone: the peer is no longer there
     queue : 0 .. QueueCap,  \* how many messages the channel send holds
     shut : BOOLEAN,         \* is the channel send closed?
     bell : BOOLEAN]         \* is there a notification in the broker's channel?

Away == [main |-> "away", reader |-> "none", writer |-> "none", sock |-> "closed",
         queue |-> 0, shut |-> FALSE, bell |-> FALSE]

Init ==
    /\ limiter = [global |-> 0, perIP |-> [a \in {Address[c] : c \in Conn} |-> 0]]
    /\ subs = {}
    /\ cursors = {}
    /\ unseen = Conn
    /\ other = FALSE
    /\ conn = [c \in Conn |-> Away]

\* A send that is given up when the channel is full.
Enqueue(s) == IF s.queue < QueueCap THEN [s EXCEPT !.queue = @ + 1] ELSE s

\* broker.ping: a notification that is there already is not doubled.
Ping(cs) == [c \in Conn |-> IF c \in subs THEN [cs[c] EXCEPT !.bell = TRUE] ELSE cs[c]]

At(c, stage) == conn[c].main = stage

Goto(c, stage) == conn' = [conn EXCEPT ![c].main = stage]

-----------------------------------------------------------------------------
(* The limiter                                                             *)

\* acquire; a refused request leaves nothing.
Dial(c) ==
    LET a == Address[c]
    IN  /\ At(c, "away")
        /\ limiter.global < MaxGlobal /\ limiter.perIP[a] < MaxPerIP
        /\ limiter' = [limiter EXCEPT !.global = @ + 1, !.perIP[a] = @ + 1]
        /\ Goto(c, "upgrade")
        /\ UNCHANGED <<subs, cursors, unseen, other>>

\* release, which cuts both counters at zero.
Released(a) ==
    [limiter EXCEPT !.global = IF @ = 0 THEN 0 ELSE @ - 1,
                    !.perIP[a] = IF @ = 0 THEN 0 ELSE @ - 1]

Release(c) ==
    /\ limiter' = Released(Address[c])
    /\ conn' = [conn EXCEPT ![c] = Away]
    /\ UNCHANGED <<subs, cursors, unseen, other>>

\* Mutant: the release is deferred only after the upgrade.
UpgradeFailsHeld(c) ==
    /\ At(c, "upgrade")
    /\ conn' = [conn EXCEPT ![c] = Away]
    /\ UNCHANGED <<limiter, subs, cursors, unseen, other>>

UpgradeFails(c) == At(c, "upgrade") /\ Release(c)

Upgrade(c) ==
    /\ At(c, "upgrade")
    /\ conn' = [conn EXCEPT ![c].main = "subscribe", ![c].sock = "open"]
    /\ UNCHANGED <<limiter, subs, cursors, unseen, other>>

-----------------------------------------------------------------------------
(* The main loop                                                           *)

\* broker.subscribe, then the writer; the first snapshot comes after.
Subscribe(c) ==
    /\ At(c, "subscribe")
    /\ subs' = subs \cup {c}
    /\ conn' = [conn EXCEPT ![c].main = "look", ![c].writer = "running"]
    /\ UNCHANGED <<limiter, cursors, unseen, other>>

\* enqueueRoomState reads the room ...
Look(c) ==
    /\ At(c, "look")
    /\ unseen' = unseen \ {c}
    /\ Goto(c, "send")
    /\ UNCHANGED <<limiter, subs, cursors, other>>

\* Mutant: the notification is taken only when the room has been looked at.
SendThenTake(c) ==
    /\ At(c, "send")
    /\ conn' = [conn EXCEPT ![c] =
                  [Enqueue(@) EXCEPT !.main = "loop", !.bell = FALSE,
                                     !.reader = IF @ = "none" THEN "top" ELSE @]]
    /\ UNCHANGED <<limiter, subs, cursors, unseen, other>>

\* ... and sends what it has to, if anything (one message stands for up to three);
\* getCursors drops carets that have not moved for long.  After the first snapshot
\* the reader starts.
Send(c) ==
    /\ At(c, "send")
    /\ \E sending \in {Enqueue(conn[c]), conn[c]} :
          conn' = [conn EXCEPT ![c] =
                     [sending EXCEPT !.main = "loop",
                                     !.reader = IF @ = "none" THEN "top" ELSE @]]
    /\ cursors' \in SUBSET cursors
    /\ UNCHANGED <<limiter, subs, unseen, other>>

Wake(c) ==
    /\ At(c, "loop")
    /\ conn[c].bell
    /\ conn' = [conn EXCEPT ![c].main = "look", ![c].bell = FALSE]
    /\ UNCHANGED <<limiter, subs, cursors, unseen, other>>

\* The presence ticker, or an authentication (authedCh).
Tick(c) ==
    /\ At(c, "loop")
    /\ Goto(c, "look")
    /\ UNCHANGED <<limiter, subs, cursors, unseen, other>>

KeepAlive(c) ==
    /\ At(c, "loop")
    /\ conn' = [conn EXCEPT ![c] = Enqueue(@)]
    /\ UNCHANGED <<limiter, subs, cursors, unseen, other>>

Stop(c) ==
    /\ At(c, "loop")
    /\ conn[c].reader = "done" \/ conn[c].writer = "done"
    /\ Goto(c, "close")
    /\ UNCHANGED <<limiter, subs, cursors, unseen, other>>

\* The request's context ends.
Cancelled(c) ==
    /\ At(c, "loop")
    /\ Goto(c, "close")
    /\ UNCHANGED <<limiter, subs, cursors, unseen, other>>

-----------------------------------------------------------------------------
(* The deferred calls, last first                                          *)

CloseConn(c) ==
    /\ At(c, "close")
    /\ conn' = [conn EXCEPT ![c].main = "joinRead", ![c].sock = "closed"]
    /\ UNCHANGED <<limiter, subs, cursors, unseen, other>>

\* Mutant: the channel is closed without waiting for the reader.
CloseSendAtOnce(c) ==
    /\ At(c, "joinRead")
    /\ conn' = [conn EXCEPT ![c].main = "joinWrite", ![c].shut = TRUE]
    /\ UNCHANGED <<limiter, subs, cursors, unseen, other>>

CloseSend(c) ==
    /\ At(c, "joinRead")
    /\ conn[c].reader = "done"
    /\ conn' = [conn EXCEPT ![c].main = "joinWrite", ![c].shut = TRUE]
    /\ UNCHANGED <<limiter, subs, cursors, unseen, other>>

JoinWriter(c) ==
    /\ At(c, "joinWrite")
    /\ conn[c].writer = "done"
    /\ Goto(c, IF Owner[c] = None THEN "leave" ELSE "presence")
    /\ UNCHANGED <<limiter, subs, cursors, unseen, other>>

\* cursors.remove, which asks nobody whether the client has connected again.
RemovePresence(c) ==
    /\ At(c, "presence")
    /\ cursors' = cursors \ {Owner[c]}
    /\ unseen' = IF Owner[c] \in cursors THEN Conn ELSE unseen
    /\ Goto(c, "tell")
    /\ UNCHANGED <<limiter, subs, other>>

Tell(c) ==
    /\ At(c, "tell")
    /\ conn' = [Ping(conn) EXCEPT ![c].main = "leave"]
    /\ UNCHANGED <<limiter, subs, cursors, unseen, other>>

Leave(c) ==
    /\ At(c, "leave")
    /\ subs' = subs \ {c}
    /\ Goto(c, "release")
    /\ UNCHANGED <<limiter, cursors, unseen, other>>

End(c) == At(c, "release") /\ Release(c)

-----------------------------------------------------------------------------
(* wsReadLoop                                                              *)

\* What changes the room is taken only from a client with a clientId.
Moving(c) == IF Owner[c] # None THEN {"cursor", "ops"} ELSE {}

\* ReadJSON returns a message; it is dealt with even if the socket closes now.
ReadMessage(c) ==
    /\ conn[c].reader = "top" /\ conn[c].sock = "open"
    /\ \E kind \in {"request"} \cup Moving(c) : conn' = [conn EXCEPT ![c].reader = kind]
    /\ UNCHANGED <<limiter, subs, cursors, unseen, other>>

\* A cursor message: the table, then the ping.
ReaderMoves(c) ==
    /\ conn[c].reader = "cursor"
    /\ cursors' = cursors \cup {Owner[c]}
    /\ unseen' = Conn
    /\ conn' = [conn EXCEPT ![c].reader = "ping"]
    /\ UNCHANGED <<limiter, subs, other>>

\* Operations that are applied: the store, the acknowledgement, the ping.
ReaderApplies(c) ==
    /\ conn[c].reader = "ops"
    /\ unseen' = Conn
    /\ conn' = [conn EXCEPT ![c].reader = "ack"]
    /\ UNCHANGED <<limiter, subs, cursors, other>>

ReaderAcks(c) ==
    /\ conn[c].reader = "ack"
    /\ conn' = [conn EXCEPT ![c] = [Enqueue(@) EXCEPT !.reader = "ping"]]
    /\ UNCHANGED <<limiter, subs, cursors, unseen, other>>

\* What is only answered (sync, operations that are rejected), or passed over.
ReaderReplies(c) ==
    /\ conn[c].reader = "request"
    /\ \E answered \in {Enqueue(conn[c]), conn[c]} :
          conn' = [conn EXCEPT ![c] = [answered EXCEPT !.reader = "top"]]
    /\ UNCHANGED <<limiter, subs, cursors, unseen, other>>

ReaderPings(c) ==
    /\ conn[c].reader = "ping"
    /\ conn' = [Ping(conn) EXCEPT ![c].reader = "top"]
    /\ UNCHANGED <<limiter, subs, cursors, unseen, other>>

\* The peer has closed, sends no pongs until the deadline, or the socket is closed.
ReadFails(c) ==
    /\ conn[c].reader = "top"
    /\ conn[c].sock # "open"
    /\ conn' = [conn EXCEPT ![c].reader = "done"]
    /\ UNCHANGED <<limiter, subs, cursors, unseen, other>>

\* tokenBucket.allow refuses.
BudgetSpent(c) ==
    /\ conn[c].reader = "top"
    /\ conn' = [conn EXCEPT ![c].reader = "done"]
    /\ UNCHANGED <<limiter, subs, cursors, unseen, other>>

-----------------------------------------------------------------------------
(* wsWriteLoop                                                             *)

Write(c) ==
    /\ conn[c].writer = "running" /\ conn[c].queue > 0 /\ conn[c].sock # "closed"
    /\ conn' = [conn EXCEPT ![c].queue = @ - 1]
    /\ UNCHANGED <<limiter, subs, cursors, unseen, other>>

\* The peer has gone or is too slow for the deadline, or the socket is closed.
WriteFails(c) ==
    /\ conn[c].writer = "running" /\ conn[c].queue > 0
    /\ conn' = [conn EXCEPT ![c].queue = @ - 1, ![c].writer = "stopped"]
    /\ UNCHANGED <<limiter, subs, cursors, unseen, other>>

Drained(c) ==
    /\ conn[c].writer = "running" /\ conn[c].queue = 0 /\ conn[c].shut
    /\ conn' = [conn EXCEPT ![c].writer = "stopped"]
    /\ UNCHANGED <<limiter, subs, cursors, unseen, other>>

WriterDone(c) ==
    /\ conn[c].writer = "stopped"
    /\ conn' = [conn EXCEPT ![c].sock = "closed", ![c].writer = "done"]
    /\ UNCHANGED <<limiter, subs, cursors, unseen, other>>

-----------------------------------------------------------------------------
(* The world outside                                                       *)

PeerGone(c) ==
    /\ conn[c].sock = "open"
    /\ conn' = [conn EXCEPT ![c].sock = "gone"]
    /\ UNCHANGED <<limiter, subs, cursors, unseen, other>>

\* REST handlers and sweeps: the store, then the ping; one at a time.
OtherChange ==
    /\ ~other
    /\ unseen' = Conn
    /\ other' = TRUE
    /\ UNCHANGED <<limiter, subs, cursors, conn>>

OtherPing ==
    /\ other
    /\ other' = FALSE
    /\ conn' = Ping(conn)
    /\ UNCHANGED <<limiter, subs, cursors, unseen>>

-----------------------------------------------------------------------------
MainStep(c) ==
    \/ UpgradeFails(c) \/ Upgrade(c) \/ Subscribe(c) \/ Look(c) \/ Send(c)
    \/ CloseConn(c) \/ CloseSend(c) \/ JoinWriter(c)
    \/ RemovePresence(c) \/ Tell(c) \/ Leave(c) \/ End(c)

ReaderStep(c) ==
    \/ ReaderMoves(c) \/ ReaderApplies(c) \/ ReaderAcks(c) \/ ReaderReplies(c)
    \/ ReaderPings(c) \/ ReadFails(c)

WriterStep(c) == Write(c) \/ WriteFails(c) \/ Drained(c) \/ WriterDone(c)

Next ==
    \/ \E c \in Conn :
          \/ MainStep(c) \/ ReaderStep(c) \/ WriterStep(c)
          \/ Dial(c) \/ Wake(c) \/ Tick(c) \/ KeepAlive(c) \/ Stop(c) \/ Cancelled(c)
          \/ ReadMessage(c) \/ BudgetSpent(c)
          \/ PeerGone(c)
    \/ OtherChange \/ OtherPing

Spec == Init /\ [][Next]_vars

-----------------------------------------------------------------------------
(* Properties *)

TypeOK ==
    /\ limiter \in [global : Nat, perIP : [{Address[c] : c \in Conn} -> Nat]]
    /\ subs \subseteq Conn
    /\ cursors \subseteq Client
    /\ unseen \subseteq Conn
    /\ other \in BOOLEAN
    /\ conn \in [Conn -> ConnType]

Holders == {c \in Conn : conn[c].main # "away"}

HoldersAt(a) == {c \in Holders : Address[c] = a}

\* The limiter's counters are the connections that there are, in total and from
\* each address, on whichever path each of them ends, and neither cap is passed
\* (wsConnLimiter: callers must release exactly once).
SlotsCounted ==
    /\ limiter.global = Cardinality(Holders) /\ limiter.global <= MaxGlobal
    /\ \A a \in DOMAIN limiter.perIP :
          limiter.perIP[a] = Cardinality(HoldersAt(a)) /\ limiter.perIP[a] <= MaxPerIP

\* Nobody is about to send on a channel that has been closed, in whatever order
\* the three goroutines find out that the connection ends (handler.go:988-991:
\* the producers are stopped before send is closed).
NoSendOnClosed ==
    \A c \in Conn : conn[c].shut =>
        /\ conn[c].reader \notin {"ack", "request"}
        /\ conn[c].main \notin Serving

\* A caret in the table belongs to a client that still has a connection whose
\* teardown has not yet removed it: no reader puts it back behind the removal.
NoGhostCursor ==
    \A w \in cursors : \E c \in Conn :
        /\ Owner[c] = w
        /\ conn[c].main \in Serving \cup {"close", "joinRead", "joinWrite", "presence"}

\* Somebody has changed what is shown and has yet to ping.
Unannounced ==
    \/ other
    \/ \E c \in Conn : conn[c].reader \in {"ack", "ping"} \/ conn[c].main = "tell"

\* A connection that has not seen the latest change has a notification waiting,
\* or one on its way: whatever is changed during its first snapshot, while it is
\* at work on an earlier notification, or when one is already in the channel.
NothingUnnoticed ==
    \A c \in unseen : conn[c].main \in {"send", "loop"} => conn[c].bell \/ Unannounced

=============================================================================
