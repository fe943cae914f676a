------------------------- MODULE Connections_proofs -------------------------
(***************************************************************************)
(* Proofs, for any number of connections, addresses and clients, of the    *)
(* safety properties of module Connections.                                *)
(***************************************************************************)
EXTENDS Connections, FiniteSetTheorems, TLAPS

\* What the goroutines know of each other.
StagesInv ==
    \A c \in Conn :
        /\ c \in subs <=> conn[c].main \in Serving \cup (Closing \ {"release"})
        /\ conn[c].reader = "none" =>
              conn[c].main \in {"away", "look", "send"} \cup Starting
        /\ conn[c].main \in {"away"} \cup Starting => conn[c].reader = "none"
        /\ conn[c].main \in Closing \ {"close", "joinRead"} => conn[c].reader = "done"
        /\ conn[c].shut => conn[c].main \in Closing \ {"close", "joinRead"}
        /\ conn[c].reader \in {"cursor", "ops"} => Owner[c] # None

IInv == TypeOK /\ SlotsCounted /\ StagesInv /\ NoGhostCursor /\ NothingUnnoticed

-----------------------------------------------------------------------------
(* Steps that only move one connection                                     *)

\* The actions of connection c but for those that dial, release or ping.
Quiet(c) ==
    \/ Upgrade(c) \/ Subscribe(c) \/ Look(c) \/ Send(c) \/ Wake(c) \/ Tick(c)
    \/ KeepAlive(c) \/ Stop(c) \/ Cancelled(c)
    \/ CloseConn(c) \/ CloseSend(c) \/ JoinWriter(c) \/ RemovePresence(c) \/ Leave(c)
    \/ ReadMessage(c) \/ ReaderMoves(c) \/ ReaderApplies(c) \/ ReaderAcks(c)
    \/ ReaderReplies(c) \/ ReadFails(c) \/ BudgetSpent(c)
    \/ Write(c) \/ WriteFails(c) \/ Drained(c) \/ WriterDone(c) \/ PeerGone(c)

\* A message is added to a record's queue, or given up.
LEMMA EnqueueType ==
    ASSUME NEW s \in ConnType
    PROVE  /\ Enqueue(s) \in ConnType
           /\ Enqueue(s).main = s.main /\ Enqueue(s).reader = s.reader
           /\ Enqueue(s).shut = s.shut /\ Enqueue(s).bell = s.bell
<1>1. QueueCap \in Nat
  BY ConnectionsAssumption
<1>2. QED BY <1>1 DEF Enqueue, ConnType

LEMMA QuietShape ==
    ASSUME TypeOK, NEW c \in Conn, Quiet(c)
    PROVE  /\ conn'[c] \in ConnType
           /\ conn' = [conn EXCEPT ![c] = conn'[c]]
           /\ limiter' = limiter
<1>1. conn \in [Conn -> ConnType] /\ conn[c] \in ConnType /\ QueueCap \in Nat
  BY ConnectionsAssumption DEF TypeOK
<1>2. CASE Upgrade(c) \/ Subscribe(c) \/ Look(c) \/ Wake(c) \/ Tick(c)
  BY <1>1, <1>2 DEF Upgrade, Subscribe, Look, Wake, Tick, At, Goto, ConnType, Starting, Serving
<1>3. CASE Stop(c) \/ Cancelled(c) \/ CloseConn(c) \/ CloseSend(c) \/ JoinWriter(c)
              \/ RemovePresence(c) \/ Leave(c)
  <2>1. CASE Stop(c) \/ Cancelled(c) \/ RemovePresence(c) \/ Leave(c)
    BY <1>1, <2>1 DEF Stop, Cancelled, RemovePresence, Leave, At, Goto, ConnType, Closing
  <2>2. CASE CloseConn(c) \/ CloseSend(c)
    BY <1>1, <2>2 DEF CloseConn, CloseSend, At, ConnType, Closing
  <2>3. CASE JoinWriter(c)
    <3>1. (IF Owner[c] = None THEN "leave" ELSE "presence") \in Closing
      BY DEF Closing
    <3>2. QED BY <1>1, <2>3, <3>1 DEF JoinWriter, Goto, ConnType
  <2>4. QED BY <1>3, <2>1, <2>2, <2>3
<1>4. CASE ReadMessage(c) \/ ReaderMoves(c) \/ ReaderApplies(c) \/ ReadFails(c) \/ BudgetSpent(c)
  BY <1>1, <1>4 DEF ReadMessage, Moving, ReaderMoves, ReaderApplies, ReadFails, BudgetSpent,
     ConnType
<1>5. CASE Write(c) \/ WriteFails(c) \/ Drained(c) \/ WriterDone(c) \/ PeerGone(c)
  BY <1>1, <1>5 DEF Write, WriteFails, Drained, WriterDone, PeerGone, ConnType
<1>6. CASE KeepAlive(c) \/ ReaderAcks(c) \/ ReaderReplies(c) \/ Send(c)
  <2>1. Enqueue(conn[c]) \in ConnType
    BY <1>1, EnqueueType
  <2>2. CASE KeepAlive(c)
    BY <1>1, <2>1, <2>2 DEF KeepAlive
  <2>3. CASE ReaderAcks(c) \/ ReaderReplies(c)
    BY <1>1, <2>1, <2>3 DEF ReaderAcks, ReaderReplies, ConnType
  <2>4. CASE Send(c)
    <3>1. PICK sending \in {Enqueue(conn[c]), conn[c]} :
            conn' = [conn EXCEPT ![c] =
                       [sending EXCEPT !.main = "loop",
                                       !.reader = IF @ = "none" THEN "top" ELSE @]]
      BY <2>4 DEF Send
    <3>2. sending \in ConnType
      BY <1>1, <2>1, <3>1
    <3> DEFINE new == [sending EXCEPT !.main = "loop",
                                      !.reader = IF @ = "none" THEN "top" ELSE @]
    <3>3. new \in ConnType
      <4> DEFINE reader == IF sending.reader = "none" THEN "top" ELSE sending.reader
      <4>1. reader \in {"none", "top", "cursor", "ops", "ack", "ping", "request", "done"}
        BY <3>2 DEF ConnType
      <4>2. new = [sending EXCEPT !.main = "loop", !.reader = reader]
        OBVIOUS
      <4> HIDE DEF reader, new
      <4>3. QED BY <3>2, <4>1, <4>2 DEF ConnType, Serving
    <3> HIDE DEF new
    <3>4. conn' = [conn EXCEPT ![c] = new]
      BY <3>1 DEF new
    <3>5. limiter' = limiter
      BY <2>4 DEF Send
    <3>6. QED BY <1>1, <3>3, <3>4, <3>5
  <2>5. QED BY <1>6, <2>2, <2>3, <2>4
<1>7. QED BY <1>2, <1>3, <1>4, <1>5, <1>6 DEF Quiet

LEMMA QuietTypes ==
    ASSUME TypeOK, StagesInv, NEW c \in Conn, Quiet(c)
    PROVE  TypeOK'
<1>1. conn'[c] \in ConnType /\ conn' = [conn EXCEPT ![c] = conn'[c]] /\ limiter' = limiter
  BY QuietShape
<1>2. conn' \in [Conn -> ConnType]
  BY <1>1 DEF TypeOK
<1>3. Owner[c] \in Client \cup {None}
  BY ConnectionsAssumption
<1>4. /\ subs' \in {subs, subs \cup {c}, subs \ {c}}
      /\ unseen' \in {unseen, unseen \ {c}, Conn}
      /\ other' = other
  BY DEF Quiet, Upgrade, Subscribe, Look, Wake, Tick, Stop, Cancelled, CloseConn, CloseSend,
     JoinWriter, RemovePresence, Leave, ReadMessage, ReaderMoves, ReaderApplies, ReadFails,
     BudgetSpent, Write, WriteFails, Drained, WriterDone, PeerGone, KeepAlive, ReaderAcks,
     ReaderReplies, Send
<1>5. /\ cursors' \subseteq cursors \cup {Owner[c]}
      /\ ReaderMoves(c) \/ cursors' \subseteq cursors
  BY DEF Quiet, Upgrade, Subscribe, Look, Wake, Tick, Stop, Cancelled, CloseConn, CloseSend,
     JoinWriter, RemovePresence, Leave, ReadMessage, ReaderMoves, ReaderApplies, ReadFails,
     BudgetSpent, Write, WriteFails, Drained, WriterDone, PeerGone, KeepAlive, ReaderAcks,
     ReaderReplies, Send
<1>6. cursors' \subseteq Client
  <2>1. ReaderMoves(c) => Owner[c] # None
    BY DEF ReaderMoves, StagesInv
  <2>2. QED BY <1>3, <1>5, <2>1 DEF TypeOK
<1>7. QED BY <1>1, <1>2, <1>4, <1>6 DEF TypeOK

\* The stages of the connection that moves; the others stay.
LEMMA QuietStages ==
    ASSUME TypeOK, StagesInv, NEW c \in Conn, Quiet(c)
    PROVE  StagesInv'
<1>1. conn'[c] \in ConnType /\ conn' = [conn EXCEPT ![c] = conn'[c]]
  BY QuietShape
<1>2. conn \in [Conn -> ConnType] /\ conn[c] \in ConnType /\ QueueCap \in Nat
  BY ConnectionsAssumption DEF TypeOK
<1>3. ASSUME NEW d \in Conn, d # c PROVE conn'[d] = conn[d] /\ (d \in subs' <=> d \in subs)
  <2>1. subs' \in {subs, subs \cup {c}, subs \ {c}}
    BY DEF Quiet, Upgrade, Subscribe, Look, Wake, Tick, Stop, Cancelled, CloseConn, CloseSend,
       JoinWriter, RemovePresence, Leave, ReadMessage, ReaderMoves, ReaderApplies, ReadFails,
       BudgetSpent, Write, WriteFails, Drained, WriterDone, PeerGone, KeepAlive, ReaderAcks,
       ReaderReplies, Send
  <2>2. QED BY <1>1, <1>2, <1>3, <2>1
<1> DEFINE Fits(s, in) ==
        /\ in <=> s.main \in Serving \cup (Closing \ {"release"})
        /\ s.reader = "none" => s.main \in {"away", "look", "send"} \cup Starting
        /\ s.main \in {"away"} \cup Starting => s.reader = "none"
        /\ s.main \in Closing \ {"close", "joinRead"} => s.reader = "done"
        /\ s.shut => s.main \in Closing \ {"close", "joinRead"}
        /\ s.reader \in {"cursor", "ops"} => Owner[c] # None
<1>4. Fits(conn[c], c \in subs)
  BY DEF StagesInv
<1>5. Fits(conn'[c], c \in subs')
  <2>1. CASE Upgrade(c) \/ Subscribe(c) \/ Look(c) \/ Wake(c) \/ Tick(c)
    BY <1>2, <1>4, <2>1
       DEF Upgrade, Subscribe, Look, Wake, Tick, At, Goto, ConnType, Starting, Serving, Closing
  <2>2. CASE Stop(c) \/ Cancelled(c) \/ CloseConn(c) \/ CloseSend(c)
    BY <1>2, <1>4, <2>2
       DEF Stop, Cancelled, CloseConn, CloseSend, At, Goto, ConnType, Starting, Serving, Closing
  <2>3. CASE JoinWriter(c) \/ RemovePresence(c) \/ Leave(c)
    BY <1>2, <1>4, <2>3
       DEF JoinWriter, RemovePresence, Leave, At, Goto, ConnType, Starting, Serving, Closing
  <2>4. CASE ReadMessage(c) \/ ReaderMoves(c) \/ ReaderApplies(c) \/ ReadFails(c)
                \/ BudgetSpent(c)
    BY <1>2, <1>4, <2>4 DEF ReadMessage, Moving, ReaderMoves, ReaderApplies, ReadFails,
       BudgetSpent, ConnType, Starting, Serving, Closing
  <2>5. CASE Write(c) \/ WriteFails(c) \/ Drained(c) \/ WriterDone(c) \/ PeerGone(c)
    BY <1>2, <1>4, <2>5 DEF Write, WriteFails, Drained, WriterDone, PeerGone, ConnType
  <2>6. CASE KeepAlive(c) \/ ReaderAcks(c) \/ ReaderReplies(c)
    <3>1. /\ Enqueue(conn[c]) \in ConnType
          /\ Enqueue(conn[c]).main = conn[c].main /\ Enqueue(conn[c]).reader = conn[c].reader
          /\ Enqueue(conn[c]).shut = conn[c].shut
      BY <1>2, EnqueueType
    <3>2. QED BY <1>2, <1>4, <2>6, <3>1 DEF KeepAlive, ReaderAcks, ReaderReplies, ConnType,
              Starting, Serving, Closing
  <2>7. CASE Send(c)
    <3>1. PICK sending \in {Enqueue(conn[c]), conn[c]} :
            conn' = [conn EXCEPT ![c] =
                       [sending EXCEPT !.main = "loop",
                                       !.reader = IF @ = "none" THEN "top" ELSE @]]
      BY <2>7 DEF Send
    <3>2. /\ sending \in ConnType /\ sending.reader = conn[c].reader
          /\ sending.shut = conn[c].shut
      BY <1>2, <3>1, EnqueueType
    <3>3. conn[c].main = "send" /\ subs' = subs
      BY <2>7 DEF Send, At
    <3> DEFINE old == conn[c]
               new == conn'[c]
    <3>4. /\ new.main = "loop" /\ new.shut = old.shut
          /\ new.reader = IF old.reader = "none" THEN "top" ELSE old.reader
      BY <1>2, <3>1, <3>2 DEF ConnType
    <3> HIDE DEF new
    <3>5. c \in subs /\ ~old.shut
      BY <1>4, <3>3 DEF Serving, Closing
    <3>6. old.reader \in {"cursor", "ops"} => Owner[c] # None
      BY <1>4
    <3> HIDE DEF old
    <3>7. Fits(new, c \in subs')
      BY <3>3, <3>4, <3>5, <3>6 DEF Starting, Serving, Closing
    <3>8. QED BY <3>7 DEF new
  <2>8. QED BY <2>1, <2>2, <2>3, <2>4, <2>5, <2>6, <2>7 DEF Quiet
<1>6. QED BY <1>3, <1>5 DEF StagesInv

\* A caret's connection stays until it removes the caret, and a reader that puts a
\* caret into the table has its connection around it.
LEMMA QuietCursors ==
    ASSUME TypeOK, StagesInv, NoGhostCursor, NEW c \in Conn, Quiet(c)
    PROVE  NoGhostCursor'
<1> DEFINE Around == Serving \cup {"close", "joinRead", "joinWrite", "presence"}
<1>1. conn'[c] \in ConnType /\ conn' = [conn EXCEPT ![c] = conn'[c]]
  BY QuietShape
<1>2. conn \in [Conn -> ConnType] /\ conn[c] \in ConnType /\ cursors \subseteq Client
  BY DEF TypeOK
<1>3. ASSUME NEW d \in Conn, d # c PROVE conn'[d] = conn[d]
  BY <1>1, <1>2, <1>3
<1>4. ASSUME NEW w \in cursors', w \in cursors,
             ~ (RemovePresence(c) /\ w = Owner[c])
      PROVE  \E d \in Conn : Owner[d] = w /\ conn'[d].main \in Around
  <2>1. PICK d \in Conn : Owner[d] = w /\ conn[d].main \in Around
    BY <1>4 DEF NoGhostCursor
  <2>2. CASE d # c
    BY <1>3, <2>1, <2>2
  <2>3. CASE d = c
    <3>1. Owner[c] # None
      BY <1>2, <1>4, <2>1, <2>3, ConnectionsAssumption
    <3>2. conn'[c].main \in Around
      <4>1. CASE Upgrade(c) \/ Subscribe(c) \/ Look(c) \/ Wake(c) \/ Tick(c)
        BY <1>2, <2>1, <2>3, <4>1
           DEF Upgrade, Subscribe, Look, Wake, Tick, At, Goto, ConnType, Serving
      <4>2. CASE Stop(c) \/ Cancelled(c) \/ CloseConn(c) \/ CloseSend(c)
        BY <1>2, <2>1, <2>3, <4>2
           DEF Stop, Cancelled, CloseConn, CloseSend, At, Goto, ConnType, Serving
      <4>3. CASE JoinWriter(c) \/ Leave(c)
        BY <1>2, <2>1, <2>3, <3>1, <4>3
           DEF JoinWriter, Leave, At, Goto, ConnType, Serving
      <4>4. CASE RemovePresence(c)
        BY <1>4, <2>1, <2>3, <4>4
      <4>5. CASE ReadMessage(c) \/ ReaderMoves(c) \/ ReaderApplies(c) \/ ReadFails(c)
                    \/ BudgetSpent(c)
        BY <1>2, <2>1, <2>3, <4>5
           DEF ReadMessage, ReaderMoves, ReaderApplies, ReadFails, BudgetSpent, ConnType
      <4>6. CASE Write(c) \/ WriteFails(c) \/ Drained(c) \/ WriterDone(c) \/ PeerGone(c)
        BY <1>2, <2>1, <2>3, <4>6
           DEF Write, WriteFails, Drained, WriterDone, PeerGone, ConnType
      <4>7. CASE KeepAlive(c) \/ ReaderAcks(c) \/ ReaderReplies(c)
        <5>1. Enqueue(conn[c]) \in ConnType /\ Enqueue(conn[c]).main = conn[c].main
          BY <1>2, EnqueueType
        <5>2. QED BY <1>2, <2>1, <2>3, <4>7, <5>1
                  DEF KeepAlive, ReaderAcks, ReaderReplies, ConnType
      <4>8. CASE Send(c)
        <5>1. PICK sending \in {Enqueue(conn[c]), conn[c]} :
                conn' = [conn EXCEPT ![c] =
                           [sending EXCEPT !.main = "loop",
                                           !.reader = IF @ = "none" THEN "top" ELSE @]]
          BY <4>8 DEF Send
        <5>2. sending \in ConnType
          BY <1>2, <5>1, EnqueueType
        <5>3. QED BY <1>2, <5>1, <5>2 DEF ConnType, Serving
      <4>9. QED BY <4>1, <4>2, <4>3, <4>4, <4>5, <4>6, <4>7, <4>8 DEF Quiet
    <3>3. QED BY <2>1, <2>3, <3>2
  <2>4. QED BY <2>2, <2>3
<1>5. CASE ReaderMoves(c)
  <2>1. /\ conn[c].reader = "cursor" /\ cursors' = cursors \cup {Owner[c]}
        /\ conn'[c].main = conn[c].main /\ ~ RemovePresence(c)
    BY <1>2, <1>5 DEF ReaderMoves, RemovePresence, At, Goto, ConnType
  <2>2. conn[c].main \in Around
    BY <1>2, <2>1 DEF StagesInv, ConnType, Starting, Serving, Closing
  <2>3. QED BY <1>4, <2>1, <2>2 DEF NoGhostCursor
<1>6. CASE ~ ReaderMoves(c)
  <2>1. cursors' \subseteq cursors /\ (RemovePresence(c) => Owner[c] \notin cursors')
    BY <1>6 DEF Quiet, Upgrade, Subscribe, Look, Wake, Tick, Stop, Cancelled, CloseConn,
       CloseSend, JoinWriter, RemovePresence, Leave, ReadMessage, ReaderApplies, ReadFails,
       BudgetSpent, Write, WriteFails, Drained, WriterDone, PeerGone, KeepAlive, ReaderAcks,
       ReaderReplies, Send
  <2>2. QED BY <1>4, <2>1 DEF NoGhostCursor
<1>7. QED BY <1>5, <1>6

\* Whoever has a slot keeps it.
LEMMA QuietSlots ==
    ASSUME TypeOK, SlotsCounted, NEW c \in Conn, Quiet(c)
    PROVE  SlotsCounted'
<1>1. conn'[c] \in ConnType /\ conn' = [conn EXCEPT ![c] = conn'[c]] /\ limiter' = limiter
  BY QuietShape
<1>2. conn \in [Conn -> ConnType] /\ conn[c] \in ConnType
  BY DEF TypeOK
<1>3. conn'[c].main = "away" <=> conn[c].main = "away"
  <2>1. CASE Upgrade(c) \/ Subscribe(c) \/ Look(c) \/ Wake(c) \/ Tick(c)
    BY <1>2, <2>1 DEF Upgrade, Subscribe, Look, Wake, Tick, At, Goto, ConnType
  <2>2. CASE Stop(c) \/ Cancelled(c) \/ CloseConn(c) \/ CloseSend(c)
    BY <1>2, <2>2 DEF Stop, Cancelled, CloseConn, CloseSend, At, Goto, ConnType
  <2>3. CASE JoinWriter(c) \/ RemovePresence(c) \/ Leave(c)
    BY <1>2, <2>3 DEF JoinWriter, RemovePresence, Leave, At, Goto, ConnType
  <2>4. CASE ReadMessage(c) \/ ReaderMoves(c) \/ ReaderApplies(c) \/ ReadFails(c)
                \/ BudgetSpent(c)
    BY <1>2, <2>4
       DEF ReadMessage, ReaderMoves, ReaderApplies, ReadFails, BudgetSpent, ConnType
  <2>5. CASE Write(c) \/ WriteFails(c) \/ Drained(c) \/ WriterDone(c) \/ PeerGone(c)
    BY <1>2, <2>5 DEF Write, WriteFails, Drained, WriterDone, PeerGone, ConnType
  <2>6. CASE KeepAlive(c) \/ ReaderAcks(c) \/ ReaderReplies(c)
    <3>1. Enqueue(conn[c]) \in ConnType /\ Enqueue(conn[c]).main = conn[c].main
      BY <1>2, EnqueueType
    <3>2. QED BY <1>2, <2>6, <3>1 DEF KeepAlive, ReaderAcks, ReaderReplies, ConnType
  <2>7. CASE Send(c)
    <3>1. PICK sending \in {Enqueue(conn[c]), conn[c]} :
            conn' = [conn EXCEPT ![c] =
                       [sending EXCEPT !.main = "loop",
                                       !.reader = IF @ = "none" THEN "top" ELSE @]]
      BY <2>7 DEF Send
    <3>2. sending \in ConnType
      BY <1>2, <3>1, EnqueueType
    <3>3. QED BY <1>2, <2>7, <3>1, <3>2 DEF Send, At, ConnType
  <2>8. QED BY <2>1, <2>2, <2>3, <2>4, <2>5, <2>6, <2>7 DEF Quiet
<1>4. \A d \in Conn : conn'[d].main = "away" <=> conn[d].main = "away"
  BY <1>1, <1>2, <1>3
<1>5. Holders' = Holders
  BY <1>4 DEF Holders
<1>6. \A a : HoldersAt(a)' = HoldersAt(a)
  BY <1>5 DEF HoldersAt
<1>7. QED BY <1>1, <1>5, <1>6 DEF SlotsCounted

\* A change is announced by whoever made it; until then, or until it has been
\* looked at, the notifications that are there stay.
LEMMA QuietUnnoticed ==
    ASSUME TypeOK, NothingUnnoticed, NEW c \in Conn, Quiet(c)
    PROVE  NothingUnnoticed'
<1>1. conn'[c] \in ConnType /\ conn' = [conn EXCEPT ![c] = conn'[c]]
  BY QuietShape
<1>2. conn \in [Conn -> ConnType] /\ conn[c] \in ConnType
  BY DEF TypeOK
<1> DEFINE Telling(s) == s.reader \in {"ack", "ping"} \/ s.main = "tell"
           Knows(s) == s.main \in {"send", "loop"} => s.bell
<1>3. \/ unseen' \subseteq unseen /\ (Telling(conn[c]) => Telling(conn'[c]))
         /\ (c \in unseen' /\ ~ Telling(conn'[c]) /\ Knows(conn[c]) => Knows(conn'[c]))
      \/ Telling(conn'[c])
  <2>1. CASE Upgrade(c) \/ Subscribe(c) \/ Look(c) \/ Wake(c) \/ Tick(c)
    BY <1>2, <2>1 DEF Upgrade, Subscribe, Look, Wake, Tick, At, Goto, ConnType
  <2>2. CASE Stop(c) \/ Cancelled(c) \/ CloseConn(c) \/ CloseSend(c)
    BY <1>2, <2>2 DEF Stop, Cancelled, CloseConn, CloseSend, At, Goto, ConnType
  <2>3. CASE JoinWriter(c) \/ RemovePresence(c) \/ Leave(c)
    BY <1>2, <2>3 DEF JoinWriter, RemovePresence, Leave, At, Goto, ConnType
  <2>4. CASE ReadMessage(c) \/ ReaderMoves(c) \/ ReaderApplies(c) \/ ReadFails(c)
                \/ BudgetSpent(c)
    BY <1>2, <2>4
       DEF ReadMessage, ReaderMoves, ReaderApplies, ReadFails, BudgetSpent, ConnType
  <2>5. CASE Write(c) \/ WriteFails(c) \/ Drained(c) \/ WriterDone(c) \/ PeerGone(c)
    BY <1>2, <2>5 DEF Write, WriteFails, Drained, WriterDone, PeerGone, ConnType
  <2>6. CASE KeepAlive(c) \/ ReaderAcks(c) \/ ReaderReplies(c)
    <3>1. /\ Enqueue(conn[c]) \in ConnType
          /\ Enqueue(conn[c]).main = conn[c].main /\ Enqueue(conn[c]).reader = conn[c].reader
          /\ Enqueue(conn[c]).bell = conn[c].bell
      BY <1>2, EnqueueType
    <3>2. QED BY <1>2, <2>6, <3>1 DEF KeepAlive, ReaderAcks, ReaderReplies, ConnType
  <2>7. CASE Send(c)
    <3>1. PICK sending \in {Enqueue(conn[c]), conn[c]} :
            conn' = [conn EXCEPT ![c] =
                       [sending EXCEPT !.main = "loop",
                                       !.reader = IF @ = "none" THEN "top" ELSE @]]
      BY <2>7 DEF Send
    <3>2. /\ sending \in ConnType /\ sending.reader = conn[c].reader
          /\ sending.bell = conn[c].bell
      BY <1>2, <3>1, EnqueueType
    <3>3. QED BY <1>2, <2>7, <3>1, <3>2 DEF Send, At, ConnType
  <2>8. QED BY <2>1, <2>2, <2>3, <2>4, <2>5, <2>6, <2>7 DEF Quiet
<1>4. \A d \in Conn : d # c => conn'[d] = conn[d]
  BY <1>1, <1>2
<1>5. other' = other
  BY DEF Quiet, Upgrade, Subscribe, Look, Wake, Tick, Stop, Cancelled, CloseConn, CloseSend,
     JoinWriter, RemovePresence, Leave, ReadMessage, ReaderMoves, ReaderApplies, ReadFails,
     BudgetSpent, Write, WriteFails, Drained, WriterDone, PeerGone, KeepAlive, ReaderAcks,
     ReaderReplies, Send
<1>6. Telling(conn'[c]) => Unannounced'
  BY DEF Unannounced
<1>7. (Telling(conn[c]) => Telling(conn'[c])) => (Unannounced => Unannounced')
  BY <1>4, <1>5 DEF Unannounced
<1>8. CASE Telling(conn'[c])
  BY <1>6, <1>8 DEF NothingUnnoticed
<1>9. CASE ~ Telling(conn'[c])
  <2>1. /\ unseen' \subseteq unseen /\ (Unannounced => Unannounced')
        /\ c \in unseen' /\ Knows(conn[c]) => Knows(conn'[c])
    BY <1>3, <1>7, <1>9
  <2>2. \A d \in unseen : Knows(conn[d]) \/ Unannounced
    BY DEF NothingUnnoticed
  <2>3. \A d \in unseen' : Knows(conn'[d]) \/ Unannounced'
    <3> SUFFICES ASSUME NEW d \in unseen', ~ Unannounced' PROVE Knows(conn'[d])
      OBVIOUS
    <3>1. d \in Conn /\ Knows(conn[d])
      BY <2>1, <2>2 DEF TypeOK
    <3>2. CASE d = c
      BY <2>1, <3>1, <3>2
    <3>3. CASE d # c
      BY <1>4, <3>1, <3>3
    <3>4. QED BY <3>2, <3>3
  <2>4. QED BY <2>3 DEF NothingUnnoticed
<1>10. QED BY <1>8, <1>9

LEMMA QuietStep ==
    ASSUME IInv, NEW c \in Conn, Quiet(c)
    PROVE  IInv'
BY QuietTypes, QuietSlots, QuietStages, QuietCursors, QuietUnnoticed DEF IInv

-----------------------------------------------------------------------------
(* Slots                                                                   *)

LEMMA HoldersFinite == IsFiniteSet(Holders) /\ \A a : IsFiniteSet(HoldersAt(a))
<1>1. IsFiniteSet(Conn) /\ Holders \subseteq Conn
  BY ConnectionsAssumption DEF Holders
<1>2. \A a : HoldersAt(a) \subseteq Conn
  BY DEF HoldersAt, Holders
<1>3. QED BY <1>1, <1>2, FS_Subset

LEMMA DialSlots ==
    ASSUME TypeOK, SlotsCounted, NEW c \in Conn, Dial(c)
    PROVE  TypeOK' /\ SlotsCounted'
<1> DEFINE a == Address[c]
           Addresses == {Address[d] : d \in Conn}
<1>1. /\ limiter \in [global : Nat, perIP : [Addresses -> Nat]]
      /\ conn \in [Conn -> ConnType] /\ conn[c].main = "away" /\ a \in Addresses
      /\ limiter.global < MaxGlobal /\ limiter.perIP[a] < MaxPerIP
      /\ limiter' = [limiter EXCEPT !.global = @ + 1, !.perIP[a] = @ + 1]
      /\ conn' = [conn EXCEPT ![c].main = "upgrade"]
      /\ MaxGlobal \in Nat /\ MaxPerIP \in Nat
  BY ConnectionsAssumption DEF TypeOK, Dial, At, Goto
<1>2. /\ limiter' = [global |-> limiter.global + 1,
                     perIP |-> [limiter.perIP EXCEPT ![a] = @ + 1]]
      /\ limiter.perIP \in [Addresses -> Nat] /\ limiter.global \in Nat
  BY <1>1
<1>3. limiter' \in [global : Nat, perIP : [Addresses -> Nat]]
  BY <1>2
<1>4. conn' \in [Conn -> ConnType]
  BY <1>1 DEF ConnType, Starting
<1>5. TypeOK'
  BY <1>3, <1>4 DEF TypeOK, Dial
<1>6. Holders' = Holders \cup {c} /\ c \notin Holders
  BY <1>1 DEF Holders, ConnType
<1>7. /\ HoldersAt(a)' = HoldersAt(a) \cup {c} /\ c \notin HoldersAt(a)
      /\ \A b \in Addresses \ {a} : HoldersAt(b)' = HoldersAt(b)
  BY <1>6 DEF HoldersAt
<1>8. /\ Cardinality(Holders') = Cardinality(Holders) + 1
      /\ Cardinality(HoldersAt(a)') = Cardinality(HoldersAt(a)) + 1
  <2>1. IsFiniteSet(Holders) /\ IsFiniteSet(HoldersAt(a))
    BY HoldersFinite
  <2>2. Cardinality(Holders \cup {c}) = Cardinality(Holders) + 1
    BY <1>6, <2>1, FS_AddElement
  <2>3. Cardinality(HoldersAt(a) \cup {c}) = Cardinality(HoldersAt(a)) + 1
    BY <1>7, <2>1, FS_AddElement
  <2>4. QED BY <1>6, <1>7, <2>2, <2>3
<1>9. limiter'.global = Cardinality(Holders') /\ limiter'.global <= MaxGlobal
  BY <1>1, <1>2, <1>8 DEF SlotsCounted
<1>10. DOMAIN limiter.perIP = Addresses /\ DOMAIN limiter'.perIP = Addresses
  BY <1>2
<1>11. ASSUME NEW b \in Addresses
       PROVE  limiter'.perIP[b] = Cardinality(HoldersAt(b)') /\ limiter'.perIP[b] <= MaxPerIP
  <2>1. limiter.perIP[b] = Cardinality(HoldersAt(b)) /\ limiter.perIP[b] <= MaxPerIP
    BY <1>10 DEF SlotsCounted
  <2>2. CASE b = a
    BY <1>1, <1>2, <1>8, <2>1, <2>2
  <2>3. CASE b # a
    BY <1>1, <1>2, <1>7, <2>1, <2>3
  <2>4. QED BY <2>2, <2>3
<1>12. QED BY <1>5, <1>9, <1>10, <1>11 DEF SlotsCounted

\* Neither counter is zero when a connection that has a slot releases it.
LEMMA ReleaseSlots ==
    ASSUME TypeOK, SlotsCounted, NEW c \in Conn, conn[c].main # "away", Release(c)
    PROVE  TypeOK' /\ SlotsCounted'
<1> DEFINE a == Address[c]
           Addresses == {Address[d] : d \in Conn}
<1>1. /\ limiter \in [global : Nat, perIP : [Addresses -> Nat]]
      /\ conn \in [Conn -> ConnType] /\ a \in Addresses
      /\ conn' = [conn EXCEPT ![c] = Away]
      /\ MaxGlobal \in Nat /\ MaxPerIP \in Nat /\ QueueCap \in Nat
  BY ConnectionsAssumption DEF TypeOK, Release
<1>2. limiter.perIP \in [Addresses -> Nat] /\ limiter.global \in Nat
  BY <1>1
<1>3. c \in Holders /\ Holders' = Holders \ {c}
  BY <1>1 DEF Holders, Away
<1>4. /\ c \in HoldersAt(a) /\ HoldersAt(a)' = HoldersAt(a) \ {c}
      /\ \A b \in Addresses \ {a} : HoldersAt(b)' = HoldersAt(b)
  BY <1>3 DEF HoldersAt
<1>5. /\ Cardinality(Holders) \in Nat /\ Cardinality(HoldersAt(a)) \in Nat
      /\ Cardinality(Holders') = Cardinality(Holders) - 1
      /\ Cardinality(HoldersAt(a)') = Cardinality(HoldersAt(a)) - 1
  BY <1>3, <1>4, HoldersFinite, FS_RemoveElement, FS_CardinalityType
<1>6. Cardinality(Holders') \in Nat /\ Cardinality(HoldersAt(a)') \in Nat
  <2>1. IsFiniteSet(Holders') /\ IsFiniteSet(HoldersAt(a)')
    BY <1>3, <1>4, HoldersFinite, FS_Subset
  <2>2. QED BY <2>1, FS_CardinalityType
<1>7. /\ limiter.global = Cardinality(Holders) /\ limiter.global <= MaxGlobal
      /\ limiter.perIP[a] = Cardinality(HoldersAt(a)) /\ limiter.perIP[a] <= MaxPerIP
      /\ limiter.global > 0 /\ limiter.perIP[a] > 0
  BY <1>1, <1>2, <1>5, <1>6 DEF SlotsCounted
<1>8. limiter' = [global |-> limiter.global - 1,
                  perIP |-> [limiter.perIP EXCEPT ![a] = @ - 1]]
  <2>1. limiter.global # 0 /\ limiter.perIP[a] # 0
    BY <1>2, <1>7
  <2>2. limiter' = [limiter EXCEPT
                      !.global = IF limiter.global = 0 THEN 0 ELSE limiter.global - 1,
                      !.perIP[a] = IF limiter.perIP[a] = 0 THEN 0 ELSE limiter.perIP[a] - 1]
    BY DEF Release, Released
  <2>3. limiter' = [limiter EXCEPT !.global = limiter.global - 1,
                                   !.perIP[a] = limiter.perIP[a] - 1]
    BY <2>1, <2>2
  <2>4. QED BY <1>1, <2>3
<1>9. limiter' \in [global : Nat, perIP : [Addresses -> Nat]]
  <2>1. limiter.global - 1 \in Nat /\ limiter.perIP[a] - 1 \in Nat
    BY <1>1, <1>2, <1>7
  <2>2. [limiter.perIP EXCEPT ![a] = @ - 1] \in [Addresses -> Nat]
    BY <1>1, <1>2, <2>1
  <2>3. QED BY <1>8, <2>1, <2>2
<1>10. conn' \in [Conn -> ConnType]
  BY <1>1 DEF ConnType, Away
<1>11. TypeOK'
  BY <1>9, <1>10 DEF TypeOK, Release
<1>12. limiter'.global = Cardinality(Holders') /\ limiter'.global <= MaxGlobal
  BY <1>1, <1>2, <1>5, <1>7, <1>8
<1>13. DOMAIN limiter.perIP = Addresses /\ DOMAIN limiter'.perIP = Addresses
  BY <1>2, <1>8
<1>14. ASSUME NEW b \in Addresses
       PROVE  limiter'.perIP[b] = Cardinality(HoldersAt(b)') /\ limiter'.perIP[b] <= MaxPerIP
  <2>1. limiter.perIP[b] = Cardinality(HoldersAt(b)) /\ limiter.perIP[b] <= MaxPerIP
    BY <1>13 DEF SlotsCounted
  <2>2. CASE b = a
    BY <1>1, <1>2, <1>5, <1>7, <1>8, <2>2
  <2>3. CASE b # a
    BY <1>1, <1>2, <1>4, <1>8, <2>1, <2>3
  <2>4. QED BY <2>2, <2>3
<1>15. QED BY <1>11, <1>12, <1>13, <1>14 DEF SlotsCounted

LEMMA DialStep ==
    ASSUME IInv, NEW c \in Conn, Dial(c)
    PROVE  IInv'
<1>1. TypeOK' /\ SlotsCounted'
  BY DialSlots DEF IInv
<1>2. /\ conn \in [Conn -> ConnType] /\ conn[c].main = "away"
      /\ conn' = [conn EXCEPT ![c].main = "upgrade"]
      /\ UNCHANGED <<subs, cursors, unseen, other>>
  BY DEF IInv, TypeOK, Dial, At, Goto
<1>3. /\ conn'[c] = [conn[c] EXCEPT !.main = "upgrade"]
      /\ \A d \in Conn : d # c => conn'[d] = conn[d]
  BY <1>2
<1>4. StagesInv'
  BY <1>2, <1>3 DEF IInv, StagesInv, ConnType, Starting, Serving, Closing
<1>5. NoGhostCursor'
  <2>1. ASSUME NEW w \in cursors
        PROVE  \E d \in Conn : /\ Owner[d] = w
                               /\ conn'[d].main \in Serving \cup
                                     {"close", "joinRead", "joinWrite", "presence"}
    BY <1>2, <1>3 DEF IInv, NoGhostCursor, Serving
  <2>2. QED BY <1>2, <2>1 DEF NoGhostCursor
<1>6. Unannounced => Unannounced'
  BY <1>2, <1>3 DEF Unannounced, ConnType
<1>7. NothingUnnoticed'
  BY <1>2, <1>3, <1>6 DEF IInv, NothingUnnoticed, TypeOK, ConnType
<1>8. QED BY <1>1, <1>4, <1>5, <1>7 DEF IInv

\* What ends has no reader, no caret and nothing to announce.
LEMMA ReleaseStep ==
    ASSUME IInv, NEW c \in Conn, conn[c].main \in {"upgrade", "release"}, Release(c)
    PROVE  IInv'
<1>1. TypeOK' /\ SlotsCounted'
  BY ReleaseSlots DEF IInv
<1>2. /\ conn \in [Conn -> ConnType] /\ conn[c] \in ConnType
      /\ conn' = [conn EXCEPT ![c] = Away]
      /\ UNCHANGED <<subs, cursors, unseen, other>>
  BY DEF IInv, TypeOK, Release
<1>3. /\ conn'[c] = Away
      /\ \A d \in Conn : d # c => conn'[d] = conn[d]
  BY <1>2
<1>4. c \notin subs /\ conn[c].reader \in {"none", "done"}
  BY <1>2 DEF IInv, StagesInv, Starting, Serving, Closing
<1>5. StagesInv'
  BY <1>2, <1>3, <1>4 DEF IInv, StagesInv, Away, Starting, Serving, Closing
<1>6. NoGhostCursor'
  <2>1. ASSUME NEW w \in cursors
        PROVE  \E d \in Conn : /\ Owner[d] = w
                               /\ conn'[d].main \in Serving \cup
                                     {"close", "joinRead", "joinWrite", "presence"}
    BY <1>2, <1>3 DEF IInv, NoGhostCursor, Serving
  <2>2. QED BY <1>2, <2>1 DEF NoGhostCursor
<1>7. Unannounced => Unannounced'
  BY <1>2, <1>3, <1>4 DEF Unannounced
<1>8. NothingUnnoticed'
  BY <1>2, <1>3, <1>7 DEF IInv, NothingUnnoticed, TypeOK, Away
<1>9. QED BY <1>1, <1>5, <1>6, <1>8 DEF IInv

-----------------------------------------------------------------------------
(* Pings                                                                   *)

\* A ping rings at the subscribers, who are all those that are being served.
LEMMA PingShape ==
    ASSUME TypeOK, StagesInv
    PROVE  /\ Ping(conn) \in [Conn -> ConnType]
           /\ \A d \in Conn :
                 /\ Ping(conn)[d].main = conn[d].main /\ Ping(conn)[d].reader = conn[d].reader
                 /\ Ping(conn)[d].shut = conn[d].shut
                 /\ conn[d].main \in Serving => Ping(conn)[d].bell
<1>1. conn \in [Conn -> ConnType]
  BY DEF TypeOK
<1>2. ASSUME NEW d \in Conn
      PROVE  /\ Ping(conn)[d] \in ConnType
             /\ Ping(conn)[d].main = conn[d].main /\ Ping(conn)[d].reader = conn[d].reader
             /\ Ping(conn)[d].shut = conn[d].shut
             /\ conn[d].main \in Serving => Ping(conn)[d].bell
  <2>1. Ping(conn)[d] = IF d \in subs THEN [conn[d] EXCEPT !.bell = TRUE] ELSE conn[d]
    BY DEF Ping
  <2>2. conn[d] \in ConnType /\ (conn[d].main \in Serving => d \in subs)
    BY <1>1 DEF StagesInv
  <2>3. CASE d \in subs
    BY <2>1, <2>2, <2>3 DEF ConnType
  <2>4. CASE d \notin subs
    BY <2>1, <2>2, <2>4
  <2>5. QED BY <2>3, <2>4
<1>3. Ping(conn) \in [Conn -> ConnType]
  BY <1>2 DEF Ping
<1>4. QED BY <1>2, <1>3

\* What a ping leaves, whoever sends it.
LEMMA PingStep ==
    ASSUME IInv, UNCHANGED <<limiter, subs, cursors, unseen>>, other' \in BOOLEAN,
           conn' \in [Conn -> ConnType],
           NEW c \in Conn,
           \A d \in Conn \ {c} : conn'[d] = Ping(conn)[d],
           \/ conn'[c] = Ping(conn)[c]
           \/ conn[c].reader = "ping" /\ conn'[c] = [Ping(conn)[c] EXCEPT !.reader = "top"]
           \/ conn[c].main = "tell" /\ conn'[c] = [Ping(conn)[c] EXCEPT !.main = "leave"]
    PROVE  IInv'
<1> USE DEF IInv
<1>1. /\ Ping(conn) \in [Conn -> ConnType]
      /\ \A d \in Conn :
            /\ Ping(conn)[d].main = conn[d].main /\ Ping(conn)[d].reader = conn[d].reader
            /\ Ping(conn)[d].shut = conn[d].shut
            /\ conn[d].main \in Serving => Ping(conn)[d].bell
  BY PingShape
<1>2. TypeOK'
  BY DEF TypeOK
<1>3. Ping(conn)[c] \in ConnType
  BY <1>1
<1>4. \A d \in Conn : /\ conn'[d].main = "away" <=> conn[d].main = "away"
                      /\ conn'[d].main \in Serving => conn[d].main \in Serving
                      /\ conn'[d].main \in Serving => conn'[d].bell
  BY <1>1, <1>3 DEF ConnType, Serving
<1>5. Holders' = Holders
  BY <1>4 DEF Holders
<1>6. \A a : HoldersAt(a)' = HoldersAt(a)
  BY <1>5 DEF HoldersAt
<1>7. SlotsCounted'
  BY <1>5, <1>6 DEF SlotsCounted
<1>8. ASSUME NEW d \in Conn \ {c}
      PROVE  /\ conn'[d].main = conn[d].main /\ conn'[d].reader = conn[d].reader
             /\ conn'[d].shut = conn[d].shut
  BY <1>1
<1>9. /\ conn'[c].shut = conn[c].shut
      /\ \/ conn'[c].main = conn[c].main /\ conn'[c].reader = conn[c].reader
         \/ conn'[c].main = conn[c].main /\ conn[c].reader = "ping" /\ conn'[c].reader = "top"
         \/ conn[c].main = "tell" /\ conn'[c].main = "leave"
            /\ conn'[c].reader = conn[c].reader
  BY <1>1, <1>3 DEF ConnType
<1>10. StagesInv'
  BY <1>8, <1>9 DEF StagesInv, Starting, Serving, Closing
<1>11. NoGhostCursor'
  BY <1>8, <1>9 DEF NoGhostCursor, Serving
<1>12. NothingUnnoticed'
  BY <1>4 DEF NothingUnnoticed, TypeOK, Serving
<1>13. QED BY <1>2, <1>7, <1>10, <1>11, <1>12

LEMMA PingsStep ==
    ASSUME IInv, NEW c \in Conn, ReaderPings(c) \/ Tell(c) \/ OtherPing
    PROVE  IInv'
<1>1. /\ Ping(conn) \in [Conn -> ConnType] /\ Ping(conn)[c] \in ConnType
      /\ other \in BOOLEAN /\ UNCHANGED <<limiter, subs, cursors, unseen>>
  BY PingShape DEF IInv, TypeOK, ReaderPings, Tell, OtherPing
<1>2. CASE ReaderPings(c)
  <2>1. /\ conn' = [Ping(conn) EXCEPT ![c].reader = "top"] /\ conn[c].reader = "ping"
        /\ other' = other
    BY <1>2 DEF ReaderPings
  <2>2. /\ conn' \in [Conn -> ConnType]
        /\ conn'[c] = [Ping(conn)[c] EXCEPT !.reader = "top"]
        /\ \A d \in Conn \ {c} : conn'[d] = Ping(conn)[d]
    BY <1>1, <2>1 DEF ConnType
  <2>3. QED BY <1>1, <2>1, <2>2, PingStep
<1>3. CASE Tell(c)
  <2>1. /\ conn' = [Ping(conn) EXCEPT ![c].main = "leave"] /\ conn[c].main = "tell"
        /\ other' = other
    BY <1>3 DEF Tell, At
  <2>2. /\ conn' \in [Conn -> ConnType]
        /\ conn'[c] = [Ping(conn)[c] EXCEPT !.main = "leave"]
        /\ \A d \in Conn \ {c} : conn'[d] = Ping(conn)[d]
    BY <1>1, <2>1 DEF ConnType, Closing
  <2>3. QED BY <1>1, <2>1, <2>2, PingStep
<1>4. CASE OtherPing
  <2>1. conn' = Ping(conn) /\ other' = FALSE
    BY <1>4 DEF OtherPing
  <2>2. QED BY <1>1, <2>1, PingStep
<1>5. QED BY <1>2, <1>3, <1>4

-----------------------------------------------------------------------------
(* The invariant                                                           *)

LEMMA InitInv == Init => IInv
<1> SUFFICES ASSUME Init PROVE IInv
  OBVIOUS
<1> DEFINE Addresses == {Address[d] : d \in Conn}
<1>1. /\ limiter = [global |-> 0, perIP |-> [a \in Addresses |-> 0]]
      /\ subs = {} /\ cursors = {} /\ unseen = Conn /\ other = FALSE
      /\ conn = [c \in Conn |-> Away] /\ MaxGlobal \in Nat /\ MaxPerIP \in Nat /\ QueueCap \in Nat
  BY ConnectionsAssumption DEF Init
<1>2. TypeOK
  <2>1. limiter \in [global : Nat, perIP : [Addresses -> Nat]]
    BY <1>1
  <2>2. Away \in ConnType
    BY <1>1 DEF ConnType, Away
  <2>3. conn \in [Conn -> ConnType]
    BY <1>1, <2>2
  <2>4. QED BY <1>1, <2>1, <2>3 DEF TypeOK
<1>3. Holders = {} /\ \A a : HoldersAt(a) = {}
  BY <1>1 DEF Holders, HoldersAt, Away
<1>4. Cardinality({}) = 0
  BY FS_EmptySet
<1>5. SlotsCounted
  BY <1>1, <1>3, <1>4 DEF SlotsCounted
<1>6. StagesInv
  BY <1>1 DEF StagesInv, Away, Starting, Serving, Closing
<1>7. NoGhostCursor
  BY <1>1 DEF NoGhostCursor
<1>8. NothingUnnoticed
  BY <1>1 DEF NothingUnnoticed, Away
<1>9. QED BY <1>2, <1>5, <1>6, <1>7, <1>8 DEF IInv

LEMMA NextInv == IInv /\ [Next]_vars => IInv'
<1> SUFFICES ASSUME IInv, [Next]_vars PROVE IInv'
  OBVIOUS
<1>1. ASSUME NEW c \in Conn, Quiet(c) PROVE IInv'
  BY <1>1, QuietStep
<1>2. ASSUME NEW c \in Conn, Dial(c) PROVE IInv'
  BY <1>2, DialStep
<1>3. ASSUME NEW c \in Conn, UpgradeFails(c) \/ End(c) PROVE IInv'
  <2>1. conn[c].main \in {"upgrade", "release"} /\ Release(c)
    BY <1>3 DEF UpgradeFails, End, At
  <2>2. QED BY <2>1, ReleaseStep
<1>4. ASSUME NEW c \in Conn, ReaderPings(c) \/ Tell(c) PROVE IInv'
  BY <1>4, PingsStep
<1>5. CASE OtherPing
  <2>1. CASE Conn = {}
    <3>1. conn' = Ping(conn) /\ UNCHANGED <<limiter, subs, cursors, unseen>> /\ other' = FALSE
      BY <1>5 DEF OtherPing
    <3>2. TypeOK'
      BY <3>1, PingShape DEF IInv, TypeOK
    <3>3. Holders' = Holders /\ \A a : HoldersAt(a)' = HoldersAt(a)
      BY <2>1 DEF Holders, HoldersAt
    <3>4. SlotsCounted' /\ StagesInv' /\ NoGhostCursor' /\ NothingUnnoticed'
      BY <2>1, <3>1, <3>3, <3>2
         DEF IInv, SlotsCounted, StagesInv, NoGhostCursor, NothingUnnoticed, TypeOK
    <3>5. QED BY <3>2, <3>4 DEF IInv
  <2>2. CASE Conn # {}
    <3>1. PICK c \in Conn : TRUE
      BY <2>2
    <3>2. QED BY <1>5, <3>1, PingsStep
  <2>3. QED BY <2>1, <2>2
<1>6. CASE OtherChange
  <2>1. /\ unseen' = Conn /\ other' = TRUE /\ UNCHANGED <<limiter, subs, cursors, conn>>
    BY <1>6 DEF OtherChange
  <2>2. TypeOK' /\ StagesInv' /\ NoGhostCursor' /\ NothingUnnoticed'
    BY <2>1 DEF IInv, TypeOK, StagesInv, NoGhostCursor, NothingUnnoticed, Unannounced
  <2>3. Holders' = Holders /\ \A a : HoldersAt(a)' = HoldersAt(a)
    BY <2>1 DEF Holders, HoldersAt
  <2>4. QED BY <2>1, <2>2, <2>3 DEF IInv, SlotsCounted
<1>7. CASE UNCHANGED vars
  <2>1. Holders' = Holders /\ \A a : HoldersAt(a)' = HoldersAt(a)
    BY <1>7 DEF vars, Holders, HoldersAt
  <2>2. SlotsCounted'
    BY <1>7, <2>1 DEF IInv, SlotsCounted, vars
  <2>3. QED BY <1>7, <2>2
            DEF IInv, TypeOK, StagesInv, NoGhostCursor, NothingUnnoticed, Unannounced, vars
<1>8. QED BY <1>1, <1>2, <1>3, <1>4, <1>5, <1>6, <1>7
          DEF Next, MainStep, ReaderStep, WriterStep, Quiet

LEMMA Invariance == Spec => []IInv
BY InitInv, NextInv, PTL DEF Spec

-----------------------------------------------------------------------------
(* What follows                                                            *)

\* The records of the connections are well formed, and no channel holds more
\* than its capacity, whatever the three goroutines of each connection send.
THEOREM TypeCorrect == Spec => []TypeOK
<1>1. IInv => TypeOK
  BY DEF IInv
<1>2. QED BY <1>1, Invariance, PTL

\* On every path of a websocket's end the limiter is given back what was taken,
\* once: its counters are the connections there are, and no cap is passed.
THEOREM SlotsAreCounted == Spec => []SlotsCounted
<1>1. IInv => SlotsCounted
  BY DEF IInv
<1>2. QED BY <1>1, Invariance, PTL

\* The channel of a connection is closed only when its reader has ended and its
\* main loop is past sending, so that no goroutine sends on a closed channel.
THEOREM NothingSentOnClosed == Spec => []NoSendOnClosed
<1>1. IInv => NoSendOnClosed
  BY DEF IInv, StagesInv, NoSendOnClosed, Serving, Closing
<1>2. QED BY <1>1, Invariance, PTL

\* A teardown that removes a caret is not followed by a reader of that connection
\* that puts it back: every caret has a connection that will remove it.
THEOREM NoGhosts == Spec => []NoGhostCursor
<1>1. IInv => NoGhostCursor
  BY DEF IInv
<1>2. QED BY <1>1, Invariance, PTL

\* No change of the room is lost between a subscription, the first snapshot and
\* notifications that coalesce: whoever has not seen it will be woken.
THEOREM NothingGoesUnnoticed == Spec => []NothingUnnoticed
<1>1. IInv => NothingUnnoticed
  BY DEF IInv
<1>2. QED BY <1>1, Invariance, PTL

=============================================================================
