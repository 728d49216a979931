------------------------------ MODULE AtSites ------------------------------
(***************************************************************************)
(* atsites (src/atsites/main.go): a consumer of the events of a Tap, over  *)
(* a websocket with acknowledgements, that keeps the publications and the  *)
(* documents of the network in two tables.                                 *)
(*                                                                         *)
(* The Tap is external. From how handleTap uses it: it delivers an event   *)
(* until it is acknowledged, in any number of copies, and the next event   *)
(* of a record only then; it does not wait for the identity events, which  *)
(* are never acknowledged. A connection is two queues; what is in them is  *)
(* lost with it. The HTTP handlers only read and are left out.             *)
(***************************************************************************)

EXTENDS Integers, Sequences

CONSTANTS
  Records,     \* the publications and documents, by repository and rkey
  Documents,   \* those of the collection site.standard.document
  None,        \* no record
  MaxEvents,   \* bound: events of one record
  MaxQueue,    \* bound: messages on the way, in each direction
  MaxExits     \* bound: how often the process ends

ASSUME RecordsAssumption == Documents \subseteq Records /\ None \notin Records
ASSUME BoundAssumption   == /\ MaxEvents \in Nat \ {0} /\ MaxQueue \in Nat \ {0}
                            /\ MaxExits \in Nat

VARIABLES
  history,     \* the Tap: the events of each record
  acked,       \* the Tap: how many events of each record are acknowledged
  stream,      \* messages on the way to the process
  acks,        \* acknowledgements on the way to the Tap
  pc,          \* where handleTap is
  msg,         \* the message it handles
  rows,        \* the tables: the event whose content the row has, 0 without a row
  exits,       \* how often the process ended
  applied      \* history: the last event of each record that was handled

tap  == <<history, acked>>
conn == <<stream, acks>>
vars == <<tap, conn, pc, msg, rows, exits, applied>>

Mirrored == INSTANCE SiteMirror
Kinds(r) == Mirrored!Kinds(r)

Message(t, r, n) == [type |-> t, rec |-> r, n |-> n]
NoMessage        == Message("none", None, 0)

\* A message of one of the two other types has no record.
Messages ==
  [type : {"record"}, rec : Records, n : 1..MaxEvents]
    \cup { Message("identity", None, 0), Message("unknown", None, 0) }

TypeOK ==
  /\ history \in [Records -> Seq({"put", "loose", "delete"})]
  /\ \A r \in Records : Len(history[r]) <= MaxEvents /\ acked[r] <= Len(history[r])
  /\ acked \in [Records -> 0..MaxEvents] /\ applied \in [Records -> 0..MaxEvents]
  /\ stream \in Seq(Messages) /\ acks \in Seq(Messages)
  /\ pc \in {"down", "reading", "got", "stored"}
  /\ msg \in Messages \cup {NoMessage}
  /\ msg = NoMessage <=> pc \in {"down", "reading"}
  /\ rows \in [Records -> 0..MaxEvents]
  /\ exits \in 0..MaxExits

Init ==
  /\ history = [r \in Records |-> <<>>] /\ acked = [r \in Records |-> 0]
  /\ stream = <<>> /\ acks = <<>>
  /\ pc = "down" /\ msg = NoMessage
  /\ rows = [r \in Records |-> 0] /\ exits = 0
  /\ applied = [r \in Records |-> 0]

-----------------------------------------------------------------------------
(* The network and the Tap                                                 *)

Publish(r) ==
  /\ Len(history[r]) < MaxEvents
  /\ \E k \in Kinds(r) : history' = [history EXCEPT ![r] = Append(@, k)]
  /\ UNCHANGED <<acked, conn, pc, msg, rows, exits, applied>>

Sends(m) ==
  /\ pc # "down" /\ Len(stream) < MaxQueue
  /\ stream' = Append(stream, m)
  /\ UNCHANGED <<tap, acks, pc, msg, rows, exits, applied>>

\* The first event of a record that is not acknowledged: once more, if it was sent before.
Deliver(r) == acked[r] < Len(history[r]) /\ Sends(Message("record", r, acked[r] + 1))

DeliverOther == \E t \in {"identity", "unknown"} : Sends(Message(t, None, 0))

\* A second acknowledgement of one event changes nothing.
TakeAck ==
  /\ acks # <<>>
  /\ LET a == Head(acks)
     IN acked' = IF a.type = "record" /\ a.n = acked[a.rec] + 1
                   THEN [acked EXCEPT ![a.rec] = a.n] ELSE acked
  /\ acks' = Tail(acks)
  /\ UNCHANGED <<history, stream, pc, msg, rows, exits, applied>>

-----------------------------------------------------------------------------
(* handleTap                                                               *)

\* A bug TLC must find: the event is acknowledged when it is read.
MutReadAcks ==
  /\ pc = "reading" /\ stream # <<>> /\ Len(acks) < MaxQueue
  /\ msg' = Head(stream) /\ stream' = Tail(stream)
  /\ acks' = Append(acks, msg')
  /\ pc' = "got"
  /\ UNCHANGED <<tap, rows, exits, applied>>

Read ==
  /\ pc = "reading" /\ stream # <<>>
  /\ msg' = Head(stream) /\ stream' = Tail(stream)
  /\ pc' = "got"
  /\ UNCHANGED <<tap, acks, rows, exits, applied>>

\* continue: an identity event is not acknowledged.
SkipIdentity ==
  /\ pc = "got" /\ msg.type = "identity"
  /\ pc' = "reading" /\ msg' = NoMessage
  /\ UNCHANGED <<tap, conn, rows, exits, applied>>

\* A type nobody knows is logged, and acknowledged.
SkipUnknown ==
  /\ pc = "got" /\ msg.type = "unknown"
  /\ pc' = "stored"
  /\ UNCHANGED <<tap, conn, msg, rows, exits, applied>>

\* A bug TLC must find: ON CONFLICT DO NOTHING, which keeps the first content.
MutRowAfterFirst(row, r, n) ==
  IF history[r][n] = "loose" \/ (history[r][n] = "put" /\ row # 0) THEN row
  ELSE IF history[r][n] = "put" THEN n ELSE 0

\* StorePublication and StoreDocument insert or update, DeletePublication and
\* DeleteDocument need no row, and a loose document touches no row at all.
RowAfter(row, r, n) ==
  IF history[r][n] = "loose" THEN row
  ELSE IF history[r][n] = "put" THEN n ELSE 0

\* A bug TLC must find: a loose document is skipped like an identity event.
MutStoreSkipsLoose ==
  /\ pc = "got" /\ msg.type = "record"
  /\ rows' = [rows EXCEPT ![msg.rec] = RowAfter(@, msg.rec, msg.n)]
  /\ applied' = [applied EXCEPT ![msg.rec] = msg.n]
  /\ IF history[msg.rec][msg.n] = "loose"
       THEN pc' = "reading" /\ msg' = NoMessage
       ELSE pc' = "stored" /\ UNCHANGED msg
  /\ UNCHANGED <<tap, conn, exits>>

\* handleRecordEvent
Store ==
  /\ pc = "got" /\ msg.type = "record"
  /\ rows' = [rows EXCEPT ![msg.rec] = RowAfter(@, msg.rec, msg.n)]
  /\ applied' = [applied EXCEPT ![msg.rec] = msg.n]
  /\ pc' = "stored"
  /\ UNCHANGED <<tap, conn, msg, exits>>

\* A bug TLC must find: the identifier of the next event is acknowledged.
MutAckNext ==
  /\ pc = "stored" /\ Len(acks) < MaxQueue
  /\ acks' = Append(acks, [msg EXCEPT !.n = @ + 1])
  /\ pc' = "reading" /\ msg' = NoMessage
  /\ UNCHANGED <<tap, stream, rows, exits, applied>>

Ack ==
  /\ pc = "stored" /\ Len(acks) < MaxQueue
  /\ acks' = Append(acks, msg)
  /\ pc' = "reading" /\ msg' = NoMessage
  /\ UNCHANGED <<tap, stream, rows, exits, applied>>

\* An error of Read, of a statement or of the acknowledgement ends the group and the
\* process, as a signal and a crash do. A statement that was interrupted has taken
\* place (pc is "stored") or not (pc is "got").
Exit ==
  /\ pc # "down" /\ exits < MaxExits
  /\ pc' = "down" /\ msg' = NoMessage
  /\ stream' = <<>> /\ acks' = <<>>
  /\ exits' = exits + 1
  /\ UNCHANGED <<tap, rows, applied>>

\* The process is started again and dials the Tap.
Start ==
  /\ pc = "down"
  /\ pc' = "reading"
  /\ UNCHANGED <<tap, conn, msg, rows, exits, applied>>

Server == Read \/ SkipIdentity \/ SkipUnknown \/ Store \/ Ack \/ Start

Next == Server \/ Exit \/ TakeAck \/ DeliverOther \/ \E r \in Records : Publish(r) \/ Deliver(r)

Spec == Init /\ [][Next]_vars

\* The process runs and is started again, the Tap reads acknowledgements and delivers
\* what is not acknowledged again and again.
FairSpec ==
  Spec /\ WF_vars(Server) /\ WF_vars(TakeAck) /\ \A r \in Records : SF_vars(Deliver(r))

-----------------------------------------------------------------------------
(* Properties                                                              *)

\* What the Tap has forgotten is in the table, whenever the process ends: the row of a
\* record is that of the acknowledged events, or of one more (main.go:136-151).
AckedIsStored ==
  \A r \in Records : \E n \in {acked[r], acked[r] + 1} :
    n <= Len(history[r]) /\ rows[r] = Mirrored!Content(history[r], n)

\* Copies of events and ends of the process are not seen in the tables: a row follows
\* the events of its record in their order, and never goes back (main.go:136-151).
ImplementsMirror == Mirrored!Spec

\* Every event is acknowledged in the end, those of loose documents as well
\* (main.go:143), so that the Tap comes to the later ones of the same record.
CatchesUp ==
  \A r \in Records : \A n \in 1..MaxEvents : Len(history[r]) >= n ~> acked[r] >= n

=============================================================================
