--------------------------- MODULE AtSitesProofs ---------------------------
(***************************************************************************)
(* Theorems about AtSites, for any records and bounds: what is             *)
(* acknowledged is stored, and the tables mirror every record in order.    *)
(***************************************************************************)

EXTENDS AtSites, TLAPS

\* A message that may still be handled: it is not older than what was handled last,
\* and it is at most the first one that is not acknowledged.
Due(m) ==
  m.type = "record" =>
    /\ applied[m.rec] <= m.n /\ m.n <= acked[m.rec] + 1
    /\ m.n <= Len(history[m.rec])

StreamInv == \A i \in 1..Len(stream) : Due(stream[i])

OrderInv ==
  \A i, j \in 1..Len(stream) :
    i < j /\ stream[i].rec = stream[j].rec => stream[i].n <= stream[j].n

MsgInv ==
  /\ pc = "got" => /\ Due(msg)
                   /\ \A i \in 1..Len(stream) : stream[i].rec = msg.rec => msg.n <= stream[i].n
  /\ pc = "stored" /\ msg.type = "record" => msg.n <= applied[msg.rec]

AcksInv ==
  \A i \in 1..Len(acks) : acks[i].type = "record" => acks[i].n <= applied[acks[i].rec]

CountInv ==
  \A r \in Records : /\ acked[r] <= applied[r] /\ applied[r] <= acked[r] + 1
                     /\ applied[r] <= Len(history[r])

RowInv == \A r \in Records : rows[r] = Mirrored!Content(history[r], applied[r])

IInv == TypeOK /\ StreamInv /\ OrderInv /\ MsgInv /\ AcksInv /\ CountInv /\ RowInv

-----------------------------------------------------------------------------
(* The row after a prefix of the events                                    *)

Kind == {"put", "loose", "delete"}

\* One more event: a loose one changes nothing, another one decides alone.
LEMMA ContentStep ==
  ASSUME NEW h \in Seq(Kind), NEW n \in 1..Len(h)
  PROVE  Mirrored!Content(h, n) =
           IF h[n] = "loose" THEN Mirrored!Content(h, n - 1)
           ELSE IF h[n] = "put" THEN n ELSE 0
<1>1. CASE h[n] = "loose"
  <2>1. Mirrored!Standing(h, n) = Mirrored!Standing(h, n - 1)
    BY <1>1 DEF Mirrored!Standing
  <2> QED BY <1>1, <2>1 DEF Mirrored!Content
<1>2. CASE h[n] = "put"
  <2>1. Mirrored!Standing(h, n) = {n}
    BY <1>2 DEF Mirrored!Standing
  <2> QED BY <1>2, <2>1 DEF Mirrored!Content
<1>3. CASE h[n] = "delete"
  <2>1. Mirrored!Standing(h, n) = {}
    BY <1>3 DEF Mirrored!Standing
  <2> QED BY <1>3, <2>1 DEF Mirrored!Content
<1>4. h[n] \in Kind
  OBVIOUS
<1> QED BY <1>1, <1>2, <1>3, <1>4 DEF Kind

\* The row of no event.
LEMMA ContentZero ==
  ASSUME NEW h PROVE Mirrored!Content(h, 0) = 0
<1>1. Mirrored!Standing(h, 0) = {}
  BY DEF Mirrored!Standing
<1> QED BY <1>1 DEF Mirrored!Content

\* A longer history has the same prefixes.
LEMMA ContentPrefix ==
  ASSUME NEW h \in Seq(Kind), NEW k \in Kind, NEW n \in 0..Len(h)
  PROVE  Mirrored!Content(Append(h, k), n) = Mirrored!Content(h, n)
<1>1. \A j \in 1..n : Append(h, k)[j] = h[j]
  OBVIOUS
<1>2. Mirrored!Standing(Append(h, k), n) = Mirrored!Standing(h, n)
  BY <1>1 DEF Mirrored!Standing
<1> QED BY <1>2 DEF Mirrored!Content

\* What Store does to a row that shows the events before it, or the event itself.
LEMMA StoreFollows ==
  ASSUME NEW r, history[r] \in Seq(Kind), NEW n \in 1..Len(history[r])
  PROVE  /\ RowAfter(Mirrored!Content(history[r], n - 1), r, n) = Mirrored!Content(history[r], n)
         /\ RowAfter(Mirrored!Content(history[r], n), r, n) = Mirrored!Content(history[r], n)
BY ContentStep DEF RowAfter

-----------------------------------------------------------------------------
(* The inductive invariant                                                 *)

LEMMA InitInv == Init => IInv
<1> SUFFICES ASSUME Init PROVE IInv
  OBVIOUS
<1> USE RecordsAssumption, BoundAssumption DEF RecordsAssumption, BoundAssumption
<1>1. TypeOK
  BY DEF Init, TypeOK, NoMessage, Message
<1>2. \A r \in Records : Mirrored!Content(history[r], applied[r]) = 0
  BY ContentZero DEF Init
<1>3. RowInv
  BY <1>2 DEF Init, RowInv
<1>4. StreamInv /\ OrderInv /\ MsgInv /\ AcksInv /\ CountInv
  BY DEF Init, StreamInv, OrderInv, MsgInv, AcksInv, CountInv
<1> QED BY <1>1, <1>3, <1>4 DEF IInv

\* A message is a record of one of three forms.
LEMMA MessageForms ==
  ASSUME NEW m \in Messages
  PROVE  \/ m.type = "record" /\ m.rec \in Records /\ m.rec # None /\ m.n \in 1..MaxEvents
         \/ m.type \in {"identity", "unknown"} /\ m.rec = None /\ m.n = 0
BY RecordsAssumption DEF RecordsAssumption, Messages, Message

LEMMA NotNone == NoMessage \notin Messages
BY DEF NoMessage, Messages, Message

\* Each step keeps the types.
LEMMA TypeStep == IInv /\ [Next]_vars => TypeOK'
<1> SUFFICES ASSUME IInv, [Next]_vars PROVE TypeOK'
  OBVIOUS
<1> USE RecordsAssumption, BoundAssumption DEF RecordsAssumption, BoundAssumption
<1>0. TypeOK
  BY DEF IInv
<1>1. ASSUME NEW r \in Records, Publish(r) PROVE TypeOK'
  <2>1. PICK k \in Kinds(r) : history' = [history EXCEPT ![r] = Append(@, k)]
    BY <1>1 DEF Publish
  <2>2. k \in Kind
    BY DEF Kinds, Mirrored!Kinds, Kind
  <2>3. history' \in [Records -> Seq(Kind)]
    BY <1>0, <2>1, <2>2 DEF TypeOK, Kind
  <2>4. \A q \in Records : Len(history[q]) <= Len(history'[q]) /\ Len(history'[q]) <= MaxEvents
    BY <1>0, <1>1, <2>1, <2>2 DEF TypeOK, Publish, Kind
  <2> QED BY <1>0, <1>1, <2>3, <2>4 DEF TypeOK, Publish, Kind, conn
<1>2. ASSUME NEW m \in Messages, Sends(m) PROVE TypeOK'
  BY <1>0, <1>2 DEF TypeOK, Sends, tap
<1>3. ASSUME NEW r \in Records, Deliver(r) PROVE TypeOK'
  <2>1. Message("record", r, acked[r] + 1) \in Messages
    BY <1>0, <1>3 DEF TypeOK, Deliver, Messages, Message
  <2> QED BY <1>2, <1>3, <2>1 DEF Deliver
<1>4. CASE DeliverOther
  BY <1>2, <1>4 DEF DeliverOther, Messages
<1>5. CASE TakeAck
  <2>1. Head(acks) \in Messages /\ acks' \in Seq(Messages)
    BY <1>0, <1>5 DEF TypeOK, TakeAck
  <2>2. PICK a \in Messages : a = Head(acks)
    BY <2>1
  <2>3. acked' = IF a.type = "record" /\ a.n = acked[a.rec] + 1
                   THEN [acked EXCEPT ![a.rec] = a.n] ELSE acked
    BY <1>5, <2>2 DEF TakeAck
  <2>4. a.type = "record" => a.rec \in Records /\ a.n \in 1..MaxEvents
    BY MessageForms
  <2>5. a.type = "record" => a.n <= Len(history[a.rec])
    <3>1. Len(acks) >= 1 /\ a = acks[1]
      BY <1>0, <1>5, <2>2 DEF TypeOK, TakeAck
    <3>2. a.type = "record" => a.n <= applied[a.rec]
      BY <1>0, <3>1 DEF IInv, AcksInv, TypeOK
    <3>3. \A r \in Records : applied[r] \in Int /\ Len(history[r]) \in Int /\ applied[r] <= Len(history[r])
      BY <1>0 DEF IInv, CountInv, TypeOK
    <3> QED BY <2>4, <3>2, <3>3
  <2>6. acked' \in [Records -> 0..MaxEvents] /\ \A r \in Records : acked'[r] <= Len(history[r])
    <3>1. CASE acked' = acked
      BY <1>0, <3>1 DEF TypeOK
    <3>2. CASE a.type = "record" /\ acked' = [acked EXCEPT ![a.rec] = a.n]
      <4>1. a.rec \in Records /\ a.n \in 0..MaxEvents /\ a.n <= Len(history[a.rec])
        BY <2>4, <2>5, <3>2
      <4> QED BY <1>0, <3>2, <4>1 DEF TypeOK
    <3> QED BY <2>3, <3>1, <3>2
  <2> QED BY <1>0, <1>5, <2>1, <2>6 DEF TypeOK, TakeAck
<1>6. CASE Read
  <2>1. Head(stream) \in Messages /\ Tail(stream) \in Seq(Messages)
    BY <1>0, <1>6 DEF TypeOK, Read
  <2> QED BY <1>0, <1>6, <2>1, NotNone DEF TypeOK, Read, tap
<1>7. CASE SkipIdentity
  BY <1>0, <1>7 DEF TypeOK, SkipIdentity, tap, conn
<1>8. CASE SkipUnknown
  BY <1>0, <1>8 DEF TypeOK, SkipUnknown, tap, conn
<1>9. CASE Store
  <2>1. msg \in Messages /\ msg.type = "record"
    BY <1>0, <1>9 DEF TypeOK, Store
  <2>2. msg.rec \in Records /\ msg.n \in 0..MaxEvents
    BY <2>1, MessageForms
  <2>3. RowAfter(rows[msg.rec], msg.rec, msg.n) \in 0..MaxEvents
    BY <1>0, <2>2 DEF TypeOK, RowAfter
  <2> QED BY <1>0, <1>9, <2>2, <2>3 DEF TypeOK, Store, tap, conn
<1>10. CASE Ack
  <2>1. msg \in Messages
    BY <1>0, <1>10 DEF TypeOK, Ack
  <2> QED BY <1>0, <1>10, <2>1 DEF TypeOK, Ack, tap
<1>11. CASE Exit
  BY <1>0, <1>11 DEF TypeOK, Exit, tap
<1>12. CASE Start
  BY <1>0, <1>12 DEF TypeOK, Start, tap, conn
<1>13. CASE UNCHANGED vars
  BY <1>0, <1>13 DEF TypeOK, vars, tap, conn
<1> QED BY <1>1, <1>3, <1>4, <1>5, <1>6, <1>7, <1>8, <1>9, <1>10, <1>11, <1>12, <1>13 DEF Next, Server

\* The first message in the queue, and the queue without it.
LEMMA HeadOfStream ==
  ASSUME NEW q \in Seq(Messages), q # <<>>
  PROVE  /\ Head(q) = q[1] /\ 1 \in 1..Len(q)
         /\ Tail(q) \in Seq(Messages)
         /\ \A i \in 1..Len(Tail(q)) : i + 1 \in 1..Len(q) /\ Tail(q)[i] = q[i + 1]
OBVIOUS

\* A message behind the queue.
LEMMA BehindStream ==
  ASSUME NEW q \in Seq(Messages), NEW m
  PROVE  \A i \in 1..Len(Append(q, m)) :
           \/ i \in 1..Len(q) /\ Append(q, m)[i] = q[i]
           \/ i = Len(q) + 1 /\ Append(q, m)[i] = m
OBVIOUS

\* Acknowledgements and events are only added.
Grow == \A r \in Records : acked[r] <= acked'[r] /\ Len(history[r]) <= Len(history'[r])

LEMMA Grows == TypeOK /\ [Next]_vars => Grow
<1> SUFFICES ASSUME TypeOK, [Next]_vars PROVE Grow
  OBVIOUS
<1> USE DEF Grow, TypeOK
<1>1. ASSUME NEW r \in Records, Publish(r) PROVE Grow
  BY <1>1 DEF Publish, Kinds, Mirrored!Kinds
<1>2. CASE TakeAck
  <2>1. Head(acks) \in Messages
    BY <1>2 DEF TakeAck
  <2>2. PICK a \in Messages : a = Head(acks)
    BY <2>1
  <2>3. acked' = IF a.type = "record" /\ a.n = acked[a.rec] + 1
                   THEN [acked EXCEPT ![a.rec] = a.n] ELSE acked
    BY <1>2, <2>2 DEF TakeAck
  <2>4. a.type = "record" => a.rec \in Records /\ a.n \in 1..MaxEvents
    BY MessageForms
  <2>5. history' = history
    BY <1>2 DEF TakeAck
  <2>6. \A r \in Records : acked[r] <= acked'[r]
    BY <2>3, <2>4
  <2> QED BY <2>5, <2>6
<1>3. CASE UNCHANGED tap
  BY <1>3 DEF tap
<1>4. \A r \in Records : Deliver(r) => UNCHANGED tap
  BY DEF Deliver, Sends
<1>5. DeliverOther \/ Server \/ Exit => UNCHANGED tap
  BY DEF DeliverOther, Sends, Server, Read, SkipIdentity, SkipUnknown, Store, Ack, Exit, Start
<1>6. UNCHANGED vars => UNCHANGED tap
  BY DEF vars
<1> QED BY <1>1, <1>2, <1>3, <1>4, <1>5, <1>6 DEF Next

\* A message that is due stays due unless an event is stored.
LEMMA DueKept ==
  ASSUME TypeOK, TypeOK', Grow, applied' = applied
  PROVE  \A m \in Messages : Due(m) => Due(m)'
<1> SUFFICES ASSUME NEW m \in Messages, Due(m), m.type = "record"
             PROVE  /\ applied[m.rec] <= m.n /\ m.n <= acked'[m.rec] + 1
                    /\ m.n <= Len(history'[m.rec])
  BY DEF Due
<1>1. m.rec \in Records /\ m.n \in Int
  BY MessageForms
<1>2. acked[m.rec] \in Int /\ acked'[m.rec] \in Int
  BY <1>1 DEF TypeOK
<1>3. Len(history[m.rec]) \in Int /\ Len(history'[m.rec]) \in Int
  BY <1>1 DEF TypeOK
<1>4. acked[m.rec] <= acked'[m.rec] /\ Len(history[m.rec]) <= Len(history'[m.rec])
  BY <1>1 DEF Grow
<1> QED BY <1>1, <1>2, <1>3, <1>4 DEF Due

\* Only Store changes what was handled, and only Sends, Read and Exit the queue.
LEMMA Frame ==
  ASSUME [Next]_vars
  PROVE  /\ Store \/ UNCHANGED <<applied, rows>>
         /\ \/ Read \/ Exit \/ UNCHANGED stream
            \/ \E r \in Records : Deliver(r)
            \/ DeliverOther
         /\ Ack \/ Exit \/ TakeAck \/ UNCHANGED acks
<1> USE DEF tap, conn
<1>1. \A r \in Records : Publish(r) => UNCHANGED <<applied, rows, stream, acks>>
  BY DEF Publish
<1>2. \A r \in Records : Deliver(r) => UNCHANGED <<applied, rows, acks>>
  BY DEF Deliver, Sends
<1>3. DeliverOther => UNCHANGED <<applied, rows, acks>>
  BY DEF DeliverOther, Sends
<1>4. TakeAck => UNCHANGED <<applied, rows, stream>>
  BY DEF TakeAck
<1>5. Read => UNCHANGED <<applied, rows, acks>>
  BY DEF Read
<1>6. SkipIdentity \/ SkipUnknown \/ Start => UNCHANGED <<applied, rows, stream, acks>>
  BY DEF SkipIdentity, SkipUnknown, Start
<1>7. Store => UNCHANGED <<stream, acks>>
  BY DEF Store
<1>8. Ack => UNCHANGED <<applied, rows, stream>>
  BY DEF Ack
<1>9. Exit => UNCHANGED <<applied, rows>>
  BY DEF Exit
<1>10. UNCHANGED vars => UNCHANGED <<applied, rows, stream, acks>>
  BY DEF vars
<1> QED
  BY <1>1, <1>2, <1>3, <1>4, <1>5, <1>6, <1>7, <1>8, <1>9, <1>10 DEF Next, Server

\* What the Tap sends is due, and not older than anything it sent before.
LEMMA SentIsDue ==
  ASSUME IInv, NEW r \in Records, Deliver(r)
  PROVE  \E m \in Messages :
           /\ stream' = Append(stream, m) /\ Due(m) /\ UNCHANGED <<tap, pc, msg, applied>>
           /\ m.type = "record" /\ m.rec = r /\ m.n = acked[r] + 1
<1> DEFINE sent == Message("record", r, acked[r] + 1)
<1>1. PICK m : m = sent
  OBVIOUS
<1>2. acked[r] \in 0..MaxEvents /\ Len(history[r]) \in Int /\ Len(history[r]) <= MaxEvents
  BY DEF IInv, TypeOK
<1>3. acked[r] < Len(history[r]) /\ stream' = Append(stream, m) /\ UNCHANGED <<tap, pc, msg, applied>>
  BY <1>1 DEF Deliver, Sends
<1>4. m.type = "record" /\ m.rec = r /\ m.n = acked[r] + 1
  BY <1>1 DEF Message
<1>5. m \in Messages
  BY <1>1, <1>2, <1>3, BoundAssumption DEF Message, Messages, BoundAssumption
<1>6. applied[r] \in Int /\ applied[r] <= acked[r] + 1
  BY DEF IInv, TypeOK, CountInv
<1>7. Due(m)
  BY <1>2, <1>3, <1>4, <1>6 DEF Due
<1> QED BY <1>3, <1>4, <1>5, <1>7

LEMMA StreamStep == IInv /\ [Next]_vars /\ TypeOK' => StreamInv'
<1> SUFFICES ASSUME IInv, [Next]_vars, TypeOK' PROVE StreamInv'
  OBVIOUS
<1>0. TypeOK /\ StreamInv /\ MsgInv /\ CountInv /\ Grow /\ stream \in Seq(Messages)
  BY Grows DEF IInv, TypeOK
<1>1. ASSUME applied' = applied, UNCHANGED stream PROVE StreamInv'
  BY <1>0, <1>1, DueKept DEF StreamInv
<1>2. ASSUME applied' = applied, NEW m \in Messages, stream' = Append(stream, m), Due(m) PROVE StreamInv'
  <2>1. \A c \in Messages : Due(c) => Due(c)'
    BY <1>0, <1>2, DueKept
  <2> SUFFICES ASSUME NEW i \in 1..Len(stream') PROVE Due(stream[i])'
    BY DEF StreamInv
  <2>2. PICK c : c = stream'[i]
    OBVIOUS
  <2>3. c \in Messages /\ Due(c)
    BY <1>0, <1>2, <2>2, BehindStream DEF StreamInv
  <2>4. Due(c)'
    BY <2>1, <2>3
  <2> QED BY <2>2, <2>4 DEF Due
<1>3. ASSUME NEW r \in Records, Deliver(r) PROVE StreamInv'
  BY <1>2, <1>3, SentIsDue
<1>4. CASE DeliverOther
  <2>1. PICK t \in {"identity", "unknown"} : Sends(Message(t, None, 0))
    BY <1>4 DEF DeliverOther
  <2>2. PICK m : m = Message(t, None, 0)
    OBVIOUS
  <2>3. m \in Messages /\ Due(m)
    BY <2>2 DEF Messages, Message, Due
  <2> QED BY <1>2, <2>1, <2>2, <2>3 DEF Sends
<1>5. CASE Read
  <2>1. stream # <<>> /\ stream' = Tail(stream) /\ applied' = applied
    BY <1>5 DEF Read
  <2>2. \A c \in Messages : Due(c) => Due(c)'
    BY <1>0, <2>1, DueKept
  <2>3. \A i \in 1..Len(stream') : i + 1 \in 1..Len(stream) /\ stream'[i] = stream[i + 1]
    BY <1>0, <2>1, HeadOfStream
  <2> SUFFICES ASSUME NEW i \in 1..Len(stream') PROVE Due(stream[i])'
    BY DEF StreamInv
  <2>4. PICK c : c = stream'[i]
    OBVIOUS
  <2>5. c \in Messages /\ Due(c)
    BY <1>0, <2>3, <2>4 DEF StreamInv
  <2>6. Due(c)'
    BY <2>2, <2>5
  <2> QED BY <2>4, <2>6 DEF Due
<1>6. CASE Exit
  BY <1>6 DEF Exit, StreamInv
<1>7. CASE Store
  <2> SUFFICES ASSUME NEW i \in 1..Len(stream), stream[i].type = "record"
               PROVE  applied'[stream[i].rec] <= stream[i].n
    BY <1>0, <1>7 DEF StreamInv, Due, Store, tap, conn
  <2>1. stream[i] \in Messages /\ stream[i].rec \in Records /\ applied[stream[i].rec] <= stream[i].n
    BY <1>0, MessageForms DEF StreamInv, Due
  <2>2. msg \in Messages /\ msg.type = "record" /\ msg.rec \in Records
    BY <1>0, <1>7, MessageForms DEF Store, TypeOK
  <2>3. stream[i].rec = msg.rec => msg.n <= stream[i].n
    BY <1>0, <1>7 DEF MsgInv, Store
  <2>4. applied' = [applied EXCEPT ![msg.rec] = msg.n] /\ applied \in [Records -> 0..MaxEvents]
    BY <1>0, <1>7 DEF Store, TypeOK
  <2> QED BY <2>1, <2>2, <2>3, <2>4
<1> QED BY <1>1, <1>3, <1>4, <1>5, <1>6, <1>7, Frame

\* What another message of the Tap has: no record.
LEMMA OtherIsDue ==
  ASSUME DeliverOther
  PROVE  \E m \in Messages :
           /\ stream' = Append(stream, m) /\ UNCHANGED <<tap, pc, msg, applied>>
           /\ m.rec = None /\ m.n = 0
<1>1. PICK t \in {"identity", "unknown"} : Sends(Message(t, None, 0))
  BY DEF DeliverOther
<1>2. PICK m : m = Message(t, None, 0)
  OBVIOUS
<1>3. m \in Messages /\ m.rec = None /\ m.n = 0
  BY <1>2 DEF Messages, Message
<1> QED BY <1>1, <1>2, <1>3 DEF Sends

LEMMA OrderStep == IInv /\ [Next]_vars => OrderInv'
<1> SUFFICES ASSUME IInv, [Next]_vars PROVE OrderInv'
  OBVIOUS
<1>0. TypeOK /\ StreamInv /\ OrderInv /\ stream \in Seq(Messages)
  BY DEF IInv, TypeOK
<1>1. ASSUME NEW m \in Messages, stream' = Append(stream, m),
             \A i \in 1..Len(stream) : stream[i].rec = m.rec => stream[i].n <= m.n
      PROVE  OrderInv'
  <2> SUFFICES ASSUME NEW i \in 1..Len(stream'), NEW j \in 1..Len(stream'),
                      i < j, stream'[i].rec = stream'[j].rec
               PROVE  stream'[i].n <= stream'[j].n
    BY DEF OrderInv
  <2>1. i \in 1..Len(stream) /\ stream'[i] = stream[i]
    BY <1>0, <1>1
  <2>2. CASE j \in 1..Len(stream) /\ stream'[j] = stream[j]
    BY <1>0, <2>1, <2>2 DEF OrderInv
  <2>3. CASE stream'[j] = m
    BY <1>1, <2>1, <2>3
  <2> QED BY <1>0, <1>1, <2>2, <2>3, BehindStream
<1>2. ASSUME NEW r \in Records, Deliver(r) PROVE OrderInv'
  <2>1. PICK m \in Messages : /\ stream' = Append(stream, m)
                             /\ m.rec = r /\ m.n = acked[r] + 1
    BY <1>2, SentIsDue
  <2>2. ASSUME NEW i \in 1..Len(stream), stream[i].rec = m.rec PROVE stream[i].n <= m.n
    BY <1>0, <2>1, <2>2, MessageForms, RecordsAssumption DEF StreamInv, Due, RecordsAssumption
  <2> QED BY <1>1, <2>1, <2>2
<1>3. CASE DeliverOther
  <2>1. PICK m \in Messages : stream' = Append(stream, m) /\ m.rec = None /\ m.n = 0
    BY <1>3, OtherIsDue
  <2>2. ASSUME NEW i \in 1..Len(stream), stream[i].rec = m.rec PROVE stream[i].n <= m.n
    BY <1>0, <2>1, <2>2, MessageForms
  <2> QED BY <1>1, <2>1, <2>2
<1>4. CASE Read
  <2>1. stream # <<>> /\ stream' = Tail(stream)
    BY <1>4 DEF Read
  <2>2. \A i \in 1..Len(stream') : i + 1 \in 1..Len(stream) /\ stream'[i] = stream[i + 1]
    BY <1>0, <2>1, HeadOfStream
  <2> QED BY <1>0, <2>2 DEF OrderInv
<1>5. CASE Exit
  BY <1>5 DEF Exit, OrderInv
<1>6. CASE UNCHANGED stream
  BY <1>0, <1>6 DEF OrderInv
<1> QED BY <1>2, <1>3, <1>4, <1>5, <1>6, Frame

LEMMA MsgStep == IInv /\ [Next]_vars /\ TypeOK' => MsgInv'
<1> SUFFICES ASSUME IInv, [Next]_vars, TypeOK' PROVE MsgInv'
  OBVIOUS
<1>0. /\ TypeOK /\ StreamInv /\ OrderInv /\ MsgInv /\ Grow /\ stream \in Seq(Messages)
      /\ pc \in {"got", "stored"} => msg \in Messages
  BY Grows DEF IInv, TypeOK
<1>1. ASSUME UNCHANGED <<pc, msg, stream, applied>> PROVE MsgInv'
  <2>1. \A m \in Messages : Due(m) => Due(m)'
    BY <1>0, <1>1, DueKept
  <2>2. pc = "got" => \E m \in Messages : m = msg /\ Due(m)
    BY <1>0 DEF MsgInv
  <2>3. pc = "got" => Due(msg)'
    BY <1>1, <2>1, <2>2 DEF Due
  <2> QED BY <1>0, <1>1, <2>3 DEF MsgInv
<1>2. ASSUME NEW m \in Messages, stream' = Append(stream, m), UNCHANGED <<tap, pc, msg, applied>>,
             pc = "got" /\ m.rec = msg.rec => msg.n <= m.n
      PROVE  MsgInv'
  <2>1. pc = "got" => Due(msg)'
    BY <1>0, <1>2 DEF MsgInv, Due, tap
  <2>2. ASSUME pc = "got", NEW i \in 1..Len(stream'), stream'[i].rec = msg.rec
        PROVE  msg.n <= stream'[i].n
    <3>1. CASE i \in 1..Len(stream) /\ stream'[i] = stream[i]
      BY <1>0, <2>2, <3>1 DEF MsgInv
    <3>2. CASE stream'[i] = m
      BY <1>2, <2>2, <3>2
    <3> QED BY <1>0, <1>2, <3>1, <3>2, BehindStream
  <2> QED BY <1>0, <1>2, <2>1, <2>2 DEF MsgInv
<1>3. ASSUME NEW r \in Records, Deliver(r) PROVE MsgInv'
  <2>1. PICK m \in Messages : /\ stream' = Append(stream, m) /\ UNCHANGED <<tap, pc, msg, applied>>
                             /\ m.rec = r /\ m.n = acked[r] + 1
    BY <1>3, SentIsDue
  <2>2. pc = "got" /\ m.rec = msg.rec => msg.n <= m.n
    BY <1>0, <2>1, MessageForms, RecordsAssumption DEF MsgInv, Due, RecordsAssumption
  <2> QED BY <1>2, <2>1, <2>2
<1>4. CASE DeliverOther
  <2>1. PICK m \in Messages : /\ stream' = Append(stream, m) /\ UNCHANGED <<tap, pc, msg, applied>>
                             /\ m.rec = None /\ m.n = 0
    BY <1>4, OtherIsDue
  <2>2. pc = "got" /\ m.rec = msg.rec => msg.n <= m.n
    BY <1>0, <2>1, MessageForms
  <2> QED BY <1>2, <2>1, <2>2
<1>5. CASE Read
  <2>1. /\ stream # <<>> /\ stream' = Tail(stream) /\ msg' = Head(stream) /\ pc' = "got"
        /\ UNCHANGED <<tap, applied>>
    BY <1>5 DEF Read
  <2>2. /\ msg' = stream[1] /\ 1 \in 1..Len(stream)
        /\ \A i \in 1..Len(stream') : i + 1 \in 1..Len(stream) /\ stream'[i] = stream[i + 1]
    BY <1>0, <2>1, HeadOfStream
  <2>3. Due(msg)'
    BY <1>0, <2>1, <2>2 DEF StreamInv, Due, tap
  <2>4. \A i \in 1..Len(stream') : stream'[i].rec = msg'.rec => msg'.n <= stream'[i].n
    BY <1>0, <2>2 DEF OrderInv
  <2> QED BY <2>1, <2>3, <2>4 DEF MsgInv
<1>6. CASE Store
  <2>1. msg \in Messages /\ msg.type = "record" /\ msg.rec \in Records /\ msg.n \in 1..MaxEvents
    BY <1>0, <1>6, MessageForms DEF Store
  <2>2. applied'[msg.rec] = msg.n /\ msg' = msg /\ pc' = "stored"
    BY <1>0, <1>6, <2>1 DEF Store, TypeOK
  <2> QED BY <2>1, <2>2 DEF MsgInv
<1>7. CASE SkipUnknown
  BY <1>7 DEF SkipUnknown, MsgInv
<1>8. CASE SkipIdentity \/ Ack \/ Exit \/ Start
  BY <1>8 DEF SkipIdentity, Ack, Exit, Start, MsgInv
<1>9. TakeAck => UNCHANGED <<pc, msg, stream, applied>>
  BY DEF TakeAck
<1>10. \A r \in Records : Publish(r) => UNCHANGED <<pc, msg, stream, applied>>
  BY DEF Publish, conn
<1>11. UNCHANGED vars => UNCHANGED <<pc, msg, stream, applied>>
  BY DEF vars, conn
<1> QED
  BY <1>1, <1>3, <1>4, <1>5, <1>6, <1>7, <1>8, <1>9, <1>10, <1>11 DEF Next, Server

\* The message that Store handles is the last one of its record again, or the next one.
LEMMA StoredIsNext ==
  ASSUME IInv, Store
  PROVE  /\ msg \in Messages /\ msg.rec \in Records /\ msg.n \in 1..Len(history[msg.rec])
         /\ msg.n = applied[msg.rec] \/ msg.n = applied[msg.rec] + 1
         /\ msg.n <= acked[msg.rec] + 1
         /\ applied' = [applied EXCEPT ![msg.rec] = msg.n]
         /\ UNCHANGED <<tap, conn>>
<1>1. msg \in Messages /\ msg.rec \in Records /\ msg.n \in 1..MaxEvents /\ msg.type = "record"
  BY MessageForms DEF IInv, TypeOK, Store
<1>2. /\ applied[msg.rec] <= msg.n /\ msg.n <= acked[msg.rec] + 1
      /\ msg.n <= Len(history[msg.rec])
  BY <1>1 DEF IInv, MsgInv, Due, Store
<1>3. /\ acked[msg.rec] \in Int /\ applied[msg.rec] \in Int /\ Len(history[msg.rec]) \in Int
      /\ acked[msg.rec] <= applied[msg.rec]
  BY <1>1 DEF IInv, TypeOK, CountInv
<1>4. applied' = [applied EXCEPT ![msg.rec] = msg.n] /\ UNCHANGED <<tap, conn>>
  BY DEF Store
<1> QED BY <1>1, <1>2, <1>3, <1>4

LEMMA AcksStep == IInv /\ [Next]_vars => AcksInv'
<1> SUFFICES ASSUME IInv, [Next]_vars PROVE AcksInv'
  OBVIOUS
<1>0. /\ TypeOK /\ MsgInv /\ AcksInv /\ acks \in Seq(Messages)
      /\ applied \in [Records -> 0..MaxEvents]
  BY DEF IInv, TypeOK
<1>1. CASE Store
  <2>1. acks' = acks /\ \A r \in Records : applied[r] <= applied'[r]
    BY <1>0, <1>1, StoredIsNext DEF conn
  <2> SUFFICES ASSUME NEW i \in 1..Len(acks), acks[i].type = "record"
               PROVE  acks[i].n <= applied'[acks[i].rec]
    BY <2>1 DEF AcksInv
  <2>2. acks[i].rec \in Records /\ acks[i].n \in Int /\ acks[i].n <= applied[acks[i].rec]
    BY <1>0, MessageForms DEF AcksInv
  <2>3. \A r \in Records : applied[r] \in Int /\ applied'[r] \in Int
    BY <1>0, <1>1, StoredIsNext
  <2> QED BY <2>1, <2>2, <2>3
<1>2. CASE Ack
  <2>1. acks' = Append(acks, msg) /\ UNCHANGED applied /\ pc = "stored" /\ msg \in Messages
    BY <1>0, <1>2 DEF Ack, TypeOK
  <2> SUFFICES ASSUME NEW i \in 1..Len(acks'), acks'[i].type = "record"
               PROVE  acks'[i].n <= applied[acks'[i].rec]
    BY <2>1 DEF AcksInv
  <2>2. CASE i \in 1..Len(acks) /\ acks'[i] = acks[i]
    BY <1>0, <2>2 DEF AcksInv
  <2>3. CASE acks'[i] = msg
    BY <1>0, <2>1, <2>3 DEF MsgInv
  <2> QED BY <1>0, <2>1, <2>2, <2>3, BehindStream
<1>3. CASE TakeAck
  <2>1. acks # <<>> /\ acks' = Tail(acks) /\ UNCHANGED applied
    BY <1>3 DEF TakeAck
  <2>2. \A i \in 1..Len(acks') : i + 1 \in 1..Len(acks) /\ acks'[i] = acks[i + 1]
    BY <1>0, <2>1, HeadOfStream
  <2> QED BY <1>0, <2>1, <2>2 DEF AcksInv
<1>4. CASE Exit
  BY <1>4 DEF Exit, AcksInv
<1>5. CASE UNCHANGED <<applied, rows>> /\ UNCHANGED acks
  BY <1>0, <1>5 DEF AcksInv
<1> QED BY <1>1, <1>2, <1>3, <1>4, <1>5, Frame

\* An acknowledgement that counts is that of an event which was handled.
LEMMA TakenIsStored ==
  ASSUME IInv, TakeAck
  PROVE  /\ UNCHANGED <<history, applied, rows>>
         /\ \/ acked' = acked
            \/ \E r \in Records : /\ acked[r] + 1 <= applied[r]
                                  /\ acked' = [acked EXCEPT ![r] = acked[r] + 1]
<1>1. acks \in Seq(Messages) /\ acks # <<>>
  BY DEF IInv, TypeOK, TakeAck
<1>2. PICK a \in Messages : a = acks[1]
  BY <1>1, HeadOfStream
<1>3. acked' = IF a.type = "record" /\ a.n = acked[a.rec] + 1
                 THEN [acked EXCEPT ![a.rec] = a.n] ELSE acked
  BY <1>1, <1>2, HeadOfStream DEF TakeAck
<1>4. a.type = "record" => a.rec \in Records /\ a.n <= applied[a.rec]
  BY <1>1, <1>2, HeadOfStream, MessageForms DEF IInv, AcksInv
<1>5. UNCHANGED <<history, applied, rows>>
  BY DEF TakeAck
<1> QED BY <1>3, <1>4, <1>5

LEMMA CountStep == IInv /\ [Next]_vars /\ TypeOK' => CountInv'
<1> SUFFICES ASSUME IInv, [Next]_vars, TypeOK' PROVE CountInv'
  OBVIOUS
<1>0. /\ CountInv /\ Grow
      /\ \A r \in Records : /\ acked[r] \in Int /\ applied[r] \in Int
                            /\ Len(history[r]) \in Int /\ Len(history'[r]) \in Int
      /\ acked \in [Records -> 0..MaxEvents] /\ applied \in [Records -> 0..MaxEvents]
  BY Grows DEF IInv, TypeOK
<1>1. CASE Store
  BY <1>0, <1>1, StoredIsNext DEF CountInv, tap
<1>2. CASE TakeAck
  BY <1>0, <1>2, TakenIsStored DEF CountInv
<1>3. CASE UNCHANGED <<acked, applied>>
  BY <1>0, <1>3 DEF CountInv, Grow
<1>4. TakeAck \/ UNCHANGED acked
  BY DEF Next, Server, Publish, Deliver, DeliverOther, Sends, Read, SkipIdentity, SkipUnknown,
         Store, Ack, Exit, Start, vars, tap
<1> QED BY <1>1, <1>2, <1>3, <1>4, Frame

LEMMA RowStep == IInv /\ [Next]_vars => RowInv'
<1> SUFFICES ASSUME IInv, [Next]_vars PROVE RowInv'
  OBVIOUS
<1>0. /\ RowInv /\ rows \in [Records -> 0..MaxEvents] /\ applied \in [Records -> 0..MaxEvents]
      /\ history \in [Records -> Seq(Kind)]
      /\ \A r \in Records : applied[r] \in 0..Len(history[r])
  BY DEF IInv, TypeOK, CountInv, Kind
<1>1. CASE Store
  <2>1. rows' = [rows EXCEPT ![msg.rec] = RowAfter(rows[msg.rec], msg.rec, msg.n)]
    BY <1>1 DEF Store
  <2>2. PICK r, n : r = msg.rec /\ n = msg.n
    OBVIOUS
  <2>3. /\ r \in Records /\ n \in 1..Len(history[r]) /\ history' = history
        /\ n = applied[r] \/ n - 1 = applied[r]
        /\ applied' = [applied EXCEPT ![r] = n]
    BY <1>0, <1>1, <2>2, StoredIsNext DEF tap
  <2>4. rows'[r] = RowAfter(rows[r], r, n) /\ \A q \in Records : q # r => rows'[q] = rows[q]
    BY <1>0, <2>1, <2>2, <2>3
  <2>5. rows[r] = Mirrored!Content(history[r], n) \/ rows[r] = Mirrored!Content(history[r], n - 1)
    BY <1>0, <2>3 DEF RowInv
  <2>6. rows'[r] = Mirrored!Content(history[r], n)
    BY <1>0, <2>3, <2>4, <2>5, StoreFollows
  <2> QED BY <1>0, <2>3, <2>4, <2>6 DEF RowInv
<1>2. ASSUME NEW r \in Records, Publish(r) PROVE RowInv'
  <2>1. PICK k \in Kind : history' = [history EXCEPT ![r] = Append(history[r], k)]
    BY <1>2 DEF Publish, Kinds, Mirrored!Kinds, Kind
  <2>2. applied' = applied /\ rows' = rows
    BY <1>2 DEF Publish
  <2>3. Mirrored!Content(Append(history[r], k), applied[r]) = Mirrored!Content(history[r], applied[r])
    BY <1>0, ContentPrefix
  <2> QED BY <1>0, <2>1, <2>2, <2>3 DEF RowInv
<1>3. CASE UNCHANGED <<history, applied, rows>>
  BY <1>0, <1>3 DEF RowInv
<1>4. Store \/ (\E r \in Records : Publish(r)) \/ UNCHANGED history
  BY DEF Next, Server, Deliver, DeliverOther, Sends, TakeAck, Read, SkipIdentity, SkipUnknown,
         Ack, Exit, Start, vars, tap
<1> QED BY <1>1, <1>2, <1>3, <1>4, Frame

LEMMA Invariance == Spec => []IInv
<1>1. IInv /\ [Next]_vars => IInv'
  BY TypeStep, StreamStep, OrderStep, MsgStep, AcksStep, CountStep, RowStep DEF IInv
<1> QED BY <1>1, InitInv, PTL DEF Spec

-----------------------------------------------------------------------------
(* Theorems                                                                *)

\* The variables have their types.
THEOREM AtTypeCorrect == Spec => []TypeOK
<1>1. IInv => TypeOK
  BY DEF IInv
<1> QED BY <1>1, Invariance, PTL

\* What the Tap has forgotten is in the table, whenever the process ends.
THEOREM StoredBeforeAcked == Spec => []AckedIsStored
<1>1. IInv => AckedIsStored
  <2> SUFFICES ASSUME IInv, NEW r \in Records
               PROVE  \E n \in {acked[r], acked[r] + 1} :
                        n <= Len(history[r]) /\ rows[r] = Mirrored!Content(history[r], n)
    BY DEF AckedIsStored
  <2>1. applied[r] \in {acked[r], acked[r] + 1} /\ applied[r] <= Len(history[r])
    BY DEF IInv, CountInv, TypeOK
  <2>2. rows[r] = Mirrored!Content(history[r], applied[r])
    BY DEF IInv, RowInv
  <2> QED BY <2>1, <2>2
<1> QED BY <1>1, Invariance, PTL

\* The tables mirror every record event by event, whatever the Tap repeats and
\* whenever the process ends.
THEOREM MirrorsInOrder == Spec => ImplementsMirror
<1>1. Init => Mirrored!Init
  BY DEF Init, Mirrored!Init
<1>2. IInv /\ [Next]_vars /\ IInv' => [Mirrored!Next]_<<history, rows, applied>>
  <2> SUFFICES ASSUME IInv, [Next]_vars, IInv', ~UNCHANGED <<history, rows, applied>>
               PROVE  Mirrored!Next
    OBVIOUS
  <2>1. ASSUME NEW r \in Records, Publish(r) PROVE Mirrored!Next
    BY <2>1 DEF Publish, Kinds, Mirrored!Next, Mirrored!Publish
  <2>2. CASE Store
    <3>1. PICK r, n : r = msg.rec /\ n = msg.n
      OBVIOUS
    <3>2. /\ r \in Records /\ n \in 1..Len(history[r]) /\ history' = history
          /\ n = applied[r] \/ n = applied[r] + 1
          /\ applied' = [applied EXCEPT ![r] = n]
      BY <2>2, <3>1, StoredIsNext DEF tap
    <3>3. rows' = [rows EXCEPT ![r] = RowAfter(rows[r], r, n)]
      BY <2>2, <3>1 DEF Store
    <3>4. /\ rows \in [Records -> 0..MaxEvents] /\ applied \in [Records -> 0..MaxEvents]
          /\ rows'[r] = RowAfter(rows[r], r, n)
      BY <3>2, <3>3 DEF IInv, TypeOK
    <3>5. rows'[r] = Mirrored!Content(history[r], n)
      <4>1. applied'[r] = n
        BY <3>2, <3>4
      <4> QED BY <3>2, <4>1 DEF IInv, RowInv
    <3>6. CASE n = applied[r]
      <4>1. rows'[r] = rows[r]
        BY <3>2, <3>5, <3>6 DEF IInv, RowInv
      <4> QED BY <3>2, <3>3, <3>4, <3>6, <4>1
    <3>7. CASE n = applied[r] + 1
      <4>1. RowAfter(rows[r], r, n) = Mirrored!Content(history[r], applied[r] + 1)
        BY <3>4, <3>5, <3>7
      <4>2. rows' = [rows EXCEPT ![r] = Mirrored!Content(history[r], applied[r] + 1)]
        BY <3>3, <4>1
      <4>3. applied' = [applied EXCEPT ![r] = @ + 1] /\ applied[r] < Len(history[r])
        BY <3>2, <3>4, <3>7
      <4> QED BY <3>2, <4>2, <4>3 DEF Mirrored!Next, Mirrored!Mirror
    <3> QED BY <3>2, <3>6, <3>7
  <2>3. Store \/ (\E r \in Records : Publish(r)) \/ UNCHANGED history
    BY DEF Next, Server, Deliver, DeliverOther, Sends, TakeAck, Read, SkipIdentity, SkipUnknown,
           Ack, Exit, Start, vars, tap
  <2> QED BY <2>1, <2>2, <2>3, Frame
<1> QED BY <1>1, <1>2, Invariance, PTL DEF Spec, ImplementsMirror, Mirrored!Spec

=============================================================================
