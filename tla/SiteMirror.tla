----------------------------- MODULE SiteMirror -----------------------------
(***************************************************************************)
(* What the tables of atsites promise: every record is mirrored event by   *)
(* event, in the order of its repository, none twice and none left out.    *)
(***************************************************************************)

EXTENDS Integers, Sequences

CONSTANTS
  Records,     \* the publications and documents, by repository and rkey
  Documents    \* those of the collection site.standard.document

VARIABLES
  history,     \* the events of each record in the order of its repository
  rows,        \* the event whose content is in the table, 0 without a row
  applied      \* how far each record is mirrored

\* A create or an update is a "put". A document whose site is no publication is "loose".
Kinds(r) == {"put", "delete"} \cup (IF r \in Documents THEN {"loose"} ELSE {})

\* The row after the first n events of h: that of the put nothing but loose events follow.
Standing(h, n) == { j \in 1..n : h[j] = "put" /\ \A i \in (j + 1)..n : h[i] = "loose" }

Content(h, n) == IF Standing(h, n) = {} THEN 0 ELSE CHOOSE j \in Standing(h, n) : TRUE

Init ==
  /\ history = [r \in Records |-> <<>>]
  /\ rows = [r \in Records |-> 0]
  /\ applied = [r \in Records |-> 0]

\* A user of the network writes or deletes a record.
Publish(r) ==
  /\ \E k \in Kinds(r) : history' = [history EXCEPT ![r] = Append(@, k)]
  /\ UNCHANGED <<rows, applied>>

\* The next event of a record reaches the table.
Mirror(r) ==
  /\ applied[r] < Len(history[r])
  /\ applied' = [applied EXCEPT ![r] = @ + 1]
  /\ rows' = [rows EXCEPT ![r] = Content(history[r], applied[r] + 1)]
  /\ UNCHANGED history

Next == \E r \in Records : Publish(r) \/ Mirror(r)

Spec == Init /\ [][Next]_<<history, rows, applied>>

=============================================================================
