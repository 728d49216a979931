------------------------------ MODULE Archive ------------------------------
(***************************************************************************)
(* What dcbot promises of its archive: a document enters the table once it *)
(* is published, is archived once both its files are kept, and what is     *)
(* archived is never touched again.                                        *)
(***************************************************************************)

EXTENDS Integers

CONSTANT MaxDocs   \* documents ever published

VARIABLES
  published,    \* documents on the site are 1..published
  known,        \* documents in the table
  retrieved,    \* documents that are archived
  kept          \* <<document, resource>>: the answers of the server that are kept

Files(d) == {d} \X {1, 2}

Init ==
  /\ published \in 0..MaxDocs
  /\ known \in SUBSET (1..published) /\ retrieved \in SUBSET known
  /\ kept = retrieved \X {1, 2}

Publish ==
  /\ published < MaxDocs
  /\ published' = published + 1
  /\ UNCHANGED <<known, retrieved, kept>>

Learn ==
  /\ \E d \in (1..published) \ known : known' = known \cup {d}
  /\ UNCHANGED <<published, retrieved, kept>>

\* A file of a pending document is kept, or given up before the next attempt.
Keep ==
  /\ \E d \in known \ retrieved : \E f \in Files(d) :
       kept' \in {kept \cup {f}, kept \ {f}}
  /\ UNCHANGED <<published, known, retrieved>>

Retrieve ==
  /\ \E d \in known \ retrieved : Files(d) \subseteq kept /\ retrieved' = retrieved \cup {d}
  /\ UNCHANGED <<published, known, kept>>

Next == Publish \/ Learn \/ Keep \/ Retrieve

Spec == Init /\ [][Next]_<<published, known, retrieved, kept>>

=============================================================================
