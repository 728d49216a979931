-------------------------------- MODULE SumDB --------------------------------
(***************************************************************************)
(* sumdb-explorer: one goroutine copies a checksum database into SQLite,   *)
(* checkpoint by checkpoint (ingest.go); another one asks a registry for   *)
(* the status of the host names it finds there (domainr.go).  The database *)
(* survives the process, the loop variables do not.                        *)
(***************************************************************************)

EXTENDS Integers, FiniteSets

CONSTANTS
  MaxSize,        \* bound: the largest size of a log
  Logs,           \* the histories the log may sign, functions on Indexes
  Log,            \* the one of them that goes on growing
  Leaves,         \* entries, each a path and a version
  Refused,        \* those that parseEntry or the eTLD+1 check rejects
  HostOf,         \* the host name of an entry
  Domain,         \* the eTLD+1 of a host name
  None,           \* NULL
  MaxExits        \* bound: how often the process fails

Indexes == 0 .. MaxSize - 1
Sizes   == 0 .. MaxSize
Hosts   == DOMAIN Domain
Trees   == [log : Logs, n : Sizes]

SizeAssumption == MaxSize \in Nat \ {0} /\ MaxExits \in Nat
ASSUME SizeAssumption
LogAssumption  == Log \in Logs /\ Logs \subseteq [Indexes -> Leaves]
ASSUME LogAssumption
LeafAssumption == HostOf \in [Leaves -> Hosts] /\ Refused \subseteq Leaves
ASSUME LeafAssumption
NoneAssumption == None \notin Leaves /\ None \notin Trees /\ None \notin Nat
ASSUME NoneAssumption

VARIABLES
  published,      \* the size the log has reached
  rows,           \* table versions: the entry at each index, or None
  stored,         \* the newest row of table checkpoint
  status,         \* hostnames.domainr_status, "absent" if there is no row
  badSince,       \* hostnames.bad_since
  up, exits,      \* is the process running, and how often it ended
  pc, start, checkpoint,      \* locals of ingest
  dpc, asking, size, marking  \* locals of domainr

table    == <<rows, stored, status, badSince>>
process  == <<up, exits>>
ingest   == <<pc, start, checkpoint>>
domainr  == <<dpc, asking, size, marking>>
vars     == <<published, table, process, ingest, domainr>>

-----------------------------------------------------------------------------
\* MAX(idx) is NULL for an empty table, which ColumnInt64 reads as 0: the
\* first row that is looked for has index 1.
dbSize(versions) ==
  IF \A i \in Indexes : versions[i] = None THEN 1
  ELSE 1 + CHOOSE i \in Indexes :
         versions[i] # None /\ \A j \in Indexes : versions[j] # None => j <= i

\* The hash of the first old.n entries of new is the hash of old.
Consistent(old, new) ==
  /\ old.n <= new.n
  /\ \A i \in Indexes : i < old.n => old.log[i] = new.log[i]

\* Mutant: an older tree is an error.
MutAcceptedNewer ==
  stored # None => stored.n <= checkpoint.n /\ Consistent(stored, checkpoint)

\* What updateCheckpoint accepts: a tree that extends the stored one, or one
\* that the stored one extends.
Accepted ==
  \/ stored = None
  \/ stored # None /\ stored.n > checkpoint.n /\ Consistent(checkpoint, stored)
  \/ stored # None /\ stored.n <= checkpoint.n /\ Consistent(stored, checkpoint)

Init ==
  /\ published = 0
  /\ rows = [i \in Indexes |-> None]
  /\ stored = None
  /\ status = [h \in Hosts |-> "absent"]
  /\ badSince = [h \in Hosts |-> None]
  /\ up = TRUE /\ exits = 0
  /\ pc = "size" /\ start = 0 /\ checkpoint = None
  /\ dpc = "idle" /\ asking = {} /\ size = 0 /\ marking = {}

-----------------------------------------------------------------------------
(* The log, which anyone extends.                                          *)

Publish ==
  /\ published < MaxSize
  /\ published' = published + 1
  /\ UNCHANGED <<table, process, ingest, domainr>>

(* ingest.go: one goroutine.                                               *)

ReadSize ==
  /\ up /\ pc = "size"
  /\ pc' = "fetch" /\ start' = dbSize(rows)
  /\ UNCHANGED <<published, table, process, checkpoint, domainr>>

\* The signature is valid, which does not say that the log signs one history
\* only, nor that this is its newest tree.
Fetch(tree) ==
  /\ up /\ pc = "fetch"
  /\ tree.n <= published
  /\ pc' = "update" /\ checkpoint' = tree
  /\ UNCHANGED <<published, table, process, start, domainr>>

\* Mutant: an older tree replaces the stored one.
MutUpdateCheckpointAlways ==
  /\ up /\ pc = "update"
  /\ Accepted
  /\ stored' = checkpoint
  /\ pc' = IF checkpoint.n <= start THEN "wait" ELSE "entries"
  /\ UNCHANGED <<published, rows, status, badSince, process, start, checkpoint, domainr>>

\* A transaction.
UpdateCheckpoint ==
  /\ up /\ pc = "update"
  /\ Accepted
  /\ stored' = IF stored # None /\ stored.n > checkpoint.n THEN stored ELSE checkpoint
  /\ pc' = IF checkpoint.n <= start THEN "wait" ELSE "entries"
  /\ UNCHANGED <<published, rows, status, badSince, process, start, checkpoint, domainr>>

\* Another transaction. The body of the loop over the entries ends with a
\* return: one entry is inserted, whatever the number of entries. An entry that
\* is refused, or there already under another index, is an error of ingest.
ProcessEntries ==
  /\ up /\ pc = "entries"
  /\ LET leaf == checkpoint.log[start]
         host == HostOf[leaf]
     IN /\ leaf \notin Refused
        /\ rows[start] = None /\ \A i \in Indexes : rows[i] # leaf
        /\ rows' = [rows EXCEPT ![start] = leaf]
        /\ status' = [status EXCEPT ![host] = IF @ = "absent" THEN "null" ELSE @]
  /\ pc' = "wait" /\ start' = checkpoint.n
  /\ UNCHANGED <<published, stored, badSince, process, checkpoint, domainr>>

\* Mutant: the size is added to the start.
MutNoEntriesAdds ==
  /\ up /\ pc = "entries"
  /\ pc' = "wait" /\ start' = start + checkpoint.n
  /\ UNCHANGED <<published, table, process, checkpoint, domainr>>

\* The iterator of the entries stops early when a tile cannot be had; nobody
\* asks the client for its error.
NoEntries ==
  /\ up /\ pc = "entries"
  /\ pc' = "wait" /\ start' = checkpoint.n
  /\ UNCHANGED <<published, table, process, checkpoint, domainr>>

Tick ==
  /\ up /\ pc = "wait"
  /\ pc' = "fetch"
  /\ UNCHANGED <<published, table, process, start, checkpoint, domainr>>

(* domainr.go: the other goroutine.                                        *)

\* The domains to ask about: those without an answer, those whose answer may
\* change, and those whose answer is old.
AskSelect ==
  /\ up /\ dpc = "idle"
  /\ \E old \in SUBSET {h \in Hosts : status[h] \in {"good", "bad"}} :
       asking' = {Domain[h] : h \in old \cup {g \in Hosts : status[g] \in {"null", "unknown"}}}
  /\ dpc' = "ask"
  /\ UNCHANGED <<published, table, process, ingest, size, marking>>

Ask(d) ==
  /\ up /\ dpc = "ask"
  /\ d \in asking
  /\ \E answer \in {"good", "bad", "unknown"} :
       status' = [h \in Hosts |-> IF Domain[h] = d /\ status[h] # "absent"
                                  THEN answer ELSE status[h]]
  /\ asking' = asking \ {d}
  /\ UNCHANGED <<published, rows, stored, badSince, process, ingest, dpc, size, marking>>

\* Mutant: bad_since is not looked at.
MutMarkSelectAgain ==
  /\ up /\ dpc = "ask"
  /\ asking' = {}
  /\ size' = dbSize(rows)
  /\ marking' = {h \in Hosts : status[h] = "bad"}
  /\ dpc' = "mark"
  /\ UNCHANGED <<published, table, process, ingest>>

\* All domains are done, or one failed, which ends the statement. New rows of
\* the table between the size and the second statement have no status yet.
MarkSelect ==
  /\ up /\ dpc = "ask"
  /\ asking' = {}
  /\ size' = dbSize(rows)
  /\ marking' = {h \in Hosts : status[h] = "bad" /\ badSince[h] = None}
  /\ dpc' = "mark"
  /\ UNCHANGED <<published, table, process, ingest>>

Mark(h) ==
  /\ up /\ dpc = "mark"
  /\ h \in marking
  /\ badSince' = [badSince EXCEPT ![h] = size]
  /\ marking' = marking \ {h}
  /\ UNCHANGED <<published, rows, stored, status, process, ingest, dpc, asking, size>>

MarkEnds ==
  /\ up /\ dpc = "mark"
  /\ dpc' = "idle" /\ size' = 0 /\ marking' = {}
  /\ UNCHANGED <<published, table, process, ingest, asking>>

(* The process.                                                            *)

\* Either goroutine returns an error, a signal, or a crash; transactions that
\* are open are rolled back. An error of ingest ends the process.
Exit ==
  /\ up /\ exits < MaxExits
  /\ up' = FALSE /\ exits' = exits + 1
  /\ pc' = "size" /\ start' = 0 /\ checkpoint' = None
  /\ dpc' = "idle" /\ asking' = {} /\ size' = 0 /\ marking' = {}
  /\ UNCHANGED <<published, table>>

Restart ==
  /\ ~up
  /\ up' = TRUE
  /\ UNCHANGED <<published, table, exits, ingest, domainr>>

Ingest  == ReadSize \/ (\E t \in Trees : Fetch(t)) \/ UpdateCheckpoint
             \/ ProcessEntries \/ NoEntries \/ Tick
Domainr == AskSelect \/ (\E d \in asking : Ask(d)) \/ MarkSelect
             \/ (\E h \in marking : Mark(h)) \/ MarkEnds

Next == Publish \/ Ingest \/ Domainr \/ Exit \/ Restart

Spec == Init /\ [][Next]_vars

\* The goroutine of ingest runs, transactions and answers come, and the log shows
\* its newest tree now and then; whoever runs the program starts it again. No
\* tile has to fail: nothing carries the loop past an entry that is an error.
Fairness ==
  /\ WF_vars(ReadSize) /\ WF_vars(UpdateCheckpoint) /\ WF_vars(ProcessEntries) /\ WF_vars(Tick)
  /\ SF_vars(Fetch([log |-> Log, n |-> published]))
  /\ WF_vars(Restart)

FairSpec == Spec /\ Fairness

-----------------------------------------------------------------------------
(* Properties.                                                             *)

Positions == {"size", "fetch", "update", "wait", "entries"}
Statuses  == {"absent", "null", "good", "bad", "unknown"}

\* The types of the tables and of the locals.
TypeOK ==
  /\ published \in Sizes
  /\ rows \in [Indexes -> Leaves \cup {None}]
  /\ stored \in Trees \cup {None}
  /\ status \in [Hosts -> Statuses]
  /\ badSince \in [Hosts -> Sizes \cup {None}]
  /\ up \in BOOLEAN /\ exits \in 0 .. MaxExits
  /\ pc \in Positions /\ start \in Sizes
  /\ checkpoint \in Trees \cup {None}
  /\ dpc \in {"idle", "ask", "mark"} /\ asking \subseteq {Domain[h] : h \in Hosts}
  /\ size \in Sizes /\ marking \subseteq Hosts

\* Every row is an entry of the history of the stored checkpoint, whatever
\* histories and old trees the log showed and wherever the process ended: the
\* checkpoint is checked and stored before the entries it covers (ingest.go:53).
RowsUnderCheckpoint ==
  \A i \in Indexes : rows[i] # None =>
    stored # None /\ i < stored.n /\ rows[i] = stored.log[i]

\* The stored checkpoint is replaced by trees that extend it only, although
\* the log may answer with older ones and an older one does not stop the
\* ingestion (ingest.go:226).
CheckpointExtends ==
  [][stored # None => stored' # None /\ Consistent(stored, stored')]_vars

\* Rows are added behind all others, once: INSERT never meets an index that is
\* there, after any number of restarts and older checkpoints (ingest.go:57).
RowsAppended ==
  [][\A i \in Indexes : rows'[i] # rows[i] =>
       rows[i] = None /\ \A j \in Indexes : rows[j] # None => j < i]_vars

\* The primary key of the row that processEntries is about to insert is free: the
\* INSERT never fails on it and ends the process (ingest.go:127; it may fail on the
\* path and the version), although start is computed from the table (with its 1 for an empty one),
\* moved by batches that inserted less than they covered, and lost by restarts.
InsertIsNew == pc = "entries" => rows[start] = None

\* The database is an append-only copy of one log at a time. An insertion under a
\* checkpoint that is older than the stored one is a step of that copy, and so is
\* every failure and restart in between.
Copied == INSTANCE LogCopy WITH tree <- stored

ImplementsLogCopy == Copied!Spec

\* bad_since is set once, and the entries of a host name that are ingested
\* after it was set have indexes from there on, although the size is read
\* before the mark is written and entries arrive in between (domainr.go:62).
BadSinceHolds ==
  [][\A h \in Hosts : badSince[h] # None =>
       /\ badSince'[h] = badSince[h]
       /\ \A i \in Indexes :
            rows'[i] # rows[i] /\ HostOf[rows'[i]] = h => badSince[h] <= i]_vars

\* Every entry of a log is accepted, and in it once: no INSERT fails on it.
Insertable(log) ==
  \A i \in Indexes : log[i] \notin Refused /\ \A j \in Indexes : log[i] = log[j] => i = j

\* If the log signs one history, and each of its entries can be inserted, the
\* ingestion gets to every size that the log reaches, whatever trees it shows in
\* between and however often the process ends (ingest.go:64). An entry that cannot be
\* inserted ends the process at the same start each time (ingest.go:84-97).
KeepsUp ==
  Insertable(Log) /\ [](checkpoint # None => checkpoint.log = Log) =>
    \A n \in Sizes : published >= n ~> start >= n

\* When entries were inserted the loop says "ingested entries" from start to the
\* size of the checkpoint (ingest.go:63): all of them should be rows. They are not.
BatchIngested ==
  [][pc = "entries" /\ pc' = "wait" /\ rows' # rows =>
       \A i \in start .. checkpoint.n - 1 : rows'[i] # None]_vars

=============================================================================
