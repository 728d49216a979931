----------------------------- MODULE SumDBProofs -----------------------------
(***************************************************************************)
(* Proofs about SumDB, for any log, any histories it signs, any number of  *)
(* host names and any number of ends of the process.                       *)
(***************************************************************************)

EXTENDS SumDB, FiniteSetTheorems, WellFoundedInduction, TLAPS

USE SizeAssumption, LogAssumption, LeafAssumption, NoneAssumption
  DEF SizeAssumption, LogAssumption, LeafAssumption, NoneAssumption, Sizes, Indexes

Tables == [Indexes -> Leaves \cup {None}]

\* Entries are looked for under a tree that was fetched, and inserted under one
\* that the stored checkpoint extends.
CheckedInv ==
  /\ pc \in {"update", "wait", "entries"} => checkpoint # None
  /\ pc = "entries" => /\ stored # None
                       /\ start < checkpoint.n
                       /\ Consistent(checkpoint, stored)

\* The next row goes behind those in the table.
AheadInv == pc # "size" => dbSize(rows) <= start

\* A size that is written, or about to be, is one the table had.
BadSinceInv ==
  /\ size <= dbSize(rows)
  /\ \A h \in Hosts : badSince[h] # None => badSince[h] <= dbSize(rows)
  /\ \A h \in marking : badSince[h] = None

SumInv == TypeOK /\ RowsUnderCheckpoint /\ CheckedInv /\ AheadInv /\ BadSinceInv

-----------------------------------------------------------------------------
(* The size of the table                                                   *)

\* A table with a row has a last one.
LEMMA LastRow ==
  ASSUME NEW versions \in Tables, NEW k \in Indexes, versions[k] # None
  PROVE  \E i \in Indexes :
           versions[i] # None /\ \A j \in Indexes : versions[j] # None => j <= i
<1> DEFINE behind(i) == {j \in Indexes : i < j}
           filled == {i \in Indexes : versions[i] # None}
           all == {behind(i) : i \in filled}
<1>1. IsFiniteSet(Indexes)
  BY FS_Interval
<1>2. all \subseteq FiniteSubsetsOf(Indexes)
  BY <1>1, FS_Subset DEF FiniteSubsetsOf
<1>3. PICK least \in all : \A other \in all : <<other, least>> \notin StrictSubsetOrdering(Indexes)
  <2>1. behind(k) \in all
    OBVIOUS
  <2> QED
    BY <2>1, <1>2, FS_StrictSubsetOrderingWellFounded, WFMin
<1>4. PICK i \in filled : least = behind(i)
  OBVIOUS
<1>5. ASSUME NEW j \in Indexes, versions[j] # None, i < j
      PROVE  FALSE
  <2>1. behind(j) \in all
    BY <1>5
  <2>2. behind(j) \subseteq behind(i)
    BY <1>4, <1>5
  <2>3. j \in behind(i) /\ j \notin behind(j)
    BY <1>4, <1>5
  <2>4. behind(j) \in SUBSET Indexes /\ behind(i) \in SUBSET Indexes
    OBVIOUS
  <2> QED
    BY <2>1, <2>2, <2>3, <2>4, <1>2, <1>3, <1>4 DEF StrictSubsetOrdering
<1> QED
  BY <1>4, <1>5

\* dbSize is 1 for an empty table and the index behind the last row for others.
LEMMA SizeOfTable ==
  ASSUME NEW versions \in Tables
  PROVE  /\ dbSize(versions) \in 1 .. MaxSize
         /\ \A j \in Indexes : versions[j] # None => j < dbSize(versions)
         /\ dbSize(versions) = 1 \/ \E i \in Indexes : versions[i] # None /\ dbSize(versions) = i + 1
<1>1. CASE \A i \in Indexes : versions[i] = None
  BY <1>1 DEF dbSize
<1>2. CASE \E i \in Indexes : versions[i] # None
  <2> DEFINE last == CHOOSE i \in Indexes :
                versions[i] # None /\ \A j \in Indexes : versions[j] # None => j <= i
  <2>1. last \in Indexes /\ versions[last] # None /\ \A j \in Indexes : versions[j] # None => j <= last
    BY <1>2, LastRow
  <2>2. dbSize(versions) = 1 + last
    BY <1>2 DEF dbSize
  <2> HIDE DEF last
  <2> QED
    BY <2>1, <2>2, SMT
<1> QED
  BY <1>1, <1>2

\* A row that is added makes the table as large as its index says.
LEMMA SizeGrows ==
  ASSUME NEW versions \in Tables, NEW i \in Indexes, NEW leaf \in Leaves,
         dbSize(versions) <= i
  PROVE  /\ [versions EXCEPT ![i] = leaf] \in Tables
         /\ dbSize([versions EXCEPT ![i] = leaf]) = i + 1
<1> DEFINE more == [versions EXCEPT ![i] = leaf]
<1>1. more \in Tables /\ more[i] = leaf /\ \A j \in Indexes : j # i => more[j] = versions[j]
  BY DEF Tables
<1> HIDE DEF more
<1>2. more[i] # None
  BY <1>1
<1>3. dbSize(versions) \in Nat /\ \A j \in Indexes : versions[j] # None => j < dbSize(versions)
  BY SizeOfTable
<1>4. \A j \in Indexes : more[j] # None => j <= i
  BY <1>1, <1>3
<1>5. /\ dbSize(more) \in 1 .. MaxSize
      /\ i < dbSize(more)
      /\ dbSize(more) = 1 \/ \E j \in Indexes : more[j] # None /\ dbSize(more) = j + 1
  BY <1>1, <1>2, SizeOfTable
<1>6. dbSize(more) = i + 1
  BY <1>4, <1>5
<1> QED
  BY <1>1, <1>6 DEF more

-----------------------------------------------------------------------------
(* The inductive invariant                                                 *)

LEMMA InitSumInv == Init => SumInv
<1> SUFFICES ASSUME Init PROVE SumInv
  OBVIOUS
<1>0. rows \in Tables
  BY DEF Init, Tables
<1>1. dbSize(rows) \in 1 .. MaxSize
  BY <1>0, SizeOfTable
<1>2. TypeOK
  BY DEF Init, TypeOK, Positions, Statuses
<1>3. RowsUnderCheckpoint /\ CheckedInv /\ AheadInv
  BY DEF Init, RowsUnderCheckpoint, CheckedInv, AheadInv
<1>4. BadSinceInv
  BY <1>1, SMT DEF Init, BadSinceInv
<1> QED
  BY <1>2, <1>3, <1>4 DEF SumInv

\* Each step keeps the types.
LEMMA TypeStep == SumInv /\ [Next]_vars => TypeOK'
<1> SUFFICES ASSUME SumInv, [Next]_vars PROVE TypeOK'
  OBVIOUS
<1> USE DEF SumInv, TypeOK
<1>0. rows \in Tables
  BY DEF Tables
<1>1. dbSize(rows) \in 1 .. MaxSize
  BY <1>0, SizeOfTable
<1>2. CASE UNCHANGED vars
  BY <1>2 DEF vars, table, process, ingest, domainr
<1>3. CASE Publish
  BY <1>3, SMT DEF Publish, table, process, ingest, domainr
<1>4. CASE ReadSize
  BY <1>4, <1>1 DEF ReadSize, Positions, table, process, domainr
<1>5. ASSUME NEW t \in Trees, Fetch(t) PROVE TypeOK'
  BY <1>5 DEF Fetch, Positions, table, process, domainr
<1>6. CASE UpdateCheckpoint
  BY <1>6 DEF UpdateCheckpoint, CheckedInv, Positions, process, domainr
<1>7. CASE ProcessEntries
  <2>1. checkpoint \in Trees /\ start \in Indexes
    BY <1>7, SMT DEF ProcessEntries, CheckedInv, Trees
  <2>2. checkpoint.log[start] \in Leaves /\ checkpoint.n \in Sizes
    BY <2>1 DEF Trees
  <2>3. rows' \in Tables /\ status' \in [Hosts -> Statuses]
    BY <1>7, <2>2 DEF ProcessEntries, Statuses, Tables
  <2> QED
    BY <1>7, <2>2, <2>3 DEF ProcessEntries, Positions, Tables, process, domainr
<1>8. CASE NoEntries
  BY <1>8 DEF NoEntries, CheckedInv, Trees, Positions, table, process, domainr
<1>9. CASE Tick
  BY <1>9 DEF Tick, Positions, table, process, domainr
<1>10. CASE AskSelect
  BY <1>10 DEF AskSelect, table, process, ingest
<1>11. ASSUME NEW d \in asking, Ask(d) PROVE TypeOK'
  BY <1>11 DEF Ask, Statuses, process, ingest
<1>12. CASE MarkSelect
  BY <1>12, <1>1 DEF MarkSelect, table, process, ingest
<1>13. ASSUME NEW h \in marking, Mark(h) PROVE TypeOK'
  BY <1>13 DEF Mark, process, ingest
<1>14. CASE MarkEnds
  BY <1>14 DEF MarkEnds, table, process, ingest
<1>15. CASE Exit
  <2>1. exits' \in 0 .. MaxExits
    BY <1>15, SMT DEF Exit
  <2>2. up' \in BOOLEAN /\ marking' \subseteq Hosts /\ asking' \subseteq {Domain[h] : h \in Hosts}
    BY <1>15 DEF Exit
  <2>3. /\ UNCHANGED <<published, table>>
        /\ pc' = "size" /\ start' = 0 /\ checkpoint' = None
        /\ dpc' = "idle" /\ size' = 0
    BY <1>15 DEF Exit
  <2>4. 0 \in Sizes
    BY SMT
  <2> QED
    BY <2>1, <2>2, <2>3, <2>4 DEF Positions, table
<1>16. CASE Restart
  BY <1>16 DEF Restart, table, ingest, domainr
<1> QED
  BY <1>2, <1>3, <1>4, <1>5, <1>6, <1>7, <1>8, <1>9, <1>10, <1>11, <1>12, <1>13, <1>14, <1>15, <1>16
     DEF Next, Ingest, Domainr

\* What an insertion does: it goes behind all rows, and the table grows.
LEMMA Insertion ==
  ASSUME SumInv, ProcessEntries
  PROVE  /\ rows \in Tables /\ rows' \in Tables
         /\ start \in Indexes /\ checkpoint \in Trees /\ start < checkpoint.n
         /\ rows[start] = None /\ rows'[start] = checkpoint.log[start]
         /\ \A i \in Indexes : i # start => rows'[i] = rows[i]
         /\ dbSize(rows) <= start
         /\ dbSize(rows') = start + 1
<1>1. rows \in Tables /\ checkpoint \in Trees
  BY DEF SumInv, TypeOK, CheckedInv, ProcessEntries, Tables
<1>2. start < checkpoint.n /\ checkpoint.n \in Sizes
  BY <1>1 DEF SumInv, CheckedInv, ProcessEntries, Trees
<1>3. start \in Indexes
  BY <1>2, SMT DEF SumInv, TypeOK
<1>4. checkpoint.log[start] \in Leaves
  BY <1>1, <1>3 DEF Trees
<1>5. rows' = [rows EXCEPT ![start] = checkpoint.log[start]] /\ rows[start] = None
  BY DEF ProcessEntries
<1>6. dbSize(rows) <= start
  BY DEF SumInv, AheadInv, ProcessEntries
<1>7. rows' \in Tables /\ dbSize(rows') = start + 1
  BY <1>1, <1>3, <1>4, <1>5, <1>6, SizeGrows
<1> QED
  BY <1>1, <1>2, <1>3, <1>5, <1>6, <1>7 DEF Tables

\* Only an insertion changes the rows.
LEMMA OthersKeepRows ==
  ASSUME [Next]_vars, ~ProcessEntries
  PROVE  rows' = rows
<1> USE DEF table
<1>1. CASE UNCHANGED vars
  BY <1>1 DEF vars
<1>2. CASE Publish \/ Exit \/ Restart
  BY <1>2 DEF Publish, Exit, Restart
<1>3. CASE Ingest
  BY <1>3 DEF Ingest, ReadSize, Fetch, UpdateCheckpoint, NoEntries, Tick
<1>4. CASE Domainr
  BY <1>4 DEF Domainr, AskSelect, Ask, MarkSelect, Mark, MarkEnds
<1> QED
  BY <1>1, <1>2, <1>3, <1>4 DEF Next

\* Only updateCheckpoint changes the stored tree.
LEMMA OthersKeepStored ==
  ASSUME [Next]_vars, ~UpdateCheckpoint
  PROVE  stored' = stored
<1> USE DEF table
<1>1. CASE UNCHANGED vars
  BY <1>1 DEF vars
<1>2. CASE Publish \/ Exit \/ Restart
  BY <1>2 DEF Publish, Exit, Restart
<1>3. CASE Ingest
  BY <1>3 DEF Ingest, ReadSize, Fetch, ProcessEntries, NoEntries, Tick
<1>4. CASE Domainr
  BY <1>4 DEF Domainr, AskSelect, Ask, MarkSelect, Mark, MarkEnds
<1> QED
  BY <1>1, <1>2, <1>3, <1>4 DEF Next

\* The stored tree is one that checkpoint was compared with, and extends the
\* tree that was stored before.
LEMMA Update ==
  ASSUME SumInv, UpdateCheckpoint
  PROVE  /\ checkpoint \in Trees /\ stored' \in Trees
         /\ Consistent(checkpoint, stored')
         /\ stored # None => stored \in Trees /\ Consistent(stored, stored')
<1>1. checkpoint \in Trees /\ stored \in Trees \cup {None} /\ Accepted
  BY DEF SumInv, TypeOK, CheckedInv, UpdateCheckpoint
<1>2. \A tree \in Trees : Consistent(tree, tree)
  BY DEF Consistent, Trees
<1>3. CASE stored = None
  BY <1>1, <1>2, <1>3 DEF UpdateCheckpoint
<1>4. CASE stored # None /\ stored.n > checkpoint.n
  <2>1. stored' = stored /\ Consistent(checkpoint, stored)
    BY <1>1, <1>4, SMT DEF UpdateCheckpoint, Accepted, Trees
  <2> QED
    BY <1>1, <1>2, <1>4, <2>1
<1>5. CASE stored # None /\ ~(stored.n > checkpoint.n)
  <2>1. stored' = checkpoint /\ Consistent(stored, checkpoint)
    BY <1>1, <1>5 DEF UpdateCheckpoint, Accepted
  <2> QED
    BY <1>1, <1>2, <1>5, <2>1
<1> QED
  BY <1>3, <1>4, <1>5

\* Each step keeps the rows under the stored tree.
LEMMA RowsStep == SumInv /\ [Next]_vars => RowsUnderCheckpoint'
<1> SUFFICES ASSUME SumInv, [Next]_vars, NEW i \in Indexes, rows'[i] # None
             PROVE  stored' # None /\ i < stored'.n /\ rows'[i] = stored'.log[i]
  BY DEF RowsUnderCheckpoint
<1>0. rows[i] # None => stored \in Trees /\ i < stored.n /\ rows[i] = stored.log[i]
  BY DEF SumInv, TypeOK, RowsUnderCheckpoint
<1>1. CASE ProcessEntries
  <2>1. stored' = stored /\ stored \in Trees /\ Consistent(checkpoint, stored)
    BY <1>1 DEF ProcessEntries, SumInv, TypeOK, CheckedInv
  <2>2. CASE i = start
    <3>1. i < checkpoint.n /\ rows'[i] = checkpoint.log[i] /\ checkpoint \in Trees
      BY <1>1, <2>2, Insertion
    <3>2. i < stored.n /\ checkpoint.log[i] = stored.log[i]
      BY <2>1, <3>1, SMT DEF Consistent, Trees
    <3> QED
      BY <2>1, <3>1, <3>2
  <2>3. CASE i # start
    BY <1>0, <1>1, <2>1, <2>3, Insertion
  <2> QED
    BY <2>2, <2>3
<1>2. CASE UpdateCheckpoint
  <2>1. rows' = rows
    BY <1>2 DEF UpdateCheckpoint
  <2>2. stored \in Trees /\ i < stored.n /\ rows[i] = stored.log[i] /\ stored' \in Trees
        /\ Consistent(stored, stored')
    BY <1>0, <1>2, <2>1, Update
  <2>3. i < stored'.n /\ stored.log[i] = stored'.log[i]
    BY <2>2, SMT DEF Consistent, Trees
  <2> QED
    BY <2>1, <2>2, <2>3
<1>3. CASE ~ProcessEntries /\ ~UpdateCheckpoint
  BY <1>0, <1>3, OthersKeepRows, OthersKeepStored
<1> QED
  BY <1>1, <1>2, <1>3

\* Each step keeps what the loop knows of its tree.
LEMMA CheckedStep == SumInv /\ [Next]_vars => CheckedInv'
<1> SUFFICES ASSUME SumInv, [Next]_vars PROVE CheckedInv'
  OBVIOUS
<1>0. CheckedInv
  BY DEF SumInv
<1> USE DEF CheckedInv, Consistent
<1>1. CASE UNCHANGED vars
  BY <1>0, <1>1 DEF vars, table, ingest
<1>2. CASE Publish \/ Restart
  BY <1>0, <1>2 DEF Publish, Restart, table, ingest
<1>3. CASE Exit
  BY <1>3 DEF Exit
<1>4. CASE Domainr
  BY <1>0, <1>4 DEF Domainr, AskSelect, Ask, MarkSelect, Mark, MarkEnds, table, ingest
<1>5. CASE UpdateCheckpoint
  <2>1. Consistent(checkpoint, stored') /\ checkpoint \in Trees /\ stored' \in Trees
    BY <1>5, Update
  <2>2. checkpoint' = checkpoint /\ start' = start
    BY <1>5 DEF UpdateCheckpoint
  <2>3. pc' = "entries" => ~(checkpoint.n <= start)
    BY <1>5 DEF UpdateCheckpoint
  <2>4. checkpoint.n \in Int /\ start \in Int
    BY <2>1 DEF Trees, SumInv, TypeOK
  <2>5. pc' = "entries" => start < checkpoint.n
    BY <2>3, <2>4, SMT
  <2> QED
    BY <2>1, <2>2, <2>5
<1>6. CASE ReadSize
  BY <1>6 DEF ReadSize
<1>7. ASSUME NEW t \in Trees, Fetch(t) PROVE CheckedInv'
  BY <1>7 DEF Fetch
<1>8. CASE ProcessEntries \/ NoEntries \/ Tick
  BY <1>0, <1>8 DEF ProcessEntries, NoEntries, Tick
<1> QED
  BY <1>1, <1>2, <1>3, <1>4, <1>5, <1>6, <1>7, <1>8 DEF Next, Ingest

\* Each step keeps the table behind the next row.
LEMMA AheadStep == SumInv /\ [Next]_vars => AheadInv'
<1> SUFFICES ASSUME SumInv, [Next]_vars PROVE AheadInv'
  OBVIOUS
<1>0. rows \in Tables /\ start \in Sizes /\ AheadInv
  BY DEF SumInv, TypeOK, Tables
<1>1. dbSize(rows) \in 1 .. MaxSize
  BY <1>0, SizeOfTable
<1> USE DEF AheadInv
<1>2. CASE UNCHANGED vars
  BY <1>0, <1>2 DEF vars, table, ingest
<1>3. CASE Publish \/ Restart
  BY <1>0, <1>3 DEF Publish, Restart, table, ingest
<1>4. CASE Exit
  BY <1>4 DEF Exit
<1>5. CASE Domainr
  BY <1>0, <1>5 DEF Domainr, AskSelect, Ask, MarkSelect, Mark, MarkEnds, table, ingest
<1>6. CASE ReadSize
  BY <1>1, <1>6 DEF ReadSize, table
<1>7. ASSUME NEW t \in Trees, Fetch(t) PROVE AheadInv'
  BY <1>0, <1>7 DEF Fetch, table
<1>8. CASE UpdateCheckpoint \/ Tick
  BY <1>0, <1>8 DEF UpdateCheckpoint, Tick, table
<1>9. CASE ProcessEntries
  <2>1. dbSize(rows') = start + 1 /\ start < checkpoint.n /\ start \in Indexes /\ checkpoint \in Trees
    BY <1>9, Insertion
  <2>2. start' = checkpoint.n
    BY <1>9 DEF ProcessEntries
  <2> QED
    BY <2>1, <2>2 DEF Trees
<1>10. CASE NoEntries
  <2>1. checkpoint \in Trees /\ start < checkpoint.n /\ dbSize(rows) <= start
    BY <1>0, <1>10 DEF NoEntries, SumInv, TypeOK, CheckedInv
  <2>2. start' = checkpoint.n /\ rows' = rows
    BY <1>10 DEF NoEntries, table
  <2> QED
    BY <1>0, <1>1, <2>1, <2>2 DEF Trees
<1> QED
  BY <1>2, <1>3, <1>4, <1>5, <1>6, <1>7, <1>8, <1>9, <1>10 DEF Next, Ingest

\* Each step keeps the sizes that are marked within the table.
LEMMA BadSinceStep == SumInv /\ [Next]_vars => BadSinceInv'
<1> SUFFICES ASSUME SumInv, [Next]_vars PROVE BadSinceInv'
  OBVIOUS
<1>0. /\ rows \in Tables /\ size \in Sizes /\ start \in Sizes
      /\ badSince \in [Hosts -> Sizes \cup {None}] /\ BadSinceInv
  BY DEF SumInv, TypeOK, Tables
<1>1. dbSize(rows) \in 1 .. MaxSize
  BY <1>0, SizeOfTable
<1> USE DEF BadSinceInv
<1>2. CASE UNCHANGED vars
  BY <1>0, <1>2 DEF vars, table, domainr
<1>3. CASE Publish \/ Restart
  BY <1>0, <1>3 DEF Publish, Restart, table, domainr
<1>4. CASE Exit
  BY <1>0, <1>1, <1>4 DEF Exit, table
<1>5. CASE ReadSize \/ (\E t \in Trees : Fetch(t)) \/ UpdateCheckpoint \/ NoEntries \/ Tick
  BY <1>0, <1>5 DEF ReadSize, Fetch, UpdateCheckpoint, NoEntries, Tick, table, domainr
<1>6. CASE ProcessEntries
  <2>1. dbSize(rows) <= dbSize(rows') /\ dbSize(rows') \in Int
    BY <1>0, <1>1, <1>6, Insertion
  <2>2. UNCHANGED <<size, marking, badSince>>
    BY <1>6 DEF ProcessEntries, domainr
  <2>3. \A h \in Hosts : badSince[h] # None => badSince[h] \in Int
    BY <1>0
  <2> QED
    BY <1>0, <1>1, <2>1, <2>2, <2>3
<1>7. CASE AskSelect \/ (\E d \in asking : Ask(d))
  BY <1>0, <1>7 DEF AskSelect, Ask, table, ingest
<1>8. CASE MarkSelect
  BY <1>0, <1>1, <1>8 DEF MarkSelect, table
<1>9. ASSUME NEW h \in marking, Mark(h) PROVE BadSinceInv'
  <2>1. badSince' = [badSince EXCEPT ![h] = size] /\ marking' = marking \ {h} /\ UNCHANGED <<rows, size>>
    BY <1>9 DEF Mark
  <2> QED
    BY <1>0, <2>1
<1>10. CASE MarkEnds
  BY <1>0, <1>1, <1>10 DEF MarkEnds, table
<1> QED
  BY <1>2, <1>3, <1>4, <1>5, <1>6, <1>7, <1>8, <1>9, <1>10 DEF Next, Ingest, Domainr

-----------------------------------------------------------------------------
(* The theorems                                                            *)

\* All five parts of the invariant hold in every state.
THEOREM SumInvariance == Spec => []SumInv
<1>1. SumInv /\ [Next]_vars => SumInv'
  BY TypeStep, RowsStep, CheckedStep, AheadStep, BadSinceStep DEF SumInv
<1> QED
  BY <1>1, InitSumInv, PTL DEF Spec

\* The tables and the locals have their types; in particular start stays an
\* index of the log or its size.
THEOREM SumTypeCorrect == Spec => []TypeOK
<1>1. SumInv => TypeOK
  BY DEF SumInv
<1> QED
  BY <1>1, SumInvariance, PTL

\* Every row is an entry of the history of the stored checkpoint, whatever trees
\* the log signs, whichever of them it shows and wherever the process ends
\* (updateCheckpoint comes before processEntries).
THEOREM RowsAreCovered == Spec => []RowsUnderCheckpoint
<1>1. SumInv => RowsUnderCheckpoint
  BY DEF SumInv
<1> QED
  BY <1>1, SumInvariance, PTL

\* The stored checkpoint is only replaced by trees that extend it: the rule of
\* updateCheckpoint, for every tree the log may answer with.
THEOREM CheckpointGrows == Spec => CheckpointExtends
<1> DEFINE Extends == stored # None => stored' # None /\ Consistent(stored, stored')
<1>1. SumInv /\ [Next]_vars => [Extends]_vars
  <2> SUFFICES ASSUME SumInv, [Next]_vars, stored # None
               PROVE  stored' # None /\ Consistent(stored, stored')
    OBVIOUS
  <2>1. CASE UpdateCheckpoint
    BY <2>1, Update
  <2>2. CASE ~UpdateCheckpoint
    BY <2>2, OthersKeepStored DEF SumInv, TypeOK, Trees, Consistent
  <2> QED
    BY <2>1, <2>2
<1> QED
  BY <1>1, SumInvariance, PTL DEF Spec, CheckpointExtends

\* Rows are added behind all others and once, so that the INSERT of processEntries
\* never meets its primary key, after any number of restarts.
THEOREM RowsGoBehind == Spec => RowsAppended
<1> DEFINE Appends == \A i \in Indexes : rows'[i] # rows[i] =>
                         rows[i] = None /\ \A j \in Indexes : rows[j] # None => j < i
<1>1. SumInv /\ [Next]_vars => [Appends]_vars
  <2> SUFFICES ASSUME SumInv, [Next]_vars, NEW i \in Indexes, rows'[i] # rows[i],
                      NEW j \in Indexes, rows[j] # None
               PROVE  rows[i] = None /\ j < i
    <3>1. ASSUME SumInv, [Next]_vars, NEW i \in Indexes, rows'[i] # rows[i]
          PROVE  rows[i] = None
      BY <3>1, OthersKeepRows, Insertion
    <3> QED
      BY <3>1
  <2>1. ProcessEntries
    BY OthersKeepRows
  <2>2. i = start /\ rows[start] = None /\ dbSize(rows) <= start /\ rows \in Tables /\ start \in Indexes
    BY <2>1, Insertion
  <2>3. j < dbSize(rows) /\ dbSize(rows) \in 1 .. MaxSize
    BY <2>2, SizeOfTable
  <2> QED
    BY <2>2, <2>3
<1> QED
  BY <1>1, SumInvariance, PTL DEF Spec, RowsAppended

\* bad_since is never changed, and what is ingested of a host name after it was
\* marked has an index from there on, although the size was read in an earlier
\* transaction than the one that writes it.
THEOREM BadSinceIsKept == Spec => BadSinceHolds
<1> DEFINE Holds == \A h \in Hosts : badSince[h] # None =>
                      /\ badSince'[h] = badSince[h]
                      /\ \A i \in Indexes :
                           rows'[i] # rows[i] /\ HostOf[rows'[i]] = h => badSince[h] <= i
<1>1. SumInv /\ [Next]_vars => [Holds]_vars
  <2> SUFFICES ASSUME SumInv, [Next]_vars, NEW h \in Hosts, badSince[h] # None
               PROVE  /\ badSince'[h] = badSince[h]
                      /\ \A i \in Indexes : rows'[i] # rows[i] => badSince[h] <= i
    OBVIOUS
  <2>1. badSince'[h] = badSince[h]
    <3> USE DEF table
    <3>1. CASE UNCHANGED vars
      BY <3>1 DEF vars
    <3>2. CASE Publish \/ Exit \/ Restart
      BY <3>2 DEF Publish, Exit, Restart
    <3>3. CASE Ingest
      BY <3>3 DEF Ingest, ReadSize, Fetch, UpdateCheckpoint, ProcessEntries, NoEntries, Tick
    <3>4. CASE AskSelect \/ (\E d \in asking : Ask(d)) \/ MarkSelect \/ MarkEnds
      BY <3>4 DEF AskSelect, Ask, MarkSelect, MarkEnds
    <3>5. ASSUME NEW g \in marking, Mark(g) PROVE badSince'[h] = badSince[h]
      BY <3>5 DEF Mark, SumInv, TypeOK, BadSinceInv
    <3> QED
      BY <3>1, <3>2, <3>3, <3>4, <3>5 DEF Next, Domainr
  <2>2. ASSUME NEW i \in Indexes, rows'[i] # rows[i] PROVE badSince[h] <= i
    <3>1. i = start /\ dbSize(rows) <= start /\ rows \in Tables
      BY <2>2, OthersKeepRows, Insertion
    <3>2. dbSize(rows) \in Int
      BY <3>1, SizeOfTable
    <3>3. badSince[h] <= dbSize(rows) /\ badSince[h] \in Int
      BY DEF SumInv, TypeOK, BadSinceInv
    <3> QED
      BY <3>1, <3>2, <3>3
  <2> QED
    BY <2>1, <2>2
<1> QED
  BY <1>1, SumInvariance, PTL DEF Spec, BadSinceHolds

\* The INSERT of the next row finds its primary key free, in every state in which
\* it may run.
THEOREM InsertsAreNew == Spec => []InsertIsNew
<1>1. SumInv => InsertIsNew
  <2> SUFFICES ASSUME SumInv, pc = "entries", rows[start] # None PROVE FALSE
    BY DEF InsertIsNew
  <2>1. rows \in Tables /\ dbSize(rows) <= start /\ start \in Indexes
    BY SMT DEF SumInv, TypeOK, Tables, AheadInv, CheckedInv, Trees
  <2>2. start < dbSize(rows) /\ dbSize(rows) \in 1 .. MaxSize
    BY <2>1, SizeOfTable
  <2> QED
    BY <2>1, <2>2
<1> QED
  BY <1>1, SumInvariance, PTL

LEMMA CopyStep == SumInv /\ [Next]_vars => [Copied!Next]_<<stored, rows>>
<1> SUFFICES ASSUME SumInv, [Next]_vars PROVE [Copied!Next]_<<stored, rows>>
  OBVIOUS
<1>1. CASE UpdateCheckpoint
  <2>1. rows' = rows /\ stored' \in Trees /\ (stored # None => Consistent(stored, stored'))
    BY <1>1, Update DEF UpdateCheckpoint
  <2>2. stored # None => Copied!Extends(stored', stored)
    BY <2>1 DEF Consistent, Copied!Extends, Copied!Indexes
  <2>3. Trees = Copied!Trees
    BY DEF Trees, Copied!Trees
  <2> QED
    BY <2>1, <2>2, <2>3 DEF Copied!Next, Copied!Trust
<1>2. CASE ProcessEntries
  <2>1. /\ rows \in Tables /\ rows' \in Tables /\ start \in Indexes /\ checkpoint \in Trees
        /\ start < checkpoint.n /\ rows'[start] = checkpoint.log[start]
        /\ \A i \in Indexes : i # start => rows'[i] = rows[i]
        /\ dbSize(rows) <= start
    BY <1>2, Insertion
  <2>2. stored' = stored /\ stored \in Trees /\ Consistent(checkpoint, stored)
    BY <1>2 DEF ProcessEntries, SumInv, TypeOK, CheckedInv
  <2>3. start < stored.n /\ checkpoint.log[start] = stored.log[start]
    BY <2>1, <2>2, SMT DEF Consistent, Trees
  <2>4. \A j \in Indexes : rows[j] # None => j < start
    <3>1. \A j \in Indexes : rows[j] # None => j < dbSize(rows)
      BY <2>1, SizeOfTable
    <3>2. dbSize(rows) \in 1 .. MaxSize
      BY <2>1, SizeOfTable
    <3> QED
      BY <2>1, <3>1, <3>2
  <2>5. rows' = [rows EXCEPT ![start] = stored.log[start]]
    BY <2>1, <2>3 DEF Tables
  <2> QED
    BY <2>1, <2>2, <2>3, <2>4, <2>5 DEF Copied!Next, Copied!Copy, Copied!Indexes
<1>3. CASE ~UpdateCheckpoint /\ ~ProcessEntries
  BY <1>3, OthersKeepRows, OthersKeepStored
<1> QED
  BY <1>1, <1>2, <1>3

\* The database is an append-only copy of the log that the stored tree belongs to:
\* every step of the two goroutines, the log and the process is one of the copy or
\* changes nothing of it, for any histories the log signs.
THEOREM CopiesTheLog == Spec => ImplementsLogCopy
<1>1. Init => Copied!Init
  BY DEF Init, Copied!Init, Copied!Indexes
<1> QED
  BY <1>1, CopyStep, SumInvariance, PTL DEF Spec, ImplementsLogCopy, Copied!Spec

=============================================================================
