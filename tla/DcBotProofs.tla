---------------------------- MODULE DcBotProofs ----------------------------
(***************************************************************************)
(* Proofs about DcBot, for any number of documents, page size, number of   *)
(* attempts, missing resources, flags and restarts.                        *)
(***************************************************************************)

EXTENDS DcBot, SequenceTheorems, TLAPS

USE DcAssumption

\* A walk that inserts has something to insert.
WalkInv ==
  /\ latest.pc = "insert" => latest.todo # <<>>
  /\ back.pc = "insert" => back.todo # <<>>

\* What Download has already fetched of the document it works on, and that no
\* other goroutine retrieves it meanwhile.
DownloadInv ==
  /\ dl.pc \in {"create", "fetch", "mark"} => dl.doc \in Docs \ retrieved
  /\ dl.pc \in {"create", "fetch"} /\ dl.res = 2 => file[<<dl.doc, 1>>] = "answer"
  /\ dl.pc = "mark" => \A r \in {1, 2} : file[<<dl.doc, r>>] = "answer"

\* Drain works on files of retrieved documents, and has copied what it deletes.
DrainInv ==
  /\ stored \subseteq retrieved \X {1, 2}
  /\ drain.pc \in {"copy", "delete"} => drain.file \in stored
  /\ drain.pc = "delete" => file[drain.file] = "answer"

DcInv == TypeOK /\ WalkInv /\ DownloadInv /\ DrainInv /\ RetrievedIsComplete

-----------------------------------------------------------------------------
(* Pages of the search                                                     *)

\* A page holds documents, newest first, whatever its number.
LEMMA ResultsType ==
  ASSUME published \in 0..MaxDocs, NEW page \in 1..MaxPage
  PROVE  Results(page) \in Seq(Docs)
<1> DEFINE first == published - (page - 1) * PerPage
           size  == IF first < 0 THEN 0 ELSE IF first < PerPage THEN first ELSE PerPage
<1>1. (page - 1) * PerPage \in Nat
  <2>1. page - 1 \in Nat
    BY DEF MaxPage
  <2> HIDE DEF MaxPage
  <2> QED
    BY <2>1, SMT
<1>2. first \in Int /\ first <= published
  BY <1>1
<1> HIDE DEF first
<1>3. size \in Nat /\ \A i \in 1..size : first - i + 1 \in Docs
  BY <1>2 DEF Docs
<1> HIDE DEF size
<1>4. [i \in 1..size |-> first - i + 1] \in Seq(Docs)
  BY <1>3
<1> QED
  BY <1>4 DEF Results, first, size

LEMMA WalkType ==
  ASSUME NEW where \in {"search", "sleep", "done", "failed"}, NEW page \in 1..MaxPage
  PROVE  At(where, page, <<>>) \in Walk
BY DEF At, Walk

\* The rest of a page is inserted, or the next page is searched for.
LEMMA AfterType ==
  ASSUME NEW page \in 1..MaxPage, NEW todo \in Seq(Docs)
  PROVE  /\ After(page, todo) \in Walk
         /\ After(page, todo).pc = "insert" => After(page, todo).todo # <<>>
BY DEF After, At, Walk, NextPage, MaxPage

LEMMA PickingType == Picking \in Task
BY DEF Picking, Task

LEMMA DoingType ==
  ASSUME dl \in Task, NEW where \in {"create", "fetch", "mark"}, NEW res \in {1, 2},
         NEW tries \in 0..(Retries - 1)
  PROVE  /\ Doing(where, res, tries) \in Task
         /\ Doing(where, res, tries).pc = where
         /\ Doing(where, res, tries).res = res
         /\ Doing(where, res, tries).doc = dl.doc
BY DEF Task, Doing

\* Drain at the start of a row, or not at all.
LEMMA DrainIfType ==
  ASSUME NEW asked \in BOOLEAN
  PROVE  DrainIf(asked) \in Move /\ DrainIf(asked).pc \notin {"copy", "delete"}
BY DEF DrainIf, Moving, NoFile, Move

LEMMA RestOfPage ==
  ASSUME NEW walk \in Walk, walk.todo # <<>>
  PROVE  Head(walk.todo) \in Docs /\ Tail(walk.todo) \in Seq(Docs)
BY HeadTailProperties DEF Walk

-----------------------------------------------------------------------------
(* The invariant                                                           *)

LEMMA InitDc == Init => DcInv
<1> SUFFICES ASSUME Init PROVE DcInv
  OBVIOUS
<1>1. published \in 0..MaxDocs /\ known \subseteq Docs /\ retrieved \subseteq Docs
  BY DEF Init, Docs
<1>2. latest \in Walk /\ back \in Walk
  <2>1. 1 \in 1..MaxPage /\ \A f \in Flags : f[1] = Off \/ f[1] \in 1..MaxPage
    BY DEF MaxPage
  <2> QED
    BY <2>1 DEF Init, BackfillFrom, At, Walk
<1>3. file \in [Docs \X {1, 2} -> Contents] /\ RetrievedIsComplete
  <2>1. file = [f \in Docs \X {1, 2} |->
                 IF f[1] \in retrieved /\ f \notin stored THEN "answer" ELSE "none"]
    BY DEF Init
  <2>2. \A d \in retrieved, r \in {1, 2} : <<d, r>> \in Docs \X {1, 2}
    BY <1>1
  <2>3. file \in [Docs \X {1, 2} -> Contents]
    BY <2>1 DEF Contents
  <2>4. ASSUME NEW d \in retrieved, NEW r \in {1, 2}
        PROVE  file[<<d, r>>] = "answer" \/ <<d, r>> \in stored
    <3>1. <<d, r>> \in Docs \X {1, 2} /\ <<d, r>>[1] = d
      BY <2>2
    <3> QED
      BY <2>1, <3>1
  <2> QED
    BY <2>3, <2>4 DEF RetrievedIsComplete
<1>4. dl = Picking /\ up = TRUE /\ exits = 0 /\ passedOver = {} /\ found = {} /\ moved = FALSE
      /\ blank \in BOOLEAN
  BY DEF Init
<1>5. from \in [page : {Off} \cup 1..MaxPage, docs : 0..MaxDocs]
  <2>1. PICK f \in Flags : from = [page |-> f[1], docs |-> published]
    BY DEF Init
  <2>2. f[1] \in {Off} \cup 1..MaxPage
    BY DEF MaxPage
  <2> QED
    BY <1>1, <2>1, <2>2
<1>6. WalkInv
  BY DEF Init, WalkInv, At, BackfillFrom
<1>7. DownloadInv
  BY <1>4 DEF DownloadInv, Picking
<1>8. DrainInv /\ stored \subseteq Docs \X {1, 2} /\ drain \in Move
  <2>1. stored \subseteq retrieved \X {1, 2}
    BY DEF Init
  <2>2. PICK asked \in BOOLEAN : drain = DrainIf(asked)
    BY DEF Init
  <2> QED
    BY <1>1, <2>1, <2>2, DrainIfType DEF DrainInv
<1>9. TypeOK
  <2>1. up \in BOOLEAN /\ moved \in BOOLEAN /\ found \subseteq Docs /\ passedOver \subseteq Docs
    BY <1>4, Zenon
  <2>3. exits \in 0..MaxExits
    BY <1>4
  <2>2. dl \in Task
    BY <1>4, PickingType
  <2> QED
    BY <1>1, <1>2, <1>3, <1>4, <1>5, <1>8, <2>1, <2>2, <2>3, Zenon DEF TypeOK
<1> QED
  BY <1>3, <1>6, <1>7, <1>8, <1>9 DEF DcInv

\* What a step of Latest or Backfill leaves of the invariant.
LEMMA WalkFrame ==
  ASSUME DcInv, UNCHANGED dlVars, known' \subseteq Docs, found' \subseteq Docs,
         passedOver' \subseteq Docs, latest' \in Walk, back' \in Walk, WalkInv',
         published' \in 0..MaxDocs, moved' \in BOOLEAN,
         UNCHANGED <<up, exits, blank, from, drain, stored>>
  PROVE  DcInv'
BY DEF DcInv, TypeOK, DownloadInv, DrainInv, RetrievedIsComplete, dlVars

LEMMA LatestStep == DcInv /\ (Latest \/ LatestFails) => DcInv'
<1> SUFFICES ASSUME DcInv, Latest \/ LatestFails PROVE DcInv'
  OBVIOUS
<1> USE DEF siteVars, drainVars, backVars, latVars
<1>0. /\ latest \in Walk /\ latest.page \in 1..MaxPage /\ 1 \in 1..MaxPage
      /\ Unknown \subseteq Docs
  BY DEF DcInv, TypeOK, Walk, Unknown, Docs, MaxPage
<1>1. CASE LatestSearch
  <2>1. Results(latest.page) \in Seq(Docs)
    BY <1>0, ResultsType DEF DcInv, TypeOK
  <2>2. latest' \in Walk /\ (latest'.pc = "insert" => latest'.todo # <<>>)
    BY <1>0, <1>1, <2>1, AfterType DEF LatestSearch
  <2>3. WalkInv' /\ moved' \in BOOLEAN
    BY <1>1, <2>2 DEF LatestSearch, DcInv, WalkInv, TypeOK
  <2> QED
    BY <1>1, <2>2, <2>3, WalkFrame DEF LatestSearch, DcInv, TypeOK
<1>2. CASE LatestInsert
  <2>1. /\ Head(latest.todo) \in Docs
        /\ Tail(latest.todo) \in Seq(Docs)
    BY <1>0, <1>2, RestOfPage DEF LatestInsert, DcInv, WalkInv
  <2>2. latest' \in Walk /\ (latest'.pc = "insert" => latest'.todo # <<>>)
    <3>1. CASE latest' = At("sleep", 1, <<>>)
      BY <1>0, <3>1, WalkType DEF At
    <3>2. CASE latest' = After(latest.page, Tail(latest.todo))
      BY <1>0, <2>1, <3>2, AfterType
    <3> QED
      BY <1>2, <3>1, <3>2 DEF LatestInsert
  <2>3. WalkInv'
    BY <1>2, <2>2 DEF LatestInsert, DcInv, WalkInv
  <2>4. known' \subseteq Docs /\ found' \subseteq Docs /\ passedOver' \subseteq Docs
        /\ moved' \in BOOLEAN
    BY <1>0, <1>2, <2>1 DEF LatestInsert, DcInv, TypeOK
  <2> QED
    BY <1>2, <2>2, <2>3, <2>4, WalkFrame DEF LatestInsert, DcInv, TypeOK
<1>3. CASE LatestWakes \/ LatestFails
  <2>1. latest' \in Walk /\ latest'.pc # "insert"
    BY <1>0, <1>3, WalkType DEF LatestWakes, LatestFails, At
  <2>2. WalkInv'
    BY <1>3, <2>1 DEF LatestWakes, LatestFails, DcInv, WalkInv
  <2> QED
    BY <1>3, <2>1, <2>2, WalkFrame DEF LatestWakes, LatestFails, DcInv, TypeOK
<1> QED
  BY <1>1, <1>2, <1>3 DEF Latest

LEMMA BackfillStep == DcInv /\ (Backfill \/ BackfillFails) => DcInv'
<1> SUFFICES ASSUME DcInv, Backfill \/ BackfillFails PROVE DcInv'
  OBVIOUS
<1> USE DEF siteVars, drainVars, latVars
<1>0. back \in Walk /\ back.page \in 1..MaxPage
  BY DEF DcInv, TypeOK, Walk
<1>1. CASE BackfillSearch
  <2>1. Results(back.page) \in Seq(Docs)
    BY <1>0, ResultsType DEF DcInv, TypeOK
  <2>2. back' \in Walk /\ (back'.pc = "insert" => back'.todo # <<>>)
    BY <1>0, <1>1, <2>1 DEF BackfillSearch, At, Walk
  <2>3. WalkInv'
    BY <1>1, <2>2 DEF BackfillSearch, DcInv, WalkInv
  <2> QED
    BY <1>1, <2>2, <2>3, WalkFrame DEF BackfillSearch, DcInv, TypeOK
<1>2. CASE BackfillInsert
  <2>1. /\ Head(back.todo) \in Docs
        /\ Tail(back.todo) \in Seq(Docs)
    BY <1>0, <1>2, RestOfPage DEF BackfillInsert, DcInv, WalkInv
  <2>2. back' \in Walk /\ (back'.pc = "insert" => back'.todo # <<>>)
    BY <1>0, <1>2, <2>1, AfterType DEF BackfillInsert
  <2>3. WalkInv'
    BY <1>2, <2>2 DEF BackfillInsert, DcInv, WalkInv
  <2> QED
    BY <1>2, <2>1, <2>2, <2>3, WalkFrame DEF BackfillInsert, DcInv, TypeOK
<1>3. CASE BackfillFails
  <2>1. back' \in Walk /\ back'.pc # "insert"
    BY <1>0, <1>3, WalkType DEF BackfillFails, At
  <2>2. WalkInv'
    BY <1>3, <2>1 DEF BackfillFails, DcInv, WalkInv
  <2> QED
    BY <1>3, <2>1, <2>2, WalkFrame DEF BackfillFails, DcInv, TypeOK
<1> QED
  BY <1>1, <1>2, <1>3 DEF Backfill

\* What a step of Download leaves of the invariant.
LEMMA DownloadFrame ==
  ASSUME DcInv, UNCHANGED <<siteVars, known, latVars, backVars>>, retrieved' \subseteq Docs,
         file' \in [Docs \X {1, 2} -> Contents],
         dl' \in Task,
         DownloadInv', RetrievedIsComplete', retrieved \subseteq retrieved',
         \A f \in stored : file'[f] = file[f]
  PROVE  DcInv'
BY DEF DcInv, TypeOK, WalkInv, DrainInv, siteVars, drainVars, latVars, backVars

\* A step that writes a file of the document being downloaded, which is pending.
LEMMA PendingFile ==
  ASSUME DcInv, dl.doc \in Docs \ retrieved, UNCHANGED retrieved,
         UNCHANGED stored, NEW c \in Contents, file' = [file EXCEPT ![<<dl.doc, dl.res>>] = c]
  PROVE  /\ file' \in [Docs \X {1, 2} -> Contents]
         /\ RetrievedIsComplete'
         /\ file'[<<dl.doc, dl.res>>] = c
         /\ \A r \in {1, 2} : r # dl.res => file'[<<dl.doc, r>>] = file[<<dl.doc, r>>]
         /\ \A f \in stored : file'[f] = file[f]
<1> USE DEF Task
<1>1. /\ file \in [Docs \X {1, 2} -> Contents] /\ dl.res \in {1, 2}
      /\ <<dl.doc, dl.res>> \in Docs \X {1, 2}
  BY DEF DcInv, TypeOK
<1>2. file' \in [Docs \X {1, 2} -> Contents] /\ file'[<<dl.doc, dl.res>>] = c
  BY <1>1
<1>3. \A r \in {1, 2} : r # dl.res => file'[<<dl.doc, r>>] = file[<<dl.doc, r>>]
  BY <1>1
<1>4. ASSUME NEW d \in retrieved', NEW r \in {1, 2}
      PROVE  file'[<<d, r>>] = "answer" \/ <<d, r>> \in stored'
  <2>1. d # dl.doc /\ d \in retrieved /\ <<d, r>> \in Docs \X {1, 2}
    BY DEF DcInv, TypeOK
  <2>2. <<d, r>> # <<dl.doc, dl.res>>
    BY <2>1
  <2>3. file'[<<d, r>>] = file[<<d, r>>]
    BY <1>1, <2>1, <2>2
  <2> QED
    BY <2>1, <2>3 DEF DcInv, RetrievedIsComplete
<1>5. ASSUME NEW f \in stored PROVE file'[f] = file[f]
  <2>1. f \in Docs \X {1, 2} /\ f # <<dl.doc, dl.res>>
    BY DEF DcInv, DrainInv, TypeOK
  <2> QED
    BY <1>1, <2>1
<1> QED
  BY <1>2, <1>3, <1>4, <1>5 DEF RetrievedIsComplete

LEMMA DownloadStep == DcInv /\ (Download \/ DownloadErrs \/ FetchFails) => DcInv'
<1> SUFFICES ASSUME DcInv, Download \/ DownloadErrs \/ FetchFails PROVE DcInv'
  OBVIOUS
<1> USE DEF siteVars, drainVars
<1>0. /\ dl \in Task /\ 0 \in 0..(Retries - 1) /\ Docs \subseteq 0..MaxDocs
      /\ retrieved \subseteq Docs /\ known \subseteq Docs
      /\ file \in [Docs \X {1, 2} -> Contents]
  BY DEF DcInv, TypeOK, Docs
<1>1. CASE Pick
  <2>1. PICK d \in known \ retrieved : dl' = [pc |-> "create", doc |-> d, res |-> 1, tries |-> 0]
    BY <1>1 DEF Pick
  <2>2. dl' \in Task /\ d \in Docs \ retrieved
    BY <1>0, <2>1 DEF Task
  <2>3. DownloadInv' /\ RetrievedIsComplete'
    BY <1>1, <2>1, <2>2 DEF Pick, DcInv, DownloadInv, RetrievedIsComplete
  <2> QED
    BY <1>0, <1>1, <2>2, <2>3, DownloadFrame DEF Pick
<1>2. CASE Create
  <2>1. dl.doc \in Docs \ retrieved
    BY <1>2 DEF Create, DcInv, DownloadInv
  <2>2. /\ file' \in [Docs \X {1, 2} -> Contents] /\ RetrievedIsComplete'
        /\ \A r \in {1, 2} : r # dl.res => file'[<<dl.doc, r>>] = file[<<dl.doc, r>>]
        /\ \A f \in stored : file'[f] = file[f]
    BY <1>2, <2>1, PendingFile DEF Create, Contents
  <2>3. dl' \in Task /\ dl'.doc = dl.doc /\ dl'.res = dl.res /\ dl'.pc = "fetch"
    <3>1. dl.res \in {1, 2}
      BY <1>0 DEF Task
    <3> QED
      BY <1>0, <1>2, <3>1, DoingType DEF Create
  <2>4. DownloadInv'
    BY <1>2, <2>1, <2>2, <2>3 DEF Create, DcInv, DownloadInv
  <2> QED
    BY <1>0, <1>2, <2>2, <2>3, <2>4, DownloadFrame DEF Create
<1>3. CASE DownloadErrs
  <2>1. dl' \in Task /\ dl'.pc = "failed"
    BY <1>0, <1>3 DEF DownloadErrs, Failed, Task
  <2>2. DownloadInv' /\ RetrievedIsComplete'
    BY <1>3, <2>1 DEF DownloadErrs, DcInv, DownloadInv, RetrievedIsComplete
  <2> QED
    BY <1>0, <1>3, <2>1, <2>2, DownloadFrame DEF DownloadErrs
<1>4. CASE Fetch
  <2>1. dl.doc \in Docs \ retrieved
    BY <1>4 DEF Fetch, DcInv, DownloadInv
  <2>2. /\ file' \in [Docs \X {1, 2} -> Contents] /\ RetrievedIsComplete'
        /\ file'[<<dl.doc, dl.res>>] = "answer"
        /\ \A r \in {1, 2} : r # dl.res => file'[<<dl.doc, r>>] = file[<<dl.doc, r>>]
        /\ \A f \in stored : file'[f] = file[f]
    BY <1>4, <2>1, PendingFile DEF Fetch, Contents
  <2>3. CASE dl.res = 1
    <3>1. dl' \in Task /\ dl'.doc = dl.doc /\ dl'.pc = "create"
      BY <1>0, <1>4, <2>3, DoingType DEF Fetch, Resources
    <3>2. DownloadInv'
      BY <1>4, <2>1, <2>2, <2>3, <3>1 DEF Fetch, DcInv, DownloadInv
    <3> QED
      BY <1>0, <1>4, <2>2, <3>1, <3>2, DownloadFrame DEF Fetch
  <2>4. CASE dl.res = 2
    <3>1. dl' \in Task /\ dl'.doc = dl.doc /\ dl'.pc = "mark"
      BY <1>0, <1>4, <2>4, DoingType DEF Fetch, Resources
    <3>2. DownloadInv'
      BY <1>4, <2>1, <2>2, <2>4, <3>1 DEF Fetch, DcInv, DownloadInv
    <3> QED
      BY <1>0, <1>4, <2>2, <3>1, <3>2, DownloadFrame DEF Fetch
  <2> QED
    BY <1>0, <2>3, <2>4 DEF Task
<1>5. CASE FetchFails
  <2>1. dl.doc \in Docs \ retrieved
    BY <1>5 DEF FetchFails, DcInv, DownloadInv
  <2>2. CASE dl' = Failed /\ file' = [file EXCEPT ![<<dl.doc, dl.res>>] = "none"]
    <3>1. /\ file' \in [Docs \X {1, 2} -> Contents] /\ RetrievedIsComplete'
          /\ \A f \in stored : file'[f] = file[f]
      BY <1>5, <2>1, <2>2, PendingFile DEF FetchFails, Contents
    <3>2. dl' \in Task /\ dl'.pc = "failed"
      BY <1>0, <2>2 DEF Failed, Task
    <3>3. DownloadInv'
      BY <3>2 DEF DownloadInv
    <3> QED
      BY <1>0, <1>5, <3>1, <3>2, <3>3, DownloadFrame DEF FetchFails
  <2>3. CASE dl.tries + 1 < Retries /\ dl' = Doing("fetch", dl.res, dl.tries + 1) /\ file' = file
    <3>1. dl' \in Task /\ dl'.doc = dl.doc /\ dl'.res = dl.res /\ dl'.pc = "fetch"
      <4>1. dl.tries + 1 \in 0..(Retries - 1) /\ dl.res \in {1, 2}
        BY <1>0, <2>3 DEF Task
      <4> QED
        BY <1>0, <2>3, <4>1, DoingType
    <3>2. DownloadInv' /\ RetrievedIsComplete'
      BY <1>5, <2>1, <2>3, <3>1 DEF FetchFails, DcInv, DownloadInv, RetrievedIsComplete
    <3> QED
      BY <1>0, <1>5, <2>3, <3>1, <3>2, DownloadFrame DEF FetchFails
  <2> QED
    BY <1>5, <2>2, <2>3 DEF FetchFails
<1>6. CASE Mark
  <2>1. dl.doc \in Docs \ retrieved /\ \A r \in {1, 2} : file[<<dl.doc, r>>] = "answer"
    BY <1>6 DEF Mark, DcInv, DownloadInv
  <2>2. dl' \in Task /\ dl'.pc = "pick"
    BY <1>0, <1>6, PickingType DEF Mark, Picking
  <2>3. DownloadInv' /\ RetrievedIsComplete' /\ retrieved' \subseteq Docs
    BY <1>0, <1>6, <2>1, <2>2 DEF Mark, DcInv, DownloadInv, RetrievedIsComplete
  <2> QED
    BY <1>0, <1>6, <2>2, <2>3, DownloadFrame DEF Mark
<1> QED
  BY <1>1, <1>2, <1>3, <1>4, <1>5, <1>6 DEF Download

\* What a step of Drain leaves of the invariant.
LEMMA DrainFrame ==
  ASSUME DcInv, UNCHANGED <<published, up, exits, blank, known, latVars, backVars, dl, retrieved>>,
         file' \in [Docs \X {1, 2} -> Contents], drain' \in Move, DrainInv',
         \A f \in Docs \X {1, 2} : file'[f] = file[f] \/ f \in stored,
         \A f \in stored : f \in stored' \/ file'[f] = "answer"
  PROVE  DcInv'
<1>1. TypeOK' /\ WalkInv'
  BY DEF DcInv, TypeOK, WalkInv, DrainInv, latVars, backVars
<1>2. \A d \in retrieved, r \in {1, 2} : <<d, r>> \in Docs \X {1, 2}
  BY DEF DcInv, TypeOK
<1>3. RetrievedIsComplete'
  BY <1>2 DEF DcInv, RetrievedIsComplete
<1>4. \A d \in Docs \ retrieved, r \in {1, 2} : file'[<<d, r>>] = file[<<d, r>>]
  BY DEF DcInv, DrainInv
<1>5. DownloadInv'
  BY <1>4 DEF DcInv, DownloadInv
<1> QED
  BY <1>1, <1>3, <1>5 DEF DcInv

LEMMA DrainStep == DcInv /\ (Drain \/ DrainFails) => DcInv'
<1> SUFFICES ASSUME DcInv, Drain \/ DrainFails PROVE DcInv'
  OBVIOUS
<1>0. /\ file \in [Docs \X {1, 2} -> Contents] /\ stored \subseteq Docs \X {1, 2}
      /\ stored \subseteq retrieved \X {1, 2}
      /\ Docs \X {1, 2} \subseteq (0..MaxDocs) \X {1, 2}
      /\ {"none", "partial", "answer"} \subseteq Contents
  BY DEF DcInv, TypeOK, DrainInv, Docs, Contents
<1>1. CASE DrainCreate
  <2>1. PICK f \in stored : /\ file' = [file EXCEPT ![f] = "partial"]
                            /\ drain' = Moving("copy", f)
    BY <1>1 DEF DrainCreate
  <2>2. drain' \in Move /\ drain'.pc = "copy" /\ drain'.file = f
    BY <1>0, <2>1 DEF Moving, Move
  <2>3. file' \in [Docs \X {1, 2} -> Contents] /\ \A g \in Docs \X {1, 2} : g # f => file'[g] = file[g]
    BY <1>0, <2>1
  <2>4. DrainInv' /\ stored' = stored
    BY <1>0, <1>1, <2>2 DEF DrainCreate, DrainInv
  <2> QED
    BY <1>1, <2>1, <2>2, <2>3, <2>4, DrainFrame DEF DrainCreate
<1>2. CASE DrainCopy
  <2>1. drain.file \in stored
    BY <1>2 DEF DrainCopy, DcInv, DrainInv
  <2>2. drain' \in Move /\ drain'.pc = "delete" /\ drain'.file = drain.file
    BY <1>0, <1>2, <2>1 DEF DrainCopy, Moving, Move
  <2>3. /\ file' \in [Docs \X {1, 2} -> Contents] /\ file'[drain.file] = "answer"
        /\ \A g \in Docs \X {1, 2} : g # drain.file => file'[g] = file[g]
    BY <1>0, <1>2, <2>1 DEF DrainCopy
  <2>4. DrainInv' /\ stored' = stored
    BY <1>0, <1>2, <2>1, <2>2, <2>3 DEF DrainCopy, DrainInv
  <2> QED
    BY <1>2, <2>1, <2>2, <2>3, <2>4, DrainFrame DEF DrainCopy
<1>3. CASE DrainDelete
  <2>1. drain' \in Move /\ drain'.pc \notin {"copy", "delete"}
    BY <1>3, DrainIfType DEF DrainDelete
  <2>2. stored' = stored \ {drain.file} /\ file[drain.file] = "answer" /\ file' = file
    BY <1>3 DEF DrainDelete, DcInv, DrainInv, dlVars
  <2>3. DrainInv'
    BY <1>0, <1>3, <2>1, <2>2 DEF DrainDelete, DrainInv, dlVars
  <2> QED
    BY <1>0, <1>3, <2>1, <2>2, <2>3, DrainFrame DEF DrainDelete, dlVars
<1>4. CASE DrainEnds
  <2>1. drain' \in Move /\ drain'.pc \notin {"copy", "delete"}
    BY <1>4, DrainIfType DEF DrainEnds
  <2>2. DrainInv' /\ stored' = stored /\ file' = file
    BY <1>0, <1>4, <2>1 DEF DrainEnds, DrainInv, dlVars
  <2> QED
    BY <1>0, <1>4, <2>1, <2>2, DrainFrame DEF DrainEnds, dlVars
<1>5. CASE DrainFails
  <2>1. drain' \in Move /\ drain'.pc \notin {"copy", "delete"}
    BY <1>5 DEF DrainFails, Moving, Move, NoFile
  <2>2. DrainInv' /\ stored' = stored
    BY <1>0, <1>5, <2>1 DEF DrainFails, DrainInv
  <2>3. /\ file' \in [Docs \X {1, 2} -> Contents]
        /\ \A g \in Docs \X {1, 2} : file'[g] = file[g] \/ g \in stored
    BY <1>0, <1>5 DEF DrainFails, DcInv, DrainInv
  <2> QED
    BY <1>5, <2>1, <2>2, <2>3, DrainFrame DEF DrainFails
<1> QED
  BY <1>1, <1>2, <1>3, <1>4, <1>5 DEF Drain

LEMMA ProcessStep == DcInv /\ (Publish \/ Exit \/ Restart \/ UNCHANGED vars) => DcInv'
<1> SUFFICES ASSUME DcInv, Publish \/ Exit \/ Restart \/ UNCHANGED vars PROVE DcInv'
  OBVIOUS
<1> USE DEF siteVars, drainVars, backVars, latVars, dlVars
<1>0. /\ 1 \in 1..MaxPage /\ Unknown \subseteq Docs /\ 0 \in 0..(Retries - 1)
      /\ \A f \in Flags : f[1] = Off \/ f[1] \in 1..MaxPage
  BY DEF DcInv, TypeOK, Unknown, Docs, MaxPage
<1>1. CASE Publish
  <2>1. published' \in 0..MaxDocs /\ moved' \in BOOLEAN /\ WalkInv'
    BY <1>1 DEF Publish, DcInv, TypeOK, WalkInv
  <2> QED
    BY <1>1, <2>1, WalkFrame DEF Publish, DcInv, TypeOK
<1>2. CASE Exit
  <2>1. latest' \in Walk /\ back' \in Walk /\ latest'.pc = "search" /\ back'.pc = "search"
    BY <1>0, <1>2, WalkType DEF Exit, At
  <2>2. TypeOK'
    <3>1. passedOver' \subseteq Docs /\ exits' \in 0..MaxExits
      BY <1>0, <1>2 DEF Exit, DcInv, TypeOK
    <3>2. dl' \in Task /\ from' \in [page : {Off} \cup 1..MaxPage, docs : 0..MaxDocs]
      BY <1>2, PickingType DEF Exit
    <3>3. drain' \in Move
      BY <1>2, DrainIfType DEF Exit
    <3> QED
      BY <1>2, <2>1, <3>1, <3>2, <3>3 DEF Exit, DcInv, TypeOK
  <2>3. WalkInv' /\ DownloadInv' /\ RetrievedIsComplete' /\ DrainInv'
    <3>1. WalkInv' /\ DownloadInv' /\ RetrievedIsComplete'
      BY <1>2, <2>1 DEF Exit, DcInv, WalkInv, DownloadInv, RetrievedIsComplete, Picking
    <3>2. DrainInv'
      BY <1>2, DrainIfType DEF Exit, DcInv, DrainInv
    <3> QED
      BY <3>1, <3>2
  <2> QED
    BY <2>2, <2>3 DEF DcInv
<1>3. CASE Restart
  <2>1. PICK f \in Flags :
          /\ back' = BackfillFrom(f[1]) /\ from' = [page |-> f[1], docs |-> published]
          /\ drain' = DrainIf(f[2])
    BY <1>3 DEF Restart
  <2>2. back' \in Walk /\ back'.pc # "insert"
    BY <1>0, <2>1 DEF BackfillFrom, At, Walk
  <2>3. drain' \in Move /\ drain'.pc \notin {"copy", "delete"}
    BY <2>1, DrainIfType
  <2>4. from' \in [page : {Off} \cup 1..MaxPage, docs : 0..MaxDocs]
    BY <1>0, <2>1 DEF DcInv, TypeOK
  <2>5. TypeOK'
    BY <1>3, <2>2, <2>3, <2>4 DEF Restart, DcInv, TypeOK
  <2>6. WalkInv' /\ DownloadInv' /\ DrainInv' /\ RetrievedIsComplete'
    BY <1>3, <2>2, <2>3 DEF Restart, DcInv, WalkInv, DownloadInv, DrainInv, RetrievedIsComplete
  <2> QED
    BY <2>5, <2>6 DEF DcInv
<1>4. CASE UNCHANGED vars
  BY <1>4 DEF vars, DcInv, TypeOK, WalkInv, DownloadInv, DrainInv, RetrievedIsComplete
<1> QED
  BY <1>1, <1>2, <1>3, <1>4

\* In every reachable state of the bot its variables are well typed and Download
\* has fetched what the place it is at says.
THEOREM DcInvariance == Spec => []DcInv
<1>1. DcInv /\ [Next]_vars => DcInv'
  BY LatestStep, BackfillStep, DownloadStep, DrainStep, ProcessStep DEF Next
<1> QED
  BY InitDc, <1>1, PTL DEF Spec

\* The variables of the bot keep their types, across restarts.
THEOREM DcTypeCorrect == Spec => []TypeOK
<1>1. DcInv => TypeOK
  BY DEF DcInv
<1> QED
  BY <1>1, DcInvariance, PTL

\* A document marked as retrieved has a complete answer of the server in both
\* files, whatever attempts failed and wherever the process was killed.
THEOREM RetrievedComplete == Spec => []RetrievedIsComplete
<1>1. DcInv => RetrievedIsComplete
  BY DEF DcInv
<1> QED
  BY <1>1, DcInvariance, PTL

=============================================================================
