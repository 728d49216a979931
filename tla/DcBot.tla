------------------------------- MODULE DcBot -------------------------------
(***************************************************************************)
(* dcbot (src/dcbot): the bot that archives DocumentCloud. Latest looks    *)
(* for new documents from the first page of the search back to the first   *)
(* document the database knows, Backfill walks to the last page, Download  *)
(* fetches the files of the documents without a retrieval date. The three  *)
(* are goroutines of one errgroup, with Drain, which moves the files that  *)
(* an older version kept in the database: the first that returns an error  *)
(* ends the process, which is then started again.                          *)
(*                                                                         *)
(* Documents are numbered in the order they are published; the search      *)
(* lists the newest first, so its pages shift when one is published.       *)
(***************************************************************************)

EXTENDS Integers, Sequences, FiniteSets

CONSTANTS
  MaxDocs,      \* bound: documents ever published
  PerPage,      \* documents on a page of the search
  Retries,      \* attempts at a file (5)
  Flags,        \* the values of -backfill and -drain the bot is started with
  Missing,      \* <<document, resource>>: the resources documents lack
  MaxExits      \* bound: how often the process ends

Off == -1       \* the default of -backfill

ASSUME DcAssumption ==
  /\ MaxDocs \in Nat /\ PerPage \in Nat \ {0} /\ Retries \in Nat \ {0}
  /\ Flags \subseteq ({Off} \cup 1..(MaxDocs + 1)) \X BOOLEAN /\ Flags # {}
  /\ Missing \subseteq (1..MaxDocs) \X {1, 2} /\ MaxExits \in Nat

Docs      == 1..MaxDocs
Resources == <<"pdf", "text">>

\* A page behind every document: the pages that follow it are as empty.
MaxPage == MaxDocs + 1

VARIABLES
  published,    \* documents on the site are 1..published
  known,        \* rows of the table Documents
  retrieved,    \* rows with a retrieval date
  file,         \* the file of each document and resource
  up,           \* the process runs
  exits,        \* how often it has ended
  latest,       \* Latest: where it is, page, rest of the page
  back,         \* Backfill: the same
  dl,           \* Download: document, resource, attempts so far
  stored,       \* rows of the table Files: answers that an older version got
  drain,        \* Drain: where it is, the file it moves
  moved,        \* history: a document was published since this search of Latest began
  found,        \* history: rows this search of Latest inserted
  from,         \* history: -backfill, and the documents published when it began
  passedOver,   \* history: documents a search was cut short before, or shifted over
  blank         \* history: the table was empty when the process started

drainVars == <<drain, stored>>
siteVars == <<published, up, exits, blank, drainVars>>
latVars  == <<latest, moved, found, passedOver>>
backVars == <<back, from>>
dlVars   == <<dl, retrieved, file>>
vars == <<siteVars, known, latVars, backVars, dlVars>>

Walk == [pc : {"search", "insert", "sleep", "done", "failed"},
         page : 1..MaxPage, todo : Seq(Docs)]

Task == [pc : {"pick", "create", "fetch", "mark", "failed"},
         doc : 0..MaxDocs, res : {1, 2}, tries : 0..(Retries - 1)]

Move == [pc : {"off", "next", "copy", "delete", "failed"}, file : (0..MaxDocs) \X {1, 2}]

\* The file does not exist, holds less than an answer of the server, or holds one
\* (of any HTTP status: DownloadFile does not look at it).
Contents == {"none", "partial", "answer"}

TypeOK ==
  /\ published \in 0..MaxDocs
  /\ known \subseteq Docs /\ retrieved \subseteq Docs
  /\ file \in [Docs \X {1, 2} -> Contents]
  /\ up \in BOOLEAN /\ exits \in 0..MaxExits /\ blank \in BOOLEAN
  /\ latest \in Walk /\ back \in Walk
  /\ dl \in Task
  /\ stored \subseteq Docs \X {1, 2} /\ drain \in Move
  /\ moved \in BOOLEAN /\ found \subseteq Docs /\ passedOver \subseteq Docs
  /\ from \in [page : {Off} \cup 1..MaxPage, docs : 0..MaxDocs]

-----------------------------------------------------------------------------

At(where, page, todo) == [pc |-> where, page |-> page, todo |-> todo]
Picking == [pc |-> "pick", doc |-> 0, res |-> 1, tries |-> 0]

Moving(where, f) == [pc |-> where, file |-> f]
NoFile == <<0, 1>>

\* The goroutines of a process that starts: Latest, Download, and the others if asked.
BackfillFrom(page) == IF page = Off THEN At("done", 1, <<>>) ELSE At("search", page, <<>>)

DrainIf(asked) == Moving(IF asked THEN "next" ELSE "off", NoFile)

\* A database as an earlier life left it: empty, or with the documents up to some
\* one in it, retrieved if they can be, with their files in the table or outside.
Init ==
  /\ published \in 0..MaxDocs
  /\ \E n \in 0..published : known = 1..n
  /\ retrieved = { d \in known : <<d, 1>> \notin Missing /\ <<d, 2>> \notin Missing }
  /\ stored \in SUBSET (retrieved \X {1, 2})
  /\ file = [f \in Docs \X {1, 2} |->
               IF f[1] \in retrieved /\ f \notin stored THEN "answer" ELSE "none"]
  /\ up = TRUE /\ exits = 0 /\ passedOver = {}
  /\ blank = (known = {})
  /\ latest = At("search", 1, <<>>) /\ moved = FALSE /\ found = {}
  /\ \E f \in Flags : /\ back = BackfillFrom(f[1]) /\ from = [page |-> f[1], docs |-> published]
                      /\ drain = DrainIf(f[2])
  /\ dl = Picking

\* A page of the search, newest document first.
Results(page) ==
  LET first == published - (page - 1) * PerPage
      size  == IF first < 0 THEN 0 ELSE IF first < PerPage THEN first ELSE PerPage
  IN  [i \in 1..size |-> first - i + 1]

NextPage(page) == IF page = MaxPage THEN page ELSE page + 1

Publish ==
  /\ published < MaxDocs
  /\ published' = published + 1
  /\ moved' = (latest.pc # "sleep" /\ up)
  /\ UNCHANGED <<up, exits, blank, drainVars, known, latest, found, passedOver, backVars, dlVars>>

\* Where a walk is once the rest of its page is todo.
After(page, todo) ==
  IF todo = <<>> THEN At("search", NextPage(page), <<>>) ELSE At("insert", page, todo)

Unknown == (1..published) \ known

-----------------------------------------------------------------------------
(* Latest                                                                  *)

\* A failed search is tried again on the same page; an empty page is not the end.
LatestSearch ==
  /\ up /\ latest.pc = "search"
  /\ latest' = After(latest.page, Results(latest.page))
  /\ moved' = (latest.page # 1 /\ moved)
  /\ UNCHANGED <<siteVars, known, found, passedOver, backVars, dlVars>>

\* Two bugs TLC must find: the page is not advanced, and a break without its label
\* leaves the inner loop only.
MutInsertSamePage ==
  /\ up /\ latest.pc = "insert"
  /\ LET d == Head(latest.todo) rest == Tail(latest.todo)
     IN  IF d \in known
         THEN /\ latest' = At("sleep", 1, <<>>)
              /\ passedOver' = IF d \in found /\ moved
                                 THEN passedOver \cup Unknown ELSE passedOver
              /\ found' = {} /\ moved' = FALSE
              /\ UNCHANGED known
         ELSE /\ known' = known \cup {d}
              /\ found' = found \cup {d}
              /\ latest' = IF rest = <<>> THEN At("search", latest.page, <<>>)
                                          ELSE At("insert", latest.page, rest)
              /\ UNCHANGED <<passedOver, moved>>
  /\ UNCHANGED <<siteVars, backVars, dlVars>>

MutInsertBreakInner ==
  /\ up /\ latest.pc = "insert"
  /\ known' = known \cup {Head(latest.todo)}
  /\ latest' = IF Head(latest.todo) \in known
                 THEN At("search", NextPage(latest.page), <<>>)
                 ELSE After(latest.page, Tail(latest.todo))
  /\ UNCHANGED <<siteVars, moved, found, passedOver, backVars, dlVars>>

\* insertDocument: a primary key that exists means the document is known, and
\* ends the search. If it is one that this search inserted, pushed to the next
\* page by a publication, the documents behind it stay unknown.
LatestInsert ==
  /\ up /\ latest.pc = "insert"
  /\ LET d == Head(latest.todo)
     IN  IF d \in known
         THEN /\ latest' = At("sleep", 1, <<>>)
              /\ passedOver' = IF d \in found /\ moved
                                 THEN passedOver \cup Unknown ELSE passedOver
              /\ found' = {} /\ moved' = FALSE
              /\ UNCHANGED known
         ELSE /\ known' = known \cup {d}
              /\ found' = found \cup {d}
              /\ latest' = After(latest.page, Tail(latest.todo))
              /\ UNCHANGED <<passedOver, moved>>
  /\ UNCHANGED <<siteVars, backVars, dlVars>>

\* Five minutes later.
LatestWakes ==
  /\ up /\ latest.pc = "sleep"
  /\ latest' = At("search", 1, <<>>)
  /\ UNCHANGED <<siteVars, known, moved, found, passedOver, backVars, dlVars>>

\* Any other error of the database is returned.
LatestFails ==
  /\ up /\ latest.pc = "insert" /\ exits < MaxExits
  /\ latest' = At("failed", latest.page, <<>>)
  /\ UNCHANGED <<siteVars, known, moved, found, passedOver, backVars, dlVars>>

-----------------------------------------------------------------------------
(* Backfill                                                                *)

\* A bug TLC must find: the page is advanced before the error of the search is seen.
MutBackfillSearch ==
  /\ up /\ back.pc = "search"
  /\ \/ back' = IF Results(back.page) = <<>> THEN At("done", back.page, <<>>)
                                             ELSE At("insert", back.page, Results(back.page))
     \/ back' = At("search", NextPage(back.page), <<>>)
  /\ UNCHANGED <<siteVars, known, latVars, from, dlVars>>

\* Every document of the page is inserted, the known ones too; an empty page ends it.
BackfillSearch ==
  /\ up /\ back.pc = "search"
  /\ back' = IF Results(back.page) = <<>> THEN At("done", back.page, <<>>)
                                          ELSE At("insert", back.page, Results(back.page))
  /\ UNCHANGED <<siteVars, known, latVars, from, dlVars>>

BackfillInsert ==
  /\ up /\ back.pc = "insert"
  /\ known' = known \cup {Head(back.todo)}
  /\ back' = After(back.page, Tail(back.todo))
  /\ UNCHANGED <<siteVars, latVars, from, dlVars>>

BackfillFails ==
  /\ up /\ back.pc = "insert" /\ exits < MaxExits
  /\ back' = At("failed", back.page, <<>>)
  /\ UNCHANGED <<siteVars, known, latVars, from, dlVars>>

-----------------------------------------------------------------------------
(* Download                                                                *)

Doing(where, res, tries) == [dl EXCEPT !.pc = where, !.res = res, !.tries = tries]
Failed == [dl EXCEPT !.pc = "failed"]

\* Any pending document: the query has no order.
Pick ==
  /\ up /\ dl.pc = "pick"
  /\ \E d \in known \ retrieved : dl' = [pc |-> "create", doc |-> d, res |-> 1, tries |-> 0]
  /\ UNCHANGED <<siteVars, known, latVars, backVars, retrieved, file>>

\* os.Create truncates. A document without the resource is an error.
Create ==
  /\ up /\ dl.pc = "create"
  /\ <<dl.doc, dl.res>> \notin Missing
  /\ file' = [file EXCEPT ![<<dl.doc, dl.res>>] = "partial"]
  /\ dl' = Doing("fetch", dl.res, 0)
  /\ UNCHANGED <<siteVars, known, latVars, backVars, retrieved>>

\* The resource is missing, or the file or the database cannot be used.
DownloadErrs ==
  /\ up /\ dl.pc \in {"pick", "create", "mark"} /\ exits < MaxExits
  /\ dl' = Failed
  /\ UNCHANGED <<siteVars, known, latVars, backVars, retrieved, file>>

\* The answer is copied and the file closed.
Fetch ==
  /\ up /\ dl.pc = "fetch"
  /\ file' = [file EXCEPT ![<<dl.doc, dl.res>>] = "answer"]
  /\ dl' = IF dl.res < Len(Resources) THEN Doing("create", dl.res + 1, 0) ELSE Doing("mark", 2, 0)
  /\ UNCHANGED <<siteVars, known, latVars, backVars, retrieved>>

\* Two bugs TLC must find: the error of the loop shadows the one tested after it,
\* and one attempt too many.
MutFetchFailsShadowed ==
  /\ up /\ dl.pc = "fetch" /\ exits < MaxExits
  /\ IF dl.tries + 1 < Retries
     THEN dl' = Doing("fetch", dl.res, dl.tries + 1) /\ UNCHANGED file
     ELSE /\ dl' = IF dl.res < Len(Resources) THEN Doing("create", dl.res + 1, 0) ELSE Doing("mark", 2, 0)
          /\ UNCHANGED file
  /\ UNCHANGED <<siteVars, known, latVars, backVars, retrieved>>

MutFetchFailsOnceMore ==
  /\ up /\ dl.pc = "fetch" /\ exits < MaxExits
  /\ IF dl.tries < Retries
     THEN dl' = Doing("fetch", dl.res, dl.tries + 1) /\ UNCHANGED file
     ELSE dl' = Failed /\ file' = [file EXCEPT ![<<dl.doc, dl.res>>] = "none"]
  /\ UNCHANGED <<siteVars, known, latVars, backVars, retrieved>>

\* An attempt fails with part of the answer in the file. The next one truncates it;
\* after the last, or when Close fails, the file is removed and the error returned.
FetchFails ==
  /\ up /\ dl.pc = "fetch" /\ exits < MaxExits
  /\ \/ /\ dl.tries + 1 < Retries
        /\ dl' = Doing("fetch", dl.res, dl.tries + 1)
        /\ UNCHANGED file
     \/ /\ dl' = Failed
        /\ file' = [file EXCEPT ![<<dl.doc, dl.res>>] = "none"]
  /\ UNCHANGED <<siteVars, known, latVars, backVars, retrieved>>

Mark ==
  /\ up /\ dl.pc = "mark"
  /\ retrieved' = retrieved \cup {dl.doc}
  /\ dl' = Picking
  /\ UNCHANGED <<siteVars, known, latVars, backVars, file>>

-----------------------------------------------------------------------------
(* Drain                                                                   *)

\* os.Create, for the next row of the table.
DrainCreate ==
  /\ up /\ drain.pc = "next"
  /\ \E f \in stored :
       /\ file' = [file EXCEPT ![f] = "partial"]
       /\ drain' = Moving("copy", f)
  /\ UNCHANGED <<published, up, exits, blank, stored, known, latVars, backVars, dl, retrieved>>

DrainCopy ==
  /\ up /\ drain.pc = "copy"
  /\ file' = [file EXCEPT ![drain.file] = "answer"]
  /\ drain' = Moving("delete", drain.file)
  /\ UNCHANGED <<published, up, exits, blank, stored, known, latVars, backVars, dl, retrieved>>

DrainDelete ==
  /\ up /\ drain.pc = "delete"
  /\ stored' = stored \ {drain.file}
  /\ drain' = DrainIf(TRUE)
  /\ UNCHANGED <<published, up, exits, blank, known, latVars, backVars, dlVars>>

\* All rows are moved: Drain returns without an error.
DrainEnds ==
  /\ up /\ drain.pc = "next" /\ stored = {}
  /\ drain' = DrainIf(FALSE)
  /\ UNCHANGED <<published, up, exits, blank, stored, known, latVars, backVars, dlVars>>

\* The file of a copy that fails is removed; its row stays.
DrainFails ==
  /\ up /\ drain.pc \in {"next", "copy", "delete"} /\ exits < MaxExits
  /\ file' = IF drain.pc = "copy" THEN [file EXCEPT ![drain.file] = "none"] ELSE file
  /\ drain' = Moving("failed", NoFile)
  /\ UNCHANGED <<published, up, exits, blank, stored, known, latVars, backVars, dl, retrieved>>

-----------------------------------------------------------------------------
(* The process                                                             *)

Failing == "failed" \in {latest.pc, back.pc, dl.pc, drain.pc}

\* g.Wait returns after an error or a signal, or the process is killed. What the
\* other goroutines do between the cancellation and the end is what they do
\* before it. A search that was under way is not resumed by the next process.
Exit ==
  /\ up /\ exits < MaxExits
  /\ up' = FALSE /\ exits' = exits + 1
  /\ passedOver' = IF found # {} \/ back.pc # "done"
                     THEN passedOver \cup Unknown ELSE passedOver
  /\ latest' = At("search", 1, <<>>) /\ moved' = FALSE /\ found' = {}
  /\ back' = At("search", 1, <<>>) /\ from' = [page |-> Off, docs |-> 0]
  /\ dl' = Picking /\ drain' = DrainIf(FALSE)
  /\ UNCHANGED <<published, blank, known, retrieved, file, stored>>

Restart ==
  /\ ~up
  /\ up' = TRUE
  /\ blank' = (known = {})
  /\ \E f \in Flags : /\ back' = BackfillFrom(f[1]) /\ from' = [page |-> f[1], docs |-> published]
                      /\ drain' = DrainIf(f[2])
  /\ UNCHANGED <<published, exits, known, latVars, dlVars, stored>>

Latest   == LatestSearch \/ LatestInsert \/ LatestWakes
Backfill == BackfillSearch \/ BackfillInsert
Download == Pick \/ Create \/ Fetch \/ Mark
Drain    == DrainCreate \/ DrainCopy \/ DrainDelete \/ DrainEnds

Next ==
  \/ Publish \/ Latest \/ Backfill \/ Download \/ Drain
  \/ LatestFails \/ BackfillFails \/ DownloadErrs \/ FetchFails \/ DrainFails
  \/ Exit \/ Restart

Spec == Init /\ [][Next]_vars

\* The site answers a search in the end and the scheduler runs Latest; a process
\* whose goroutine failed exits; whoever runs the bot starts it again.
Fairness == WF_vars(Latest) /\ WF_vars(Failing /\ Exit) /\ WF_vars(Restart)

FairSpec == Spec /\ Fairness

-----------------------------------------------------------------------------
(* Properties                                                              *)

\* A document with a retrieval date has both files, each with an answer of the
\* server, or the answer is still in the table that Drain empties (drain.go:29-42):
\* no truncated file of an attempt that failed, of a process that was killed, or of
\* the document before is all there is.
RetrievedIsComplete ==
  \A d \in retrieved : \A r \in {1, 2} : file[<<d, r>>] = "answer" \/ <<d, r>> \in stored

\* Latest may stop at the first known document because the known ones have no
\* holes. While it sleeps and no backfill runs, a document between two known ones
\* is missing only because a process ended in the middle of a search, or because a
\* publication moved the pages of a search that needed more than one.
HolesAreExplained ==
  up /\ latest.pc = "sleep" /\ back.pc = "done" =>
    \A d \in Docs \ known :
      (\E lo, hi \in known : lo < d /\ d < hi) => d \in passedOver

\* "Reached the end!" (modules.go:66): every document that was on the first page of
\* the backfill or behind it when it began is known, although the pages move.
BackfillReachesAll ==
  back.pc = "done" /\ from.page # Off =>
    1..(from.docs - (from.page - 1) * PerPage) \subseteq known

\* The search of Latest has no bound of its own (modules.go:27): an empty page is
\* followed by the next. With a document in the table when the process started it
\* meets a known one first, and never asks for a page behind the last document.
SearchStaysOnPages ==
  up /\ ~blank /\ latest.pc = "search" => Results(latest.page) # <<>>

\* Each step of such a search stops it, turns to a later page or goes down its
\* page: whatever Backfill inserts and the site publishes, it never looks at the
\* same place twice. As its page holds a document, there are at most MaxDocs pages.
SearchStep ==
  up /\ ~blank /\ latest.pc \in {"search", "insert"} /\ latest' # latest /\ up' =>
    \/ latest'.pc \in {"sleep", "failed"}
    \/ latest'.page > latest.page
    \/ /\ latest'.page = latest.page /\ latest'.pc = "insert"
       /\ latest.pc = "search" \/ Len(latest'.todo) < Len(latest.todo)

SearchAdvances == [][SearchStep]_vars

\* What makes a search end, but for fairness (modules.go:27).
SearchGetsOn == [][SearchStaysOnPages' /\ SearchStep]_vars

\* The answers that are kept: in a file, or in the table that Drain empties.
Kept == { f \in Docs \X {1, 2} : file[f] = "answer" \/ f \in stored }

Archived == INSTANCE Archive WITH kept <- Kept

\* The goroutines together keep the archive: a document is inserted once, after it
\* was published, gets its date when both its files are kept (modules.go:84-120), and
\* no attempt, drain, failure or end of a process takes away a file of a document
\* that has its date.
ImplementsArchive == Archived!Spec

\* With a document in the table when the process starts, each search of Latest
\* ends, and new documents are looked for again. (With an empty table it never
\* does: behind the last page come empty pages for ever.)
SearchEnds ==
  (up /\ ~blank /\ latest.pc = "search") ~> (latest.pc = "sleep" \/ ~up)

=============================================================================
