# Specifications of mostly-harmless

TLA+ models, TLC configurations and TLAPS proofs for the programs of this repository that
keep state, run concurrently or must survive a failure. Paths below are relative to `src/`.

The repository is a collection of unrelated small programs. None of them calls another; what
follows is therefore one group of modules per program: `X` is the program, `MCX` small values for its
constants, `X_run.cfg` a run, `XProofs` the theorems.

| program | modules |
|---|---|
| `muzoo test` | `MuzooVerdicts` (abstract), `MuzooTest`, `MCMuzooTest`, `MuzooTestProofs` |
| `muzoo capture`, `rebase`, `rm` | `MuzooStore`, `MCMuzooStore`, `MuzooStoreProofs` |
| `dcbot` | `Archive` (abstract), `DcBot`, `MCDcBot`, `DcBotProofs`, `DcBotWalkProofs` |
| `sumdb-explorer` | `LogCopy` (abstract), `SumDB`, `MCSumDB`, `SumDBProofs` |
| `covfefe` | `Covfefe`, `MCCovfefe`, `CovfefeProofs` |
| `custodian` | `Freezer`, `MCFreezer`, `FreezerProofs` |
| `atsites` | `SiteMirror` (abstract), `AtSites`, `MCAtSites`, `AtSitesProofs` |

## 1. Inventory

| program | state | operations and concurrency | what is hard | what makes it correct |
|---|---|---|---|---|
| `muzoo test` (`muzoo/cmd_testing.go`, `git.go`) | kept git worktrees, one per worker slot; a channel of free slots; one result per mutation; a cancellable context | set-up, sanity run, validation, one goroutine per mutation that resets, applies, runs and judges; a timer per test, a memory monitor per test, a signal goroutine | slots handed over between goroutines, the zero value of a result means KILLED, cancellation / deadline / memory kill / exit status race, HEAD moves, worktrees are reused | a mutation is tested alone, a KILLED is earned, exit 0 has evidence for all, the command always ends |
| `muzoo capture/rebase/rm/status/list/show` (`cmd_capture.go`, `cmd_rebase.go`, ...) | the directory of patches, HEAD / index / working tree, worktrees `rebase-NNNN` | commands of several terminals, an editor, a language model that answers late, a user who edits, stages and commits | the tree is restored long after the diff was read; numbers are reused; files are truncated before they are rewritten; a killed rebase leaves its worktree | no edit is lost, a patch keeps its mutation, rebased patches apply |
| `dcbot` | SQLite table of documents with a retrieved flag, files | two search loops (latest, backfill), a downloader, a drain, in one errgroup | a loop that stops at the first known document, restarts, HTTP errors taken for content | a search ends, what it leaves out is explained, a backfill leaves out nothing, retrieved means the file is complete |
| `covfefe` | SQLite tables of raw messages, tweets, users, follows, media | timeline producers, one consumer over an unbuffered channel, rescan, web front end | crash between raw message and derived rows, duplicates, cancellation by errgroup | every message received is stored, every row comes from a message, and what is missing was cut short |
| `sumdb-explorer` | SQLite rows by log index, last checkpoint | ingestion once a minute, a concurrent classifier of host names | an early return inside the loop over entries, the size of an empty table | every row is an entry under the stored checkpoint, at its index, once; checkpoints extend each other |
| `atsites` | SQLite rows of publications and documents | a websocket consumer with acknowledgements, HTTP handlers | at-least-once delivery, events that are skipped without an acknowledgement, updates that are ignored | the rows mirror the acknowledged events |
| `custodian` (`custodian/src/freezer.ts`) | a cache of images by URL, an object model of the document | one asynchronous job per element, each with calls to the browser over one session, joined at the end | answers in any order, a promise awaited late or never, errors that end the wait for the others, a page whose scripts go on | the document that is written is complete, and the browser is closed |
| `filippo.fly.dev` | two counters, two polled values | per-request goroutines, background pollers | each counter has a mutex, a poller overwrites one value | a reader sees a complete value |
| `jj-codereview` | Gerrit changes, labels and drafts | mail: push, then label; reply: drafts one by one | the user decides at prompts, the rest is the server's | a change is pushed and labelled once |
| `twitchy`, `garkbit` | a small persisted state each | event handlers of a bot | external services decide what happens | an event has its effect once |

Everything else is listed with its reason in section 11.

## 2. Plan, and what is left of it

1. `MuzooVerdicts`, `MuzooTest`, `MuzooTestProofs`: the test command, the abstract specification it implements, its invariants. Done.
2. `MuzooStore`, `MuzooStoreProofs`: the mutations directory, and that no edit is lost. Done.
3. `DcBot`, `DcBotProofs`, `DcBotWalkProofs`: the walks, the downloader, the drain and restarts. Done.
4. `SumDB`, `SumDBProofs`: rows and checkpoints of a log. Done.
5. `Covfefe`, `CovfefeProofs`: producers, channel, consumer, crash, rescan. Done, but for media.
6. `Freezer`, `FreezerProofs`: jobs of all elements at once. Done.
7. `SiteMirror`, `AtSites`, `AtSitesProofs`: delivery with acknowledgements against a mirror. Done, but for the HTTP handlers.

Left: two `muzoo test` in one repository, and test commands whose children outlive them (both are hazards
without a property, as the code does nothing about them); `jj-codereview` with a model of Gerrit. The
order was: programs whose state outlives a failure first, among them those with more concurrency first.

Runs take two to three minutes at most: 2-3 actors, 2-3 data items, one bound per counter. Where a program has
state on disk, `Crash` or `Exit` may come between any two steps.

## 3. muzoo test: `MuzooTest`

**State.** `phase` is where `cmdTest` is; `built` is the loop variable over `workerPaths`; `wt` is the
worktree of each slot: the commit it is checked out at, the patches applied to it and the debris that tests left
(`tracked`: edits and untracked files, `ignored`: files matched by `.gitignore`); `free` is the channel `sem`; `pc`,
`slot`, `proc`, `fired`, `oom`, `err`, `result` are the locals of a goroutine (`cmd_testing.go:250-364`), its test
process, its timeout context, `runCapped`'s flag and error, and the entry of `results`; the sanity run is the
same machine with the model value `Baseline`. `sig` and `ctxDone` are the signal channel and the context, `timeout` says whether `-timeout` is
set (chosen once, from the constant `Timeouts`). `ranIn` and `ended` are history.

**Actions.** `SetUpWorktree`/`SetUpFails` are one pass of the loop at line 98 with `reuseOrCreateWorktree`; a
worktree an earlier run left may be there or not (`Leftover`). `StartBaseline`/`EndBaseline` are lines 118-160,
`ValidatePatches`/`ValidationFails` 162-202. A goroutine goes through `Acquire`/`GiveUp` (the select), `Reset`/`ResetFails`,
`Apply`/`ApplyFails`, `StartTest`, `Judge` (the chain of conditions, in the order of the code) and `Return` (the deferred
calls). A process ends by itself (`ProcessEnds`), is killed by `cmd.Cancel` (`ContextKills`) or by the memory monitor
(`MonitorFires`, then `MonitorKills`), and `WaitReturns` reports one of the errors `os/exec` can give: after exit
status 0 also the context's error or `ErrWaitDelay`. `Collect`, `Summarise` and `Label` are lines 366-416. `Interrupt`,
`CancelContext` and `Commit` are the environment.

**Abstract specification.** `MuzooVerdicts` is the help text: each mutation is settled once, the exit code is
a function of all settled verdicts, a run that is cut short reports none. `ImplementsVerdicts` checks the refinement.

| run | instance | shows |
|---|---|---|
| `limits` | 2 mutations, 2 slots, timeout, memory limit, debris in the worktrees, one commit | `SlotsExclusive`, `KilledIsEarned`, `TestedAlone`, `ExitZeroIsEarned`, `CommandGetsOn`, `ImplementsVerdicts`: every race of the verdict chain, worktrees left dirty by an earlier run, slots at different commits, a signal at any moment |
| `live` | 2 mutations, 1 slot, with and without timeout | `Terminates` (with a timeout) and `InterruptEnds` (with and without) when the test that has the slot hangs and the other goroutine waits for it |
| `heads` | 1 mutation, 2 slots, one commit | a sentence of the comments that the code does not keep (section 12) |

**What ends the command.** `Terminates` and `InterruptEnds` need fairness and are TLC's. What they rest on needs none: `OnlyForward` says that every step of
the command, its goroutines, tests and timers takes something further and nothing back, so that there are finitely many of them, and `SlotsComeBack` that whoever waits for a slot waits for a
goroutine that works. `CommandGetsOn` is both, and is checked and proved.

**Bounds.** `MaxHead` (commits during the set-up; HEAD is not read later, so one commit is every case of two slots that
differ). The pool and slots are small because a verdict involves one mutation and its slot, and exclusion involves two; the
proofs cover every size. `live` has more mutations than slots, so that one goroutine waits while the pool is empty, and may be cancelled there.

**Fairness** (`Fairness`): the Go scheduler runs every goroutine and `git` commands finish, so `Main` and each goroutine are
weakly fair; timers fire, SIGKILL kills a process group, and `Wait` returns (`WaitDelay` bounds the pipes). Nothing makes a
test end by itself, a signal come or a commit happen, so `ProcessEnds`, `MonitorFires`, `Interrupt` and `Commit` are not fair.

**Left out.** Parsing of test output (`parseFailedTests`, pytest flags), `parseSize`, the progress bar and the wording. A test
writes to its worktree until it ends, not after it (background children of a test are a listed hazard).

## 4. The mutations directory: `MuzooStore`

**State.** A tree is the set of edits it contains: `head`, `index`, `work`; a patch is the edits of its diff with the edits its
context lines show. `Applies` and `Reverses` are `git apply --check`, forward and reverse. `files` is the
directory, `worktrees` the existing `rebase-NNNN`. Each process has a `pc` and the locals it keeps across a wait: the diff in memory
(`loc`), the number, the rest of the listing, `anyFailed`. `made`, `dropped` and `orphans` are history: what the user ever wrote, what `muzoo rm` or a torn
write took out of the directory, and the worktrees that killed rebases left or git did not remove.

**Actions.** `capture` is `CaptureDiff`, `CaptureNumber`, `CaptureWrite`, `EditorCloses`/`EditorFails`, `Restore`/`RestoreFails`,
`ReadBack` or `Describe`/`DescribeFails`, each between two points where the program does I/O or waits; `CaptureFails` is every error return before the
restore. `rebase` is `RebaseList`, then for each number `RebaseRead`, `RebaseSkips` (OK, APPLIED) or
`RebaseWorktree`, `RebaseMerge`, `RebaseWrite`, and `RebaseEnds`. The outcome of three-way merge, mergiraf and claude is a choice:
the mutation without what HEAD contains by then, or a conflict. The worktree is removed by a deferred call whose error is
dropped (`cmd_rebase.go:112`), so it may stay (`RemoveWorktree`). `Crash` kills a process at any step, without its deferred calls, and may tear the file it was writing. The user
edits, stages and commits (`Edit`, `Stage`, `Commit`); `Rm` is one `os.Remove`. `status`, `list` and `show` only read.

**Environment.** Constants say what happens at the same time: `Overlap` (commands in several terminals), `Busy` (the points of a command at which the user works in the repository meanwhile; none in `serial` and `reuse`, while `$EDITOR` is open in `editing`),
`Behind` (the subcommands that are started while a capture waits for claude, as the comment at `cmd_capture.go:93` invites to),
`Crashes`, `Subcommands`, and `HasClaude`, the set of what the installation of claude may be. With `Overlap = FALSE` any other
command starts when the earlier ones have ended.

| run | instance | shows |
|---|---|---|
| `serial` | capture, rebase, rm; 3 edits, 3 commands, crashes, captures behind captures that wait for claude | types, `NothingLost`, `NoLeftover`, `CapturesSaved`, `RewritesKeepMutations`, `RebasedApplies` |
| `editing`, `reuse` | 1-2 commands | two sentences of the docs that the code does not keep (section 12) |

**Bounds.** `MaxNum` patch numbers and the set `Commands`: three commands are enough for a capture, a removal, a second capture that takes the number, and a rebase.
Two edits are near each other and one is not, so that context can conflict or not. There are no liveness properties: commands wait for people and programs that need not answer.

**What it does not show.** The number of a removed patch is given to the next one (`patch.go:101`), so a number does not name one mutation for good; `RewritesKeepMutations` says that no write over a patch
that is there changes its mutation. `RebasedApplies` is about exit code 0 in a tree that equals HEAD: the code checks against the working tree, and a dirty tree or a HEAD that moves during the rebase make it false.
`NothingLost` excuses torn writes, and the runs have no two captures at once and no `rm` during a rebase.

**Left out.** Descriptions, several files in a patch, LLM answers that are not the mutation, an editor that changes the diff, readers that meet a half-written file.

## 5. The document archiver: `DcBot`

**State.** Documents are numbers in the order of their publication; `published` is the site, `known` and `retrieved` are the
table, `file` the files on disk: missing, part of an answer, an answer. `latest`, `back`, `dl` and `drain` are the locals of the goroutines: the
page and the rest of it for the two walks, the document, resource and attempt for the downloader, the file for the drain. `Flags` is the set of the flags the bot is started with. `up` and `exits` are the process.
`moved`, `found`, `from`, `passedOver` and `blank` are history.

**Actions.** `LatestSearch`/`LatestInsert`/`LatestWakes` are `modules.go:14-50`, one document at a time; `BackfillSearch`/`BackfillInsert`
are 52-83; `Pick`, `Create`, `Fetch`, `FetchFails`, `Mark` are 85-142 with `DownloadFile`. `DrainCreate`, `DrainCopy`, `DrainDelete` and `DrainEnds`
are `drain.go`: `-drain` moves the files that an older version kept in the database (`stored`) to the disk, one after the other. A search that fails is tried again and changes nothing. `LatestFails`,
`BackfillFails`, `DownloadErrs`, `DrainFails` and the last `FetchFails` return an error, which ends the process (`Exit`), as do a signal and a crash; memory is lost and
`Restart` begins again at page 1. What goroutines do between the cancellation of the errgroup's context and the end of the process are steps
they can take before it, so `Exit` is one step. `Publish` moves every document one place back in the pages.

| run | instance | shows |
|---|---|---|
| `bot` | 5 documents, pages of 2, two attempts, one document with a PDF, files in the database or outside, one restart; started without flags, with `-backfill 2` or with `-drain` | types, `HolesAreExplained`, `BackfillReachesAll`, `SearchEnds`, `SearchGetsOn`, `ImplementsArchive` |

**What it shows.** Stopping at the first known document is right as long as the known documents have no hole. `HolesAreExplained` says which holes
there can be: those of a search that was cut short by the end of the process, and those of a search of more than one page during which a document was
published. Both are real (drop `passedOver` from the property and TLC shows them); `-backfill 1` closes them. `SearchEnds` needs
a table that is not empty when the process starts: behind the last page `Latest` goes on through empty pages for ever.
`SearchStaysOnPages` (it never asks for a page without documents) and `SearchAdvances` (it never looks at the same place twice) are why: together (`SearchGetsOn`) they bound the steps of a search, whatever is published and inserted meanwhile.

**Abstract specification.** `Archive` is what the bot is for: documents enter the table once they are published and are archived when both files are kept, for good. There are no pages, goroutines, drains or restarts
in it. A file is kept when the answer is on the disk or still in the database (`Kept`), so a `Drain` is a stutter. `ImplementsArchive` checks the refinement, and with it `RetrievedIsComplete`, which is what `kept` says in every
state of `Archive`.

**Bounds.** Five documents on pages of two are the least with which a publication moves a document that was just inserted to the head of the second page
while an older one is unknown behind it. `MaxPage` is a page no document can be on, so the pages after it add nothing. `MaxExits` bounds failures.

**Fairness.** `SearchEnds` assumes that the site answers in the end (`WF_vars(Latest)`), that a process with a failed goroutine exits, and that
it is started again. Downloads, publications and backfills are not fair.

**Left out.** HTTP details, rate limits, the debug server.

## 6. The checksum database: `SumDB`

**State.** The tables: `rows` (table `versions` by index), `stored` (the newest checkpoint), `status` and `badSince` of each host name.
`pc`, `start` and `checkpoint` are the locals of the ingestion, `dpc`, `asking`, `size`, `marking` those of the classifier.
A tree is a history and a size; `Consistent` is what the tree hashes prove.

**Actions.** `ReadSize`, `Fetch`, `UpdateCheckpoint`, `ProcessEntries` or `NoEntries`, `Tick` are one pass of the loop of `ingest.go`, each a transaction or an
answer of the log. The loop over the entries returns in its first pass, so one entry is inserted. An entry that `parseEntry` rejects, or whose path and
version are there already (`UNIQUE`, `main.go:105`), ends the process; `NoEntries` is a loop without a pass, as a tile that cannot be fetched gives. `AskSelect`, `Ask`, `MarkSelect`, `Mark`, `MarkEnds` are `domainr.go`. The environment
grows the log (`Publish`), answers with any tree of any history up to that size, and ends the process (`Exit`, `Restart`).

| run | instance | shows |
|---|---|---|
| `ingest` | logs of 4 entries, two histories that part after the first, the second with a rejected entry and one that is there twice, one restart | types, `ImplementsLogCopy` (in it `RowsUnderCheckpoint`, `CheckpointExtends`, `RowsAppended`), `BadSinceHolds`, `KeepsUp` |
| `skips` | the same without a restart | that a batch leaves entries out (section 12) |

**Abstract specification.** `LogCopy` is the database: a tree that is replaced by its extensions, and rows that are entries of it, added behind all others. It does not say that no entry is left out, since the code leaves
some out. `ImplementsLogCopy` checks the refinement, which has `CheckpointExtends` (`Trust`), `RowsAppended` (`Copy`) and so `RowsUnderCheckpoint` in it: an insertion is right although the checkpoint in memory may be older than the one in the table. `InsertIsNew` says that the `INSERT` never meets its primary key, which would end the process.

**Bounds.** Four entries allow a batch of two and another after it, from index 1, where the code starts. Two histories are what consistency is about; a third is no new pair.

**Fairness.** The steps of the ingestion are weakly fair, each by itself, and the program is started again (`WF`). `SF_vars(Fetch(newest))`: a log that answers again and again shows its newest tree again and again.
A tile that cannot be fetched (`NoEntries`) is not fair: nothing guarantees a failure.
`KeepsUp` is about a log that signs one history (with two the code stops on purpose) and whose entries can all be inserted (`Insertable`): one that cannot ends the process at the same start after each restart.

**Left out.** What an entry holds beyond being refused or not, the registry's statuses beyond good, bad and unknown, the web pages.

## 7. The archive of tweets: `Covfefe`

**State.** The tables `messages`, `tweets`, `users`, `follows` (a row is the message it was derived from; `origin` is the tweet and the user that a row of `tweets` was made of). A tweet and a user are JSON objects (`Posts`, `Profiles`): several objects may be
of one tweet (`Id`), an object may have no user (`Author`), a user's object may have a tweet in it (`Status`), and a row of `users` is for an identifier with a handle, a name and a bio (`Key`, `db.go:44`). Each producer has `pc`, `batch` (what is left to send),
`newest` and `since`. `todo` is the call stack of `Handle`: the calls still to be made, innermost first, so that a parent which is fetched in the middle of
a message is handled before the rest, with the user that `processTweet` is given: `processUser` lends its own to the tweet in it (`process.go:170`). The calls of a rescan stand in front. `answered`, `lost`, `cut` are history: what Twitter answered to this process, messages whose `INSERT` failed, and messages
whose processing was cut short since the last rescan.

**Actions.** `Fetch`, `FetchFollowers`, `FetchFails`, `Send`, `Stop` are the goroutines of `twitter.go`; the channel has no buffer, so `Send` is one step with the receive. `Handle`, `HandleDrops`, `ProcessTweet`,
`ProcessUser`, `InsertFollow`, `FetchParent`, `NoParent` and `StatementFails` are the consumer, a statement each. `Signal`, `End`, `Crash`, `Restart` are the process. `Rescan` empties the derived tables, and `ScanMessage` hands over the messages one after the other; a statement that
fails in it is logged and the rest is committed. It is one transaction, so the process does not step meanwhile (`Scanning`).
`Appear` puts the next tweet on a timeline, with an identifier smaller or larger than those before it: a timeline of likes is in the order of the likes.

| run | instance | shows |
|---|---|---|
| `archive` | a timeline of likes with a dropped tweet of a protected user and a tweet that retweets a reply and quotes the dropped one; a parent that is fetched; a follower with a tweet by itself in it, which holds a tweet without a user; two starts, one failure, one rescan | types, `RowsFromMessages`, `HolesAreCut`, `SinceIsHandled`, `Stops`, `EndsComplete`, `CallsDescend` |

**Bounds.** Four tweets have every way in which one tweet is met in another object: nested, in a user, as a parent, and on its own. `MaxStarts`, `MaxFaults`, `MaxRescans`, `MaxRounds` (answers of the list of followers) bound the counters: one failure is enough to make a hole, and a crash counts as one. The process may end for good, so deadlock is not checked. 320,046 states, one minute.

**What it does not show.** `HolesAreCut` says nothing of what is inside a second object of a tweet that has its row, nor inside a tweet without a user: the code skips both (`process.go:41`, `process.go:50`). After a rescan it says nothing of `follows`, which cannot be derived again.

**Fairness.** `WF` of each producer's `Send` and `Stop`, of `Consume` and `End`: goroutines run, statements and requests end one way or the other. Signals, failures and answers are not fair.

**Left out.** Media files, wording, and the messages of the retired streaming API (`event`, `del`, deletions), which nothing in the program produces any more.

## 8. The freezer: `Freezer`

**State.** `phase` is where `freezePage` and its callers are. `resTree` is the resource tree, `imgDataURLs` the cache. Of each element: `styled`, `computed` (the promises of
its style), `drawn` and `style` (its background and declarations so far), `source` and `src` (its `currentSrc`, and the attribute it gets). `loaded` is the page, `output` what was written.

**Actions.** A step is what the event loop runs for one answer of the browser with all continuations that need no other. `ContextOpens`, `PageLoads`, `ResourceTree`, `Document` are the sequential part, `StyledArrives`,
`ComputedArrives`/`ComputedFails`, `DrawnArrives`, `NodeResolves` and `SourceArrives` (the two calls of `getCurrentSrc`), `ImageArrives`, `JobFails` the jobs, `Write`, `StepFails`, `OutsideFails`, `Close` the ends. `Load` is the page, whose scripts go on.

| run | instance | shows |
|---|---|---|
| `freeze` | an image that changes what it shows, an element with two backgrounds, one without style; two images that may load late; one failing call | types, `WrittenIsWhole`, `WaitShrinks` (an element that is not done has a call open, and each answer leaves one call less), `Ends` |

**Bounds.** Two jobs that share one image, and one element with two awaits in a row, are every kind of interleaving the code has; `MaxFaults` bounds failures. The program ends, so deadlock is not checked.

**Fairness.** `WF_vars(Answer)`: as long as the browser is asked something, it answers or the call fails. Loading is not fair.

**Left out.** The text of the document, which elements are kept, the inlining of style sheets' text.

## 9. The mirror of records: `AtSites`

**State.** `rows` are the two tables, `pc` and `msg` the loop of `handleTap`, `stream` and `acks` the websocket in both directions. `history` and `acked` are the Tap, which is external: from how the code uses it, it delivers an
event until it is acknowledged, in any number of copies, the next event of a record only after that, and does not wait for identity events. `applied` is history.

**Actions.** `Read`, `SkipIdentity`, `SkipUnknown`, `Store`, `Ack` are the loop, `Exit` and `Start` the process: `Exit` may come after a statement took place and before its acknowledgement. `Publish`, `Deliver`, `DeliverOther`, `TakeAck` are the environment.

**Abstract specification.** `SiteMirror`: every record is mirrored event by event, in order, none twice, none left out. Copies and restarts do not exist there. `ImplementsMirror` checks the refinement.

| run | instance | shows |
|---|---|---|
| `mirror` | one document, three events, queues of two, one end of the process | types, `AckedIsStored`, `ImplementsMirror`, `CatchesUp` |

**Bounds.** Records do not touch each other, in the tables or in the Tap, so that one is enough; a document can do all that a publication can, and be loose. Queues of two hold a copy of an event behind its first delivery.
A loose document, whose site is no publication, keeps the row it had (`main.go:196`).

**Fairness.** The process runs and is started again, the Tap reads acknowledgements (`WF`), and delivers again and again what is not acknowledged (`SF`).

**Left out.** The HTTP handlers, which read the tables, and `/healthz`.

## 10. Proofs

Every theorem holds for every value of the constants that satisfies the module's named assumptions, none of which bounds an instance. Invariants are proved
with one step per action and one per conjunct the action can disturb; each was checked with TLC before.

`MuzooTestProofs` rests on `Pool` (types, `SlotsExclusive`, `SlotHeld`) and `IInv`, which adds the last three of

* `TypeOK` and `SlotsExclusive`,
* `SlotHeld`: a goroutine has a slot exactly between its receive from `sem` and its return; without it, a returned slot need not be a slot, and exclusion says nothing of what a step does to a worktree,
* `PhaseInv`: goroutines are active in phase `mutate` only, the sanity run before it and not yet while worktrees are set up; without it, the sanity run could write into a slot,
* `AloneInv`: `TestedAlone` and what a reset establishes before the patch is applied,
* `OutcomeInv`: what each point of a goroutine knows of its process, and that each flag of a result has its cause,
* `ReportInv`: exit codes 0 and 1 are reached with every goroutine done and no cancellation.

From it: `MutationsTestedAlone`, `KilledVerdictsEarned`, `ExitZeroEarned`, and the refinement `RefinesVerdicts`: a step that returns from a goroutine is a `Decide` or, when it gave up,
a stutter; the summary is a `Report` because `OutcomeInv` ties the labels it prints to the verdicts; every other end of the command is an `Abort`. `SlotsAreReturned` follows from `Pool` and `SlotHeld`. `NothingGoesBack` numbers the phases (`Part`) and the points of a goroutine (`Point`): `OwnStep` says
what a step of one run has to do, and each action is shown to do it. `CommandProceeds` is the two of them.

`MuzooStoreProofs` has two invariants. `GInv` (types, `NumInv`: which numbers a command may hold, `LeftInv` and `NoLeftover`: whose the worktrees are) holds whatever
interleaves: `StoreTypeCorrect`, `NoWorktreeLeftOver`. `SInv` needs `Serial == ~Overlap /\ Busy = {} /\ Behind \subseteq {"capture"}`; without it the statements are false. It adds
`FrontInv` (one command at most is not waiting for claude), `AloneInv`, `OwnInv` and `ApartInv` (a number that a waiting capture will write again is its own), `FreshInv` (a number just computed is free), `TreeInv`
(the diff in memory is what the working tree has more than the index, until the restore), `RebaseInv` and `HowInv` (a rebase knows the patch it works on). From it: `NoEditIsLost`, `CapturesAreSaved`, `RewritesKeep`. `RebasedPatchesApply` adds
`ExitInv` (no exit code before the end) and `ApplyInv`: as long as nothing failed, every patch a rebase is done with applies to HEAD.

`DcBotProofs`: `DcInv` adds to the types and `RetrievedIsComplete` that a walk that inserts has something to insert, `DownloadInv` (the document being downloaded is pending, so that no step writes a
file of a retrieved one, and its earlier files hold answers) and `DrainInv` (the file being moved is still in the database). From it: `DcTypeCorrect`, `RetrievedComplete`.

`DcBotWalkProofs` describes a walk by its front: the documents above it are known or explained. `ShapeInv` says what the rest of a page looks like after publications have moved it,
`KnownInv`, `LatestInv`, `StillInv` what a search of `Latest` has behind it, `BackInv` that every document of the backfill above its front is known. From it: `BackfillComplete`, and `HolesExplained`, by way of
a stronger `HolesInv` that does not ask for a known document below the hole. `MeetsInv` says that a known document which this search did not insert is at its front or behind it:
the reason why a search meets one before the pages end. It is inductive with `DcInv` and the walk invariants, and gives `SearchOnPages`; `SearchForward` is by the steps of `Latest`, `SearchProceeds` is both. `ArchiveImplemented` maps each step: insertions are `Learn`, `Mark` is
`Retrieve`, the steps of a download are `Keep` (`TaskInv`: it works on a document of the table, by `DownloadInv` one that is pending), and `Drain` and the end of the process change nothing that is kept.

`SumDBProofs`: `SumInv` is the types, `RowsUnderCheckpoint`, `CheckedInv` (the checkpoint in memory is covered by the stored one once it was checked), `AheadInv` (`start` is above all rows) and `BadSinceInv`
(no size that is written, or about to be, is above that of the table). From it: `SumTypeCorrect`, `RowsAreCovered`, `CheckpointGrows`, `RowsGoBehind`, `BadSinceIsKept`, `InsertsAreNew` (by `AheadInv`), and the refinement
`CopiesTheLog`: `UpdateCheckpoint` is `Trust`, `ProcessEntries` is `Copy`, because `CheckedInv` makes the tree in memory a prefix of the one in the table.

`CovfefeProofs`: `IInv` is the types (with `TaskOK`: a call is about something in the message it names), `RowsFromMessages`, `AnsweredInv` (what was answered is handled, pending or still in the batch) and `BatchInv`
(what a producer still has to send is newer than its `since_id`). From it: `TypeCorrect`, `RowsAreFounded`, `SinceIsKept`, `EndIsComplete`. `InsideAssumption` is all it needs of the JSON: what is in an object that is in a message is in the message.
`OnlyCutsLeaveHoles` needs `HInv` as well, which follows each row from the call that is due: `MsgInv` (a stored message waits for a rescan, or its call is due or made), `RowInv` (for a tweet with a row, so are the calls about its user,
that user's tweet and the tweets in it) and `ScanInv` (only a rescan has messages to look at). A call that is due stays so or leaves its row, unless its message is cut (`CallStays`), and no row goes away but by a rescan (`KnownStays`); the start of one makes every message wait (`RescanStep`).
`HandlingDescends` ranks the calls: each statement puts calls of a lower rank in the place of its own, unless a tweet gets its row, which `UnknownShrinks` says only the start of a rescan takes away. The tweet in a user is below the user, and the user of a new tweet is above it: the row is what makes that descend.

`FreezerProofs`: `IInv` is the types, `StyleInv` (the style so far is that of the answers so far), `ImageInv` (an attribute is what `currentSrc` asks for), `EarlyInv` (nothing is answered before the jobs start) and `OutputInv`. From it: `FreezerTypes`, `WritesWhole`.
`WaitIsForTheBrowser` adds `FailedInv` (a computed style that failed and is needed has ended the wait). `AnswersCount` counts the calls an element may still make, which `CallsLeftNat` keeps at or above zero. `WaitEndsIfAnswered` is both.

`AtSitesProofs`: `IInv` is the types, `StreamInv`, `MsgInv` and `AcksInv` (what is on the way is of a handled event or the next one), `OrderInv` (an older copy does not come behind a newer event), `CountInv` and `RowInv` (the row is that
of the applied events). From it: `AtTypeCorrect`, `StoredBeforeAcked`, and the refinement `MirrorsInOrder`: `Store` is a `Mirror` or, for a copy, a stutter.

Every invariant and every action property of a passing run is stated by a theorem, and so are the four refinements (`MuzooVerdicts`, `Archive`, `LogCopy`, `SiteMirror`).

Only model-checked: the liveness properties (`Terminates`, `InterruptEnds`, `SearchEnds`, `KeepsUp`, `Stops`, `Ends`, `CatchesUp`), since fairness and ENABLED are out of the prover's reach. For four programs
the part of them that needs no fairness is proved. A measure goes down with every step, or with each step of the loop in question, and where there is something left to do somebody is at it:

| liveness | what goes down, and what is never waited for in vain |
|---|---|
| `Terminates`, `InterruptEnds` | `CommandGetsOn` |
| `SearchEnds` | `SearchGetsOn` |
| `Stops` | `CallsDescend` |
| `Ends` | `WaitShrinks` |

That a measure which goes down reaches its end is induction over data and not proved either. The bounds on failures and restarts (`MaxExits`, `MaxStarts`, `MaxFaults`, ...) are constants like the others: the theorems hold for any of them.

## 11. Not modelled

* `filippo.fly.dev`: static handlers, two counters guarded by a mutex each, two pollers that overwrite a value: no step of one can break another.
* `jj-codereview`, `twitchy`, `garkbit`: sequences of calls to git, Gerrit or a chat service in which the user or the service decides; what could go wrong is what the service does with them, which the code does not say.
* `quic-harness`, `tlog-torrent`, `rare`, `rebalance`, `benchdiff`: drivers of external programs and exercises of a library.
* One-shot conversions and thin wrappers of I/O (`standard-backup`, `standard-decrypt`, `paper`, `mip`, `reput`, `amend-issuer`, ...): no state a step could break.
* Cryptographic code and exercises (`vrf-r255`, `cryptopals`, `ed25519vectors`, `benchrand`): arithmetic out of TLC's reach.
* Slides, `attic/` (retired programs), host configuration, single-page tools and the scripts of web pages.
* Vendored and generated code. It is most of the JavaScript of the repository: of about 71,000 lines of it, 48,679 are the GopherJS bundle `dnskey-to-ds.js`, and nearly all others are libraries (`ender.js`, `age-*.js`, `leaflet`, `typeahead`, `wasm_exec.js`).
  The programs with state are written in Go, and one in TypeScript (`custodian`), which is modelled.

## 12. Where code and comments disagree

Each is the single property of a run that TLC finds violated; `PROJECT.json` quotes the lines.

* `heads`: with a commit during the set-up, mutations are killed on a commit the tests were never seen to pass on.
* `editing`: capture discards edits made while `$EDITOR` is open.
* `reuse`: a late description overwrites another mutation.
* `skips`: the ingestion of a batch inserts one of its entries.

More are visible in the models without a run of their own.

* `muzoo test`: exit status 0 is not always "mutation survived" (`cmd_testing.go:328`), since `Wait` has errors of its own: `WaitReturns`, `Judge`. `resetWorktree` (`git.go:173`, "a clean HEAD state") keeps the files
  `.gitignore` matches: `ResetTree`. The patches are validated (`cmd_testing.go:162`, "against a clean worktree") in the worktree the sanity run has just used: `ValidatePatches`.
* `muzoo`: a worktree that git does not remove stays, as after a kill, and makes every later rebase of its patch a conflict (`cmd_rebase.go:112`): `RemoveWorktree`. rebase looks at the working tree, not at HEAD (`main.go:70`): `RebaseSkips`. `capture` restores tracked files to the index where `README.md:32` says HEAD: `Restore`. A description that comes late undoes a rebase of the same patch: `Describe`.
* `dcbot`: the HTTP status of a file is not looked at (`documentcloud.go:70`), so an error page is an answer: `Fetch`.
* `sumdb-explorer`: an empty table starts at index 1 (`ingest.go:176`, against line 183): `dbSize`. The iterator's error is not asked for (`ingest.go:83`): `NoEntries`. An entry that is rejected, or whose path and version are there,
  ends the process, at the same entry after every restart (`ingest.go:84`, `main.go:105`): `ProcessEntries`.
* `covfefe`: the cache of hashes never hits, so every message is inserted (`db.go:67`): `Handle`. A rescan cannot derive followers again (`rescan.go:60`), and commits although statements in it failed: `ScanMessage`, `StatementFails`. A tweet without a user is not derived, nor what is in it (`process.go:41`): `ProcessTweet`. Likes of tweets older than `since_id` are not seen (`twitter.go:187`): `Above`.
  Only the tweet of a message is looked at for protection, not those inside it (`process.go:191`): `HandleDrops`.
* `custodian`: an error outside `freezePage` leaves the browser open (`freezer.ts:22`): `OutsideFails`.
