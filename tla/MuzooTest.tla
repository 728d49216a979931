----------------------------- MODULE MuzooTest -----------------------------
(***************************************************************************)
(* "muzoo test" (src/muzoo/cmd_testing.go): the worktrees of the worker    *)
(* slots, the sanity run on the un-mutated tree, the validation of the     *)
(* patches, one goroutine per mutation over a pool of slots, the test      *)
(* processes with their timeout and memory limit, cancellation by signal,  *)
(* and the summary that becomes the exit code.                             *)
(*                                                                         *)
(* A worktree is abstracted to what the verdicts depend on: the commit it  *)
(* is checked out at, the patches applied to it, and the debris test runs  *)
(* left in it: "tracked" (edits and untracked files) or "ignored" (files   *)
(* matched by .gitignore, .venv excepted).                                 *)
(***************************************************************************)

EXTENDS Integers, FiniteSets

CONSTANTS
  Patches,      \* the mutations of the run: NNNN.patch files
  Baseline,     \* the run of the tests on the un-mutated tree
  Jobs,         \* -j, the number of worker slots
  MaxHead,      \* bound: HEAD moves at most this often during the run
  AppliesAt,    \* commits each patch applies to
  Timeouts,     \* whether -timeout is set: the choices to consider
  HasMemLimit,  \* -memory is set
  TestDebris    \* the kinds of debris the tests of this repository leave

Commits == 0..MaxHead
Debris  == {"tracked", "ignored"}

\* -j 0 panics at workerPaths[0]; no patches returns before any worktree exists.
ASSUME JobsAssumption   == Jobs \in Nat \ {0}
ASSUME PatchAssumption  == Patches # {} /\ Baseline \notin Patches
ASSUME HeadAssumption   == MaxHead \in Nat /\ AppliesAt \in [Patches -> SUBSET Commits]
ASSUME OptionAssumption == Timeouts \subseteq BOOLEAN /\ HasMemLimit \in BOOLEAN
ASSUME DebrisAssumption == TestDebris \subseteq Debris

Runs   == Patches \cup {Baseline}
Slots  == 0..(Jobs - 1)
NoSlot == -1
Tree   == [base : Commits \cup {-1}, applied : SUBSET Patches, debris : SUBSET Debris]
NoTree == [base |-> -1, applied |-> {}, debris |-> {}]

VARIABLES
  phase,      \* where cmdTest is
  exit,       \* exit code of the command, -1 while it runs
  sig,        \* a signal waits in sigCh or was taken from it
  ctxDone,    \* ctx is cancelled
  timeout,    \* -timeout is set
  head,       \* commit HEAD of the user's repository points at
  built,      \* worktrees set up so far (the loop variable i)
  wt,         \* the worktree of each slot
  free,       \* slots in the channel sem
  pc,         \* where each goroutine, and the sanity run, is
  slot,       \* the slot a goroutine holds
  proc,       \* the test process: how it ended
  fired,      \* the deadline of the run's timeout context has passed
  oom,        \* runCapped's killed flag
  err,        \* what runCapped returned
  result,     \* the flag set in results[idx]; "zero" when none is
  ranIn,      \* history: the tree the test command was started in
  ended       \* history: the branch by which the goroutine returned

cmdVars  == <<phase, exit, built>>
ctlVars  == <<sig, ctxDone, head, timeout>>
runVars  == <<proc, fired, oom, err>>
doneVars == <<result, ended>>
vars == <<cmdVars, ctlVars, runVars, doneVars, wt, free, pc, slot, ranIn>>

Phases == {"worktrees", "baseline", "validate", "mutate", "collected", "exited"}
PCs    == {"idle", "waiting", "holding", "clean", "patched", "running",
           "dead", "waited", "returning", "done"}
Procs  == {"none", "running", "pass", "fail", "infra", "killed"}
Errs   == {"none", "nil", "ExitError", "shell", "ctx", "other"}
Flags  == {"zero", "errored", "survived", "timedOut", "oomKilled"}
Ends   == {"none", "errored", "survived", "timedOut", "oomKilled", "failed", "gaveUp"}

TypeOK ==
  /\ phase \in Phases
  /\ exit \in -1..2
  /\ sig \in {"none", "sent", "taken"}
  /\ ctxDone \in BOOLEAN
  /\ head \in Commits
  /\ timeout \in BOOLEAN
  /\ built \in 0..Jobs
  /\ wt \in [Slots -> Tree]
  /\ free \in SUBSET Slots
  /\ pc \in [Runs -> PCs]
  /\ slot \in [Runs -> Slots \cup {NoSlot}]
  /\ proc \in [Runs -> Procs]
  /\ fired \in [Runs -> BOOLEAN]
  /\ oom \in [Runs -> BOOLEAN]
  /\ err \in [Runs -> Errs]
  /\ result \in [Patches -> Flags]
  /\ ranIn \in [Runs -> Tree]
  /\ ended \in [Patches -> Ends]

-----------------------------------------------------------------------------
(* Worktrees (git.go)                                                      *)

TreeOf(c, patches, left) == [base |-> c, applied |-> patches, debris |-> left]
FreshTree(c) == TreeOf(c, {}, {})

\* A bug TLC must find: the reset without its git clean.
MutResetNoClean(t) == TreeOf(t.base, {}, t.debris)

\* git checkout HEAD -- . and git clean -fd -e .venv: without -x, ignored files stay.
ResetTree(t) == TreeOf(t.base, {}, t.debris \cap {"ignored"})

\* checkout --detach head, then reset.
ReusedTree(t) == ResetTree(TreeOf(head, t.applied, t.debris))

\* A test process that writes into its worktree leaves any of TestDebris there.
Littered(t) == { TreeOf(t.base, t.applied, t.debris \cup d) : d \in SUBSET TestDebris }

\* An earlier "muzoo test" left the worktree as its last test found or made it.
Leftover == { TreeOf(0, a, d) : a \in {{}} \cup { {p} : p \in Patches }, d \in SUBSET TestDebris }

Init ==
  /\ phase = "worktrees" /\ exit = -1
  /\ sig = "none" /\ ctxDone = FALSE
  /\ timeout \in Timeouts
  /\ head = 0 /\ built = 0
  /\ wt \in [Slots -> {NoTree} \cup Leftover]
  /\ free = {}
  /\ pc = [r \in Runs |-> "idle"]
  /\ slot = [r \in Runs |-> NoSlot]
  /\ proc = [r \in Runs |-> "none"]
  /\ fired = [r \in Runs |-> FALSE]
  /\ oom = [r \in Runs |-> FALSE]
  /\ err = [r \in Runs |-> "none"]
  /\ result = [p \in Patches |-> "zero"]
  /\ ranIn = [r \in Runs |-> NoTree]
  /\ ended = [p \in Patches |-> "none"]

\* return exitError, or any error that main turns into exit code 2
Exit(code) == phase' = "exited" /\ exit' = code

\* One pass of the loop over workerPaths that succeeds: the worktree is reused,
\* or created because it is missing or because reusing it failed.
SetUpWorktree ==
  /\ phase = "worktrees" /\ built < Jobs
  /\ \/ /\ wt[built] # NoTree
        /\ wt' = [wt EXCEPT ![built] = ReusedTree(@)]
     \/ wt' = [wt EXCEPT ![built] = FreshTree(head)]
  /\ built' = built + 1
  /\ UNCHANGED <<phase, exit, ctlVars, runVars, doneVars, free, pc, slot, ranIn>>

\* createWorktree fails: the worktrees set up before this one are removed.
SetUpFails ==
  /\ phase = "worktrees" /\ built < Jobs
  /\ \E left \in {wt[built], NoTree} :
       wt' = [s \in Slots |-> IF s < built THEN NoTree ELSE IF s = built THEN left ELSE wt[s]]
  /\ Exit(2)
  /\ UNCHANGED <<built, ctlVars, runVars, doneVars, free, pc, slot, ranIn>>

-----------------------------------------------------------------------------
(* A test process: os/exec under a timeout context, and runCapped          *)

\* cmd.Start succeeds in the run's worktree, or fails: because a context is
\* already done, or for a reason of its own (no shell, no such directory).
Launch(r, s) ==
  /\ \/ /\ ~ctxDone
        /\ pc' = [pc EXCEPT ![r] = "running"]
        /\ proc' = [proc EXCEPT ![r] = "running"]
        /\ ranIn' = [ranIn EXCEPT ![r] = wt[s]]
        /\ UNCHANGED <<fired, err>>
     \/ /\ pc' = [pc EXCEPT ![r] = "waited"]
        /\ \/ ctxDone /\ err' = [err EXCEPT ![r] = "ctx"] /\ UNCHANGED fired
           \/ /\ timeout
              /\ fired' = [fired EXCEPT ![r] = TRUE]
              /\ err' = [err EXCEPT ![r] = "ctx"]
           \/ err' = [err EXCEPT ![r] = "other"] /\ UNCHANGED fired
        /\ UNCHANGED <<proc, ranIn>>
  /\ UNCHANGED oom

\* The test command ends by itself: exit 0, another status, or 126/127.
ProcessEnds(r) ==
  /\ pc[r] = "running"
  /\ \E how \in {"pass", "fail", "infra"} : proc' = [proc EXCEPT ![r] = how]
  /\ \E t \in Littered(wt[slot[r]]) : wt' = [wt EXCEPT ![slot[r]] = t]
  /\ pc' = [pc EXCEPT ![r] = "dead"]
  /\ UNCHANGED <<cmdVars, ctlVars, doneVars, fired, oom, err, free, slot, ranIn>>

\* Its timeout context expires, while it runs or after it died.
DeadlinePasses(r) ==
  /\ timeout
  /\ pc[r] \in {"running", "dead", "waited"} /\ ~fired[r]
  /\ fired' = [fired EXCEPT ![r] = TRUE]
  /\ UNCHANGED <<cmdVars, ctlVars, doneVars, proc, oom, err, wt, free, pc, slot, ranIn>>

\* Two bugs TLC must find: the command is built with the run's context instead of
\* the timeout context, or the timeout context is not derived from the run's.
MutKillOnCancelOnly(r) ==
  /\ pc[r] = "running" /\ ctxDone
  /\ proc' = [proc EXCEPT ![r] = "killed"]
  /\ pc' = [pc EXCEPT ![r] = "dead"]
  /\ UNCHANGED <<cmdVars, ctlVars, doneVars, fired, oom, err, wt, free, slot, ranIn>>

MutKillOnDeadlineOnly(r) ==
  /\ pc[r] = "running" /\ fired[r]
  /\ proc' = [proc EXCEPT ![r] = "killed"]
  /\ pc' = [pc EXCEPT ![r] = "dead"]
  /\ UNCHANGED <<cmdVars, ctlVars, doneVars, fired, oom, err, wt, free, slot, ranIn>>

\* cmd.Cancel: SIGKILL to the process group once a context is done.
ContextKills(r) ==
  /\ pc[r] = "running" /\ (ctxDone \/ fired[r])
  /\ proc' = [proc EXCEPT ![r] = "killed"]
  /\ \E t \in Littered(wt[slot[r]]) : wt' = [wt EXCEPT ![slot[r]] = t]
  /\ pc' = [pc EXCEPT ![r] = "dead"]
  /\ UNCHANGED <<cmdVars, ctlVars, doneVars, fired, oom, err, free, slot, ranIn>>

\* The monitor of runCapped samples a group above the limit: it sets the flag,
\* then kills. A process that ended in between keeps its own exit status.
MonitorFires(r) ==
  /\ HasMemLimit
  /\ pc[r] \in {"running", "dead"} /\ ~oom[r]
  /\ oom' = [oom EXCEPT ![r] = TRUE]
  /\ UNCHANGED <<cmdVars, ctlVars, doneVars, proc, fired, err, wt, free, pc, slot, ranIn>>

MonitorKills(r) ==
  /\ pc[r] = "running" /\ oom[r]
  /\ proc' = [proc EXCEPT ![r] = "killed"]
  /\ \E t \in Littered(wt[slot[r]]) : wt' = [wt EXCEPT ![slot[r]] = t]
  /\ pc' = [pc EXCEPT ![r] = "dead"]
  /\ UNCHANGED <<cmdVars, ctlVars, doneVars, fired, oom, err, free, slot, ranIn>>

\* cmd.Wait. After exit 0 it returns the context's error when the goroutine
\* that watches the context saw it done first (cmd.Cancel always returns nil),
\* or ErrWaitDelay when a child process keeps the output open.
WaitErrors(r) ==
  { e \in Errs : \/ proc[r] = "pass" /\ e \in {"nil", "other"}
                 \/ proc[r] = "pass" /\ e = "ctx" /\ (ctxDone \/ fired[r])
                 \/ proc[r] = "infra" /\ e = "shell"
                 \/ proc[r] \in {"fail", "killed"} /\ e = "ExitError" }

WaitReturns(r) ==
  /\ pc[r] = "dead"
  /\ \E e \in WaitErrors(r) : err' = [err EXCEPT ![r] = e]
  /\ pc' = [pc EXCEPT ![r] = "waited"]
  /\ UNCHANGED <<cmdVars, ctlVars, doneVars, proc, fired, oom, wt, free, slot, ranIn>>

Process(r) ==
  \/ ProcessEnds(r) \/ DeadlinePasses(r) \/ ContextKills(r)
  \/ MonitorFires(r) \/ MonitorKills(r) \/ WaitReturns(r)

-----------------------------------------------------------------------------
(* The sanity run and the validation of the patches, on workerPaths[0]     *)

StartBaseline ==
  /\ phase = "worktrees" /\ built = Jobs
  /\ phase' = "baseline"
  /\ slot' = [slot EXCEPT ![Baseline] = 0]
  /\ Launch(Baseline, 0)
  /\ UNCHANGED <<exit, built, ctlVars, doneVars, wt, free>>

EndBaseline ==
  /\ phase = "baseline" /\ pc[Baseline] = "waited"
  /\ pc' = [pc EXCEPT ![Baseline] = "done"]
  /\ IF oom[Baseline] \/ err[Baseline] # "nil"
       THEN Exit(2)
       ELSE phase' = "validate" /\ UNCHANGED exit
  /\ UNCHANGED <<built, ctlVars, runVars, doneVars, wt, free, slot, ranIn>>

\* git apply --check of every patch; debris of the sanity run can decide it.
ValidatePatches ==
  /\ phase = "validate"
  /\ "tracked" \in wt[0].debris \/ \A p \in Patches : wt[0].base \in AppliesAt[p]
  /\ phase' = "mutate"
  /\ free' = Slots
  /\ pc' = [r \in Runs |-> IF r \in Patches THEN "waiting" ELSE pc[r]]
  /\ UNCHANGED <<exit, built, ctlVars, runVars, doneVars, wt, slot, ranIn>>

\* A patch that does not apply, a patch file removed since it was listed, or a
\* git process that the terminal's SIGINT reached as well.
ValidationFails ==
  /\ phase = "validate"
  /\ Exit(2)
  /\ UNCHANGED <<built, ctlVars, runVars, doneVars, wt, free, pc, slot, ranIn>>

-----------------------------------------------------------------------------
(* The goroutine of a mutation                                             *)

\* select: <-ctx.Done() or <-sem, either when both are ready.
Acquire(p) ==
  /\ pc[p] = "waiting"
  /\ \E s \in free :
       /\ free' = free \ {s}
       /\ slot' = [slot EXCEPT ![p] = s]
  /\ pc' = [pc EXCEPT ![p] = "holding"]
  /\ UNCHANGED <<cmdVars, ctlVars, runVars, doneVars, wt, ranIn>>

\* A bug TLC must find: the deferred sem <- worker installed before the select,
\* where worker is still 0.
MutGiveUpSendsSlot(p) ==
  /\ pc[p] = "waiting" /\ ctxDone
  /\ pc' = [pc EXCEPT ![p] = "done"]
  /\ ended' = [ended EXCEPT ![p] = "gaveUp"]
  /\ free' = free \cup {0}
  /\ UNCHANGED <<cmdVars, ctlVars, runVars, result, wt, slot, ranIn>>

GiveUp(p) ==
  /\ pc[p] = "waiting" /\ ctxDone
  /\ pc' = [pc EXCEPT ![p] = "done"]
  /\ ended' = [ended EXCEPT ![p] = "gaveUp"]
  /\ UNCHANGED <<cmdVars, ctlVars, runVars, result, wt, free, slot, ranIn>>

\* return with a flag set in results[idx] (none for "zero")
Finish(p, flag, how) ==
  /\ result' = [result EXCEPT ![p] = flag]
  /\ ended' = [ended EXCEPT ![p] = how]
  /\ pc' = [pc EXCEPT ![p] = "returning"]

Reset(p) ==
  /\ pc[p] = "holding"
  /\ wt' = [wt EXCEPT ![slot[p]] = ResetTree(@)]
  /\ pc' = [pc EXCEPT ![p] = "clean"]
  /\ UNCHANGED <<cmdVars, ctlVars, runVars, doneVars, free, slot, ranIn>>

\* git checkout fails, or git clean after it.
ResetFails(p) ==
  /\ pc[p] = "holding"
  /\ wt' \in { wt, [wt EXCEPT ![slot[p]] = TreeOf(@.base, {}, @.debris)] }
  /\ Finish(p, "errored", "errored")
  /\ UNCHANGED <<cmdVars, ctlVars, runVars, free, slot, ranIn>>

Apply(p) ==
  /\ pc[p] = "clean"
  /\ wt[slot[p]].base \in AppliesAt[p]
  /\ wt' = [wt EXCEPT ![slot[p]] = TreeOf(@.base, @.applied \cup {p}, @.debris)]
  /\ pc' = [pc EXCEPT ![p] = "patched"]
  /\ UNCHANGED <<cmdVars, ctlVars, runVars, doneVars, free, slot, ranIn>>

\* A bug TLC must find: a patch that does not apply is tried again after a reset.
MutApplyFailsRetries(p) ==
  /\ pc[p] = "clean"
  /\ pc' = [pc EXCEPT ![p] = "holding"]
  /\ UNCHANGED <<cmdVars, ctlVars, runVars, doneVars, wt, free, slot, ranIn>>

ApplyFails(p) ==
  /\ pc[p] = "clean"
  /\ Finish(p, "errored", "errored")
  /\ UNCHANGED <<cmdVars, ctlVars, runVars, wt, free, slot, ranIn>>

StartTest(p) ==
  /\ pc[p] = "patched"
  /\ Launch(p, slot[p])
  /\ UNCHANGED <<cmdVars, ctlVars, doneVars, wt, free, slot>>

\* A bug TLC must find: exit statuses 126 and 127 taken for a failed test.
MutJudgeShellAsFail(p) ==
  /\ pc[p] = "waited"
  /\ IF err[p] = "nil"  THEN Finish(p, "survived", "survived")
     ELSE IF ctxDone    THEN Finish(p, "zero", "gaveUp")
     ELSE IF fired[p]   THEN Finish(p, "timedOut", "timedOut")
     ELSE IF oom[p]     THEN Finish(p, "oomKilled", "oomKilled")
     ELSE IF err[p] \in {"ExitError", "shell"} THEN Finish(p, "zero", "failed")
     ELSE Finish(p, "errored", "errored")
  /\ UNCHANGED <<cmdVars, ctlVars, runVars, wt, free, slot, ranIn>>

\* The chain of conditions after runCapped returned, in the order of the code.
\* A failed test sets no flag: the zero value of result is the KILLED verdict.
Judge(p) ==
  /\ pc[p] = "waited"
  /\ IF err[p] = "nil"            THEN Finish(p, "survived", "survived")
     ELSE IF ctxDone              THEN Finish(p, "zero", "gaveUp")
     ELSE IF fired[p]             THEN Finish(p, "timedOut", "timedOut")
     ELSE IF oom[p]               THEN Finish(p, "oomKilled", "oomKilled")
     ELSE IF err[p] = "ExitError" THEN Finish(p, "zero", "failed")
     ELSE Finish(p, "errored", "errored")
  /\ UNCHANGED <<cmdVars, ctlVars, runVars, wt, free, slot, ranIn>>

\* A bug TLC must find: the slot number cleared before it is sent back.
MutReturnCleared(p) ==
  /\ pc[p] = "returning"
  /\ free' = free \cup {NoSlot}
  /\ slot' = [slot EXCEPT ![p] = NoSlot]
  /\ pc' = [pc EXCEPT ![p] = "done"]
  /\ UNCHANGED <<cmdVars, ctlVars, runVars, doneVars, wt, ranIn>>

\* The deferred sem <- worker and wg.Done.
Return(p) ==
  /\ pc[p] = "returning"
  /\ free' = free \cup {slot[p]}
  /\ slot' = [slot EXCEPT ![p] = NoSlot]
  /\ pc' = [pc EXCEPT ![p] = "done"]
  /\ UNCHANGED <<cmdVars, ctlVars, runVars, doneVars, wt, ranIn>>

Goroutine(p) ==
  \/ Acquire(p) \/ GiveUp(p) \/ Reset(p) \/ ResetFails(p) \/ Apply(p) \/ ApplyFails(p)
  \/ StartTest(p) \/ Judge(p) \/ Return(p)

-----------------------------------------------------------------------------
(* Collection, summary, and the environment                                *)

\* wg.Wait returns; signal.Stop.
Collect ==
  /\ phase = "mutate"
  /\ \A p \in Patches : pc[p] = "done"
  /\ phase' = "collected"
  /\ UNCHANGED <<exit, built, ctlVars, runVars, doneVars, wt, free, pc, slot, ranIn>>

\* What the summary prints for a mutation: the switch over its flags.
Label(p) ==
  IF result[p] = "errored"        THEN "ERROR"
  ELSE IF result[p] = "survived"  THEN "SURVIVED"
  ELSE IF result[p] = "timedOut"  THEN "TIMEOUT"
  ELSE IF result[p] = "oomKilled" THEN "OOM"
  ELSE "KILLED"

\* Two bugs TLC must find: the summary printed after an interruption, and an exit
\* code that looks at the survivors only.
MutSummariseInterrupted ==
  /\ phase = "collected"
  /\ IF \E p \in Patches : Label(p) \in {"ERROR", "SURVIVED"} THEN Exit(1) ELSE Exit(0)
  /\ UNCHANGED <<built, ctlVars, runVars, doneVars, wt, free, pc, slot, ranIn>>

MutSummariseNoErrors ==
  /\ phase = "collected"
  /\ IF ctxDone THEN Exit(2)
     ELSE IF \E p \in Patches : Label(p) = "SURVIVED" THEN Exit(1)
     ELSE Exit(0)
  /\ UNCHANGED <<built, ctlVars, runVars, doneVars, wt, free, pc, slot, ranIn>>

\* The ctx.Err() check that suppresses a partial summary, and the summary.
Summarise ==
  /\ phase = "collected"
  /\ IF ctxDone THEN Exit(2)
     ELSE IF \E p \in Patches : Label(p) \in {"ERROR", "SURVIVED"} THEN Exit(1)
     ELSE Exit(0)
  /\ UNCHANGED <<built, ctlVars, runVars, doneVars, wt, free, pc, slot, ranIn>>

\* SIGINT or SIGTERM while signal.Notify is in force; a second one is dropped.
Interrupt ==
  /\ phase \notin {"collected", "exited"} /\ sig = "none"
  /\ sig' = "sent"
  /\ UNCHANGED <<cmdVars, ctxDone, head, timeout, runVars, doneVars, wt, free, pc, slot, ranIn>>

\* The goroutine that waits on sigCh calls cancel.
CancelContext ==
  /\ phase # "exited" /\ sig = "sent"
  /\ sig' = "taken"
  /\ ctxDone' = TRUE
  /\ UNCHANGED <<cmdVars, head, timeout, runVars, doneVars, wt, free, pc, slot, ranIn>>

\* The user commits in the repository while the worktrees are set up; HEAD is not
\* read after that.
Commit ==
  /\ phase = "worktrees" /\ head < MaxHead
  /\ head' = head + 1
  /\ UNCHANGED <<cmdVars, sig, ctxDone, timeout, runVars, doneVars, wt, free, pc, slot, ranIn>>

Terminated == phase = "exited" /\ UNCHANGED vars

Main ==
  \/ SetUpWorktree \/ SetUpFails \/ StartBaseline \/ EndBaseline
  \/ ValidatePatches \/ ValidationFails \/ Collect \/ Summarise

Next ==
  \/ Main \/ Interrupt \/ CancelContext \/ Commit \/ Terminated
  \/ \E r \in Runs : Process(r)
  \/ \E p \in Patches : Goroutine(p)

Spec == Init /\ [][Next]_vars

\* The Go scheduler runs every goroutine, git finishes, timers fire and SIGKILL
\* kills. Nothing makes a test command end by itself, or a signal or commit come.
Fairness ==
  /\ WF_vars(Main) /\ WF_vars(CancelContext)
  /\ \A p \in Patches : WF_vars(Goroutine(p))
  /\ \A r \in Runs : /\ WF_vars(DeadlinePasses(r)) /\ WF_vars(ContextKills(r))
                     /\ WF_vars(MonitorKills(r)) /\ WF_vars(WaitReturns(r))

FairSpec == Spec /\ Fairness

-----------------------------------------------------------------------------
(* Properties                                                              *)

Reported == exit \in {0, 1}

\* A worker slot is in the channel or in the hands of one goroutine, never both
\* and never lost: two mutations are never tested in one worktree at a time, and
\* the deferred sem <- worker (cmd_testing.go:263) never blocks.
SlotsExclusive ==
  /\ \A p, q \in Patches : slot[p] # NoSlot /\ slot[p] = slot[q] => p = q
  /\ phase \in {"mutate", "collected"} =>
       free = Slots \ { slot[p] : p \in Patches }

\* No slot is lost, whichever way a goroutine returns: one that is not in the
\* channel is in the hands of a goroutine that has still to return it. Whoever waits
\* for a slot (cmd_testing.go:258) waits for somebody who works.
SlotsComeBack ==
  phase \in {"mutate", "collected"} => \A s \in Slots :
    s \in free \/ \E p \in Patches : slot[p] = s /\ pc[p] \notin {"idle", "waiting", "done"}

\* The points of a goroutine and of the command in their order.
Point(where) ==
  CASE where = "idle"    -> 0 [] where = "waiting" -> 1 [] where = "holding"   -> 2
    [] where = "clean"   -> 3 [] where = "patched" -> 4 [] where = "running"   -> 5
    [] where = "dead"    -> 6 [] where = "waited"  -> 7 [] where = "returning" -> 8
    [] OTHER -> 9

Part(where) ==
  CASE where = "worktrees" -> 0 [] where = "baseline"  -> 1 [] where = "validate" -> 2
    [] where = "mutate"    -> 3 [] where = "collected" -> 4 [] OTHER -> 5

NothingBack ==
  /\ Part(phase) <= Part(phase') /\ built <= built' /\ head <= head'
  /\ sig # "none" => sig' # "none"
  /\ ctxDone => ctxDone'
  /\ \A r \in Runs :
       Point(pc[r]) <= Point(pc'[r]) /\ (fired[r] => fired'[r]) /\ (oom[r] => oom'[r])

SomethingFurther ==
  \/ phase' # phase \/ built' # built \/ head' # head \/ sig' # sig
  \/ \E r \in Runs : pc'[r] # pc[r] \/ fired'[r] # fired[r] \/ oom'[r] # oom[r]

\* Nothing is retried and nothing polls: every step of the command, its goroutines,
\* its processes and its timers takes something further and nothing back, so that
\* the command is over, or stuck, after a bounded number of steps. With SlotsComeBack
\* the only thing it can be stuck at is a test that hangs.
OnlyForward == [][NothingBack /\ SomethingFurther]_vars

\* What makes the command end, but for fairness (cmd_testing.go:366).
CommandGetsOn == [][SlotsComeBack' /\ NothingBack /\ SomethingFurther]_vars

\* From git apply until runCapped has returned, the worktree of a mutation holds
\* that mutation and no other, on the commit the command was started on, and the
\* command was started on a tree without the edits of an earlier test.
UnderTest == {"patched", "running", "dead", "waited"}

TestedAlone ==
  \A p \in Patches :
    /\ pc[p] \in UnderTest => wt[slot[p]].applied = {p}
    /\ pc[p] = "patched" => "tracked" \notin wt[slot[p]].debris
    /\ proc[p] # "none" =>
         /\ ranIn[p].applied = {p} /\ "tracked" \notin ranIn[p].debris
         /\ pc[p] \in UnderTest => ranIn[p].base = wt[slot[p]].base

\* KILLED is the zero value of result: it is printed only for a mutation whose
\* own test ran in a tree with that mutation and failed by itself, never for one
\* that was skipped, interrupted, or not judged (cmd_testing.go:371-401).
KilledIsEarned ==
  Reported => \A p \in Patches :
    Label(p) = "KILLED" => proc[p] = "fail" /\ ranIn[p].applied = {p}

\* Exit code 0 ("all killed") needs evidence for every mutation: its tests failed,
\* or its deadline or its memory limit was passed. A test command that cannot be
\* run (126, 127) or that passed in time is never counted as a kill.
ExitZeroIsEarned ==
  exit = 0 => \A p \in Patches : proc[p] = "fail" \/ fired[p] \/ oom[p]

\* The run implements the verdicts the help text promises: each mutation is
\* settled once, by its own goroutine, and the exit code is a function of all the
\* settled verdicts or reports that there are none.
Verdict(p) ==
  IF ended[p] = "survived"     THEN "survived"
  ELSE IF ended[p] = "errored" THEN "error"
  ELSE IF ended[p] \in {"timedOut", "oomKilled", "failed"} THEN "killed"
  ELSE "pending"

ReportOf(code) ==
  IF code = 0 THEN "allKilled" ELSE IF code = 1 THEN "someAlive"
  ELSE IF code = 2 THEN "aborted" ELSE "none"

Verdicts == INSTANCE MuzooVerdicts
              WITH verdict <- [p \in Patches |-> Verdict(p)], report <- ReportOf(exit)

ImplementsVerdicts == Verdicts!Spec

\* With -timeout, the command ends whatever the tests do: no goroutine is left
\* waiting for a slot, a process or a lock.
Terminates == timeout => <>(phase = "exited")

\* Ctrl-C ends the command even when a test hangs and no timeout is set: every
\* goroutine gives up, or its process is killed through the run's own context.
InterruptEnds == (sig = "sent") ~> (phase = "exited")

-----------------------------------------------------------------------------
(* What comments of the code say, and the code does not do: each of these  *)
(* is the one property of a run that TLC finds violated.                   *)

\* "If the tests are already broken, every mutation would appear killed"
\* (cmd_testing.go:116): a KILLED mutation was tested on the commit on which the
\* tests were seen to pass. HEAD is read once for every worktree.
KilledOnSanityBase ==
  Reported => \A p \in Patches :
    Label(p) = "KILLED" => ranIn[p].base = ranIn[Baseline].base

=============================================================================
