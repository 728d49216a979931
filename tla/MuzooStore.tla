----------------------------- MODULE MuzooStore -----------------------------
(***************************************************************************)
(* The mutations directory of muzoo and the git trees it is taken from:    *)
(* "muzoo capture", "muzoo rebase" and "muzoo rm" (src/muzoo/cmd_*.go) as  *)
(* processes that interleave with each other, with a user who edits, stages *)
(* and commits, and with crashes of the commands.                          *)
(*                                                                         *)
(* A tree is the set of edits it contains: HEAD, the index and the working *)
(* tree only grow, but for the restore of a capture. A patch is the set of *)
(* edits of its diff with the edits its context lines show. File contents, *)
(* descriptions and numbers above MaxNum are abstracted.                   *)
(***************************************************************************)

EXTENDS Integers, FiniteSets

CONSTANTS
  Edits,       \* the changes the user may make to tracked files
  Near,        \* for each edit, those its context lines overlap
  Commands,    \* the muzoo processes of a behaviour
  MaxNum,      \* bound: patch numbers are at most this
  Subcommands, \* which of "capture", "rebase" and "rm" are run
  HasClaude,   \* whether claude is in $PATH of the terminals: {TRUE}, {FALSE} or both
  Overlap,     \* commands run at once, in several terminals
  Behind,      \* the subcommands that are started while a capture waits for claude
  Busy,        \* where a command is when the user works in the repository meanwhile
  Crashes      \* commands may be killed

PCs == {"idle", "diffed", "numbered", "written", "edited", "restored", "describing",
        "listing", "checking", "merging", "merged", "done"}

ASSUME NumAssumption  == MaxNum \in Nat \ {0}
ASSUME NearAssumption == /\ Near \in [Edits -> SUBSET Edits]
                         /\ \A e, f \in Edits : f \in Near[e] <=> e \in Near[f]
ASSUME UseAssumption  == /\ Subcommands \subseteq {"capture", "rebase", "rm"}
                         /\ Behind \subseteq Subcommands
ASSUME FlagAssumption == /\ {Overlap, Crashes} \subseteq BOOLEAN /\ Busy \subseteq PCs
                         /\ HasClaude \subseteq BOOLEAN /\ HasClaude # {}

Nums    == 1..MaxNum
Patch   == [diff : SUBSET Edits, ctx : SUBSET Edits]
NoPatch == [diff |-> {}, ctx |-> Edits]    \* no file of that number
Torn    == [diff |-> {}, ctx |-> {}]       \* a file truncated by os.WriteFile
NoNum   == 0

VARIABLES
  head, index, work,  \* the trees: HEAD, the index, the working tree
  files,              \* the mutations directory
  worktrees,          \* the numbers NNNN for which a worktree rebase-NNNN exists
  pc,                 \* where each process is
  how,                \* how a capture gets its description
  loc,                \* the diff a process has read into memory
  num,                \* the patch number a process works on
  todo,               \* what is left of the listing a rebase works through
  failed,             \* anyFailed of a rebase
  exit,               \* exit codes, -1 before
  made,               \* history: the edits the user has made
  dropped,            \* history: edits of patches removed by "muzoo rm", or torn
  orphans             \* history: worktrees whose rebase was killed, or whose removal failed

trees == <<head, index, work, made>>
store == <<files, worktrees, dropped, orphans>>
locals == <<how, loc, num, todo, failed>>
vars == <<trees, store, locals, pc, exit>>

TypeOK ==
  /\ head \subseteq index /\ index \subseteq work /\ work \subseteq made
  /\ made \subseteq Edits /\ dropped \subseteq Edits
  /\ files \in [Nums -> Patch]
  /\ worktrees \subseteq Nums /\ orphans \subseteq worktrees
  /\ pc \in [Commands -> PCs]
  /\ how \in [Commands -> {"none", "message", "claude", "editor"}]
  /\ loc \in [Commands -> Patch]
  /\ num \in [Commands -> Nums \cup {NoNum}]
  /\ todo \in [Commands -> SUBSET Nums]
  /\ failed \in [Commands -> BOOLEAN]
  /\ exit \in [Commands -> -1..2]

Init ==
  /\ head = {} /\ index = {} /\ work = {} /\ made = {}
  /\ files = [n \in Nums |-> NoPatch]
  /\ worktrees = {} /\ dropped = {} /\ orphans = {}
  /\ pc = [c \in Commands |-> "idle"]
  /\ how = [c \in Commands |-> "none"]
  /\ loc = [c \in Commands |-> NoPatch]
  /\ num = [c \in Commands |-> NoNum]
  /\ todo = [c \in Commands |-> {}]
  /\ failed = [c \in Commands |-> FALSE]
  /\ exit = [c \in Commands |-> -1]

-----------------------------------------------------------------------------
(* git diff and git apply                                                  *)

Context(diff, tree) == { f \in tree \ diff : \E e \in diff : f \in Near[e] }

DiffOf(diff, tree) == [diff |-> diff, ctx |-> Context(diff, tree)]

\* git apply --check, and with --reverse: the context lines must match.
Applies(p, tree) ==
  p.diff # {} /\ p.diff \cap tree = {} /\ Context(p.diff, tree) = p.ctx

Reverses(p, tree) ==
  p.diff # {} /\ p.diff \subseteq tree /\ Context(p.diff, tree) = p.ctx

\* listPatches and nextPatchNumber
Listed == { n \in Nums : files[n] # NoPatch }

\* A bug TLC must find: the number of patches taken for the highest number.
MutNextNumberCount == Cardinality(Listed) + 1

NextNumber == IF Listed = {} THEN 1
              ELSE (CHOOSE n \in Listed : \A m \in Listed : m <= n) + 1

-----------------------------------------------------------------------------
(* The user                                                                *)

\* A process in front of which a user waits.
Foreground(c) == pc[c] \notin {"idle", "describing", "done"}
Quiet         == \A c \in Commands : ~Foreground(c)
UserWorks     == \A c \in Commands : Foreground(c) => pc[c] \in Busy

Edit ==
  /\ UserWorks
  /\ \E e \in Edits \ made : work' = work \cup {e} /\ made' = made \cup {e}
  /\ UNCHANGED <<head, index, store, locals, pc, exit>>

Stage ==
  /\ UserWorks
  /\ \E s \in SUBSET (work \ index) : s # {} /\ index' = index \cup s
  /\ UNCHANGED <<head, work, made, store, locals, pc, exit>>

Commit ==
  /\ UserWorks
  /\ head # index
  /\ head' = index
  /\ UNCHANGED <<index, work, made, store, locals, pc, exit>>

\* When the users of this instance start a command.
Described == \A c \in Commands : pc[c] # "describing"

MayStart(sub) ==
  /\ sub \in Subcommands
  /\ Overlap \/ (Quiet /\ (Described \/ sub \in Behind))

\* muzoo rm: one os.Remove.
Rm ==
  /\ MayStart("rm")
  /\ \E n \in Listed :
       /\ files' = [files EXCEPT ![n] = NoPatch]
       /\ dropped' = dropped \cup files[n].diff
  /\ UNCHANGED <<trees, worktrees, orphans, locals, pc, exit>>

Starts(c, sub) == pc[c] = "idle" /\ MayStart(sub)

\* os.WriteFile truncates the file and does not fill it.
TearsFile(c) ==
  /\ files' = [files EXCEPT ![num[c]] = Torn]
  /\ dropped' = dropped \cup files[num[c]].diff

Goto(c, l) == pc' = [pc EXCEPT ![c] = l]

\* The process is gone, and its memory with it.
Forget(c) ==
  /\ how' = [how EXCEPT ![c] = "none"]
  /\ loc' = [loc EXCEPT ![c] = NoPatch]
  /\ num' = [num EXCEPT ![c] = NoNum]
  /\ todo' = [todo EXCEPT ![c] = {}]
  /\ failed' = [failed EXCEPT ![c] = FALSE]

Exit(c, code) == Goto(c, "done") /\ exit' = [exit EXCEPT ![c] = code] /\ Forget(c)

-----------------------------------------------------------------------------
(* muzoo capture                                                           *)

\* git diff of the working tree against the index, read into memory.
CaptureDiff(c) ==
  /\ Starts(c, "capture")
  /\ \/ work = index /\ Exit(c, 2)
     \/ /\ work # index
        /\ loc' = [loc EXCEPT ![c] = DiffOf(work \ index, work)]
        /\ \E has \in HasClaude : \E h \in {"message", IF has THEN "claude" ELSE "editor"} :
             how' = [how EXCEPT ![c] = h]
        /\ Goto(c, "diffed")
        /\ UNCHANGED <<num, todo, failed, exit>>
  /\ UNCHANGED <<trees, store>>

CaptureNumber(c) ==
  /\ pc[c] = "diffed"
  /\ NextNumber <= MaxNum
  /\ num' = [num EXCEPT ![c] = NextNumber]
  /\ Goto(c, "numbered")
  /\ UNCHANGED <<trees, store, how, loc, todo, failed, exit>>

\* A bug TLC must find: with claude, the patch is written once it has a description.
MutCaptureWriteLate(c) ==
  /\ pc[c] = "numbered"
  /\ files' = IF how[c] = "claude" THEN files ELSE [files EXCEPT ![num[c]] = loc[c]]
  /\ Goto(c, IF how[c] = "editor" THEN "written" ELSE "edited")
  /\ UNCHANGED <<trees, worktrees, dropped, orphans, locals, exit>>

CaptureWrite(c) ==
  /\ pc[c] = "numbered"
  /\ files' = [files EXCEPT ![num[c]] = loc[c]]
  /\ Goto(c, IF how[c] = "editor" THEN "written" ELSE "edited")
  /\ UNCHANGED <<trees, worktrees, dropped, orphans, locals, exit>>

\* MkdirAll, ReadDir or WriteFile fails: nothing is restored.
CaptureFails(c) ==
  /\ pc[c] \in {"diffed", "numbered"}
  /\ Exit(c, 2)
  /\ \/ UNCHANGED <<files, dropped>>
     \/ pc[c] = "numbered" /\ TearsFile(c)
  /\ UNCHANGED <<trees, worktrees, orphans>>

\* $EDITOR closes with a description above the untouched diff, or fails.
EditorCloses(c) ==
  /\ pc[c] = "written"
  /\ files' = [files EXCEPT ![num[c]] = loc[c]]
  /\ Goto(c, "edited")
  /\ UNCHANGED <<trees, worktrees, dropped, orphans, locals, exit>>

EditorFails(c) ==
  /\ pc[c] = "written"
  /\ files' = [files EXCEPT ![num[c]] = NoPatch]
  /\ Exit(c, 2)
  /\ UNCHANGED <<trees, worktrees, dropped, orphans>>

\* A bug TLC must find: git restore --source=HEAD, which leaves the index.
MutRestoreFromHead(c) ==
  /\ pc[c] = "edited"
  /\ work' = head
  /\ Goto(c, IF how[c] = "claude" THEN "describing" ELSE "restored")
  /\ UNCHANGED <<head, index, made, store, locals, exit>>

\* git restore: whatever differs from the index now.
Restore(c) ==
  /\ pc[c] = "edited"
  /\ work' = index
  /\ Goto(c, IF how[c] = "claude" THEN "describing" ELSE "restored")
  /\ UNCHANGED <<head, index, made, store, locals, exit>>

RestoreFails(c) ==
  /\ pc[c] = "edited"
  /\ Exit(c, 2)
  /\ UNCHANGED <<trees, store>>

\* The patch is read back for the confirmation.
ReadBack(c) ==
  /\ pc[c] = "restored"
  /\ Exit(c, IF num[c] \in Listed THEN 0 ELSE 2)
  /\ UNCHANGED <<trees, store>>

\* claude answers: the patch is written again, from memory; or it fails or is empty.
Describe(c) ==
  /\ pc[c] = "describing"
  /\ files' \in { files, [files EXCEPT ![num[c]] = loc[c]] }
  /\ Exit(c, 0)
  /\ UNCHANGED <<trees, worktrees, dropped, orphans>>

DescribeFails(c) ==
  /\ pc[c] = "describing"
  /\ TearsFile(c)
  /\ Exit(c, 2)
  /\ UNCHANGED <<trees, worktrees, orphans>>

Capture(c) ==
  \/ CaptureDiff(c) \/ CaptureNumber(c) \/ CaptureWrite(c) \/ CaptureFails(c)
  \/ EditorCloses(c) \/ EditorFails(c) \/ Restore(c) \/ RestoreFails(c)
  \/ ReadBack(c) \/ Describe(c) \/ DescribeFails(c)

-----------------------------------------------------------------------------
(* muzoo rebase                                                            *)

RebaseList(c) ==
  /\ Starts(c, "rebase")
  /\ \/ Listed = {} /\ Exit(c, 0)
     \/ /\ Listed # {}
        /\ todo' = [todo EXCEPT ![c] = Listed]
        /\ Goto(c, "listing")
        /\ UNCHANGED <<how, loc, num, failed, exit>>
  /\ UNCHANGED <<trees, store>>

\* The next patch in the order of the numbers is read; it may be gone.
RebaseRead(c) ==
  /\ pc[c] = "listing" /\ todo[c] # {}
  /\ LET n == CHOOSE m \in todo[c] : \A k \in todo[c] : m <= k
     IN \/ n \notin Listed /\ Exit(c, 2)
        \/ /\ n \in Listed
           /\ loc' = [loc EXCEPT ![c] = files[n]]
           /\ num' = [num EXCEPT ![c] = n]
           /\ todo' = [todo EXCEPT ![c] = @ \ {n}]
           /\ Goto(c, "checking")
           /\ UNCHANGED <<how, failed, exit>>
  /\ UNCHANGED <<trees, store>>

\* OK or APPLIED: it is checked against the working tree of the user.
RebaseSkips(c) ==
  /\ pc[c] = "checking"
  /\ \/ Applies(loc[c], work) /\ UNCHANGED failed
     \/ Reverses(loc[c], work) /\ failed' = [failed EXCEPT ![c] = TRUE]
  /\ Goto(c, "listing")
  /\ UNCHANGED <<trees, store, how, loc, num, todo, exit>>

\* A bug TLC must find: the merge runs in the user's working tree.
MutRebaseInPlace(c) ==
  /\ pc[c] = "checking"
  /\ ~Applies(loc[c], work) /\ ~Reverses(loc[c], work)
  /\ worktrees' = worktrees \cup {num[c]}
  /\ loc' = [loc EXCEPT ![c] = DiffOf(@.diff \ work, work)]
  /\ Goto(c, "merging")
  /\ UNCHANGED <<trees, files, dropped, orphans, how, num, todo, failed, exit>>

\* createWorktree: fails when a rebase-NNNN is there already.
RebaseWorktree(c) ==
  /\ pc[c] = "checking"
  /\ ~Applies(loc[c], work) /\ ~Reverses(loc[c], work)
  /\ IF num[c] \in worktrees
       THEN failed' = [failed EXCEPT ![c] = TRUE] /\ Goto(c, "listing") /\ UNCHANGED <<worktrees, loc>>
       ELSE /\ worktrees' = worktrees \cup {num[c]}
            /\ loc' = [loc EXCEPT ![c] = DiffOf(@.diff \ head, head)]
            /\ Goto(c, "merging") /\ UNCHANGED failed
  /\ UNCHANGED <<trees, files, dropped, orphans, how, num, todo, exit>>

\* git worktree remove, whose error is discarded.
RemoveWorktree(n) ==
  \/ worktrees' = worktrees \ {n} /\ UNCHANGED orphans
  \/ UNCHANGED worktrees /\ orphans' = orphans \cup {n}

\* A bug TLC must find: the worktree is removed on success only.
MutRebaseMergeKeeps(c) ==
  /\ pc[c] = "merging"
  /\ \/ /\ loc[c].diff # {} /\ Goto(c, "merged") /\ UNCHANGED failed
        /\ RemoveWorktree(num[c])
     \/ /\ failed' = [failed EXCEPT ![c] = TRUE] /\ Goto(c, "listing")
        /\ UNCHANGED <<worktrees, orphans>>
  /\ UNCHANGED <<trees, files, dropped, how, loc, num, todo, exit>>

\* Three-way merge, mergiraf and claude; the deferred removal of the worktree.
\* CONFLICT and LOST leave the patch as it is.
RebaseMerge(c) ==
  /\ pc[c] = "merging"
  /\ RemoveWorktree(num[c])
  /\ \/ loc[c].diff # {} /\ Goto(c, "merged") /\ UNCHANGED failed
     \/ failed' = [failed EXCEPT ![c] = TRUE] /\ Goto(c, "listing")
  /\ UNCHANGED <<trees, files, dropped, how, loc, num, todo, exit>>

RebaseWrite(c) ==
  /\ pc[c] = "merged"
  /\ files' = [files EXCEPT ![num[c]] = loc[c]]
  /\ Goto(c, "listing")
  /\ UNCHANGED <<trees, worktrees, dropped, orphans, locals, exit>>

RebaseWriteFails(c) ==
  /\ pc[c] = "merged"
  /\ TearsFile(c)
  /\ Exit(c, 2)
  /\ UNCHANGED <<trees, worktrees, orphans>>

\* A bug TLC must find: the exit code does not look at anyFailed.
MutRebaseEndsZero(c) ==
  /\ pc[c] = "listing" /\ todo[c] = {}
  /\ Exit(c, 0)
  /\ UNCHANGED <<trees, store>>

RebaseEnds(c) ==
  /\ pc[c] = "listing" /\ todo[c] = {}
  /\ Exit(c, IF failed[c] THEN 1 ELSE 0)
  /\ UNCHANGED <<trees, store>>

Rebase(c) ==
  \/ RebaseList(c) \/ RebaseRead(c) \/ RebaseSkips(c) \/ RebaseWorktree(c)
  \/ RebaseMerge(c) \/ RebaseWrite(c) \/ RebaseWriteFails(c) \/ RebaseEnds(c)

-----------------------------------------------------------------------------
\* The process is killed, or interrupted: no command handles SIGINT here and no
\* deferred call runs. In the middle of os.WriteFile the file stays truncated.
Crash(c) ==
  /\ Crashes /\ pc[c] \notin {"idle", "done"}
  /\ Goto(c, "done") /\ Forget(c)
  /\ \/ UNCHANGED <<files, dropped>>
     \/ /\ pc[c] \in {"numbered", "written", "merged", "describing"}
        /\ TearsFile(c)
  /\ orphans' = IF pc[c] = "merging" THEN orphans \cup {num[c]} ELSE orphans
  /\ UNCHANGED <<trees, worktrees, exit>>

\* Every command of the behaviour has ended.
AllDone == (\A c \in Commands : pc[c] = "done") /\ UNCHANGED vars

Next ==
  \/ Edit \/ Stage \/ Commit \/ Rm \/ AllDone
  \/ \E c \in Commands : Capture(c) \/ Rebase(c) \/ Crash(c)

Spec == Init /\ [][Next]_vars

-----------------------------------------------------------------------------
(* Properties                                                              *)

\* What the user wrote is in the working tree or in a patch, unless "muzoo rm" or a
\* crash inside os.WriteFile dropped its patch: git restore (cmd_capture.go:87)
\* discards nothing that was not saved, and a new patch overwrites none.
NothingLost ==
  made \subseteq work \cup dropped \cup UNION { files[n].diff : n \in Nums }

\* Exit code 0 of a capture ("capture: 0 = saved") means that its patch is there and
\* holds the diff that was taken (cmd_capture.go:35-64).
CapturesSaved ==
  [][\A c \in Commands : exit[c] = -1 /\ exit'[c] = 0 /\ how[c] # "none"
       => files'[num[c]] = loc[c]]_vars

\* A write over a patch file that is there keeps its mutation: it is the same patch
\* again, or a rebase took out what HEAD contains by then (cmd_rebase.go:90-94,
\* cmd_capture.go:98). The number of a removed patch may be given to another one.
RewritesKeepMutations ==
  [][\A n \in Nums :
       LET old == files[n].diff  new == files'[n].diff
       IN old # {} /\ files'[n] \notin {NoPatch, Torn} => new \subseteq old /\ old \subseteq new \cup head]_vars

\* In a clean working tree, exit code 0 of a rebase ("rebase: 0 = all rebased") means
\* that every patch applies to HEAD, as "muzoo test" needs (cmd_rebase.go:66-94).
RebasedApplies ==
  [][\A c \in Commands :
       pc[c] = "listing" /\ exit'[c] = 0 /\ work = head
         => \A n \in Listed : Applies(files[n], head)]_vars

\* A worktree rebase-NNNN exists only while a rebase works in it, or because its
\* rebase was killed or git did not remove it: a merge that fails, is lost or succeeds
\* (cmd_rebase.go:107-194) leaves none that makes the next one of its patch a CONFLICT.
NoLeftover ==
  \A n \in worktrees \ orphans : \E c \in Commands : pc[c] = "merging" /\ num[c] = n

\* "This matches what git restore . will undo" (cmd_capture.go:35): no other edit is
\* discarded than the captured ones, whatever the user does while $EDITOR is open.
RestoreUndoesDiff == [][\A c \in Commands : Restore(c) => work \ work' \subseteq loc[c].diff]_vars

=============================================================================
