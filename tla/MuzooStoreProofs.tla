-------------------------- MODULE MuzooStoreProofs --------------------------
(***************************************************************************)
(* Proofs about MuzooStore, for any edits, commands and numbers: types and *)
(* worktrees whatever runs at once, and that no edit is lost when commands *)
(* run one at a time, but for captures behind a capture that waits.        *)
(***************************************************************************)

EXTENDS MuzooStore, FiniteSetTheorems, WellFoundedInduction, TLAPS

Numbered == {"numbered", "written", "edited", "restored", "describing", "checking",
             "merging", "merged"}

\* A process that works on a patch has its number.
NumInv == \A c \in Commands : pc[c] \in Numbered => num[c] \in Nums

\* The worktree of a merge is its own.
LeftInv ==
  \A c \in Commands :
    pc[c] = "merging" =>
      /\ num[c] \in worktrees \ orphans
      /\ \A d \in Commands : d # c /\ pc[d] = "merging" => num[d] # num[c]

GInv == TypeOK /\ NumInv /\ LeftInv /\ NoLeftover

-----------------------------------------------------------------------------
(* The next number                                                         *)

\* A set of numbers that is not empty has a highest one.
LEMMA Highest ==
  ASSUME NEW S \in SUBSET Nums, S # {}
  PROVE  \E n \in S : \A m \in S : m <= n
<1> DEFINE below(n) == {m \in Nums : n < m}
           all == {below(n) : n \in S}
<1>1. IsFiniteSet(Nums)
  BY FS_Interval, NumAssumption DEF Nums, NumAssumption
<1>2. all \subseteq FiniteSubsetsOf(Nums)
  BY <1>1, FS_Subset DEF FiniteSubsetsOf
<1>3. PICK k : k \in S
  OBVIOUS
<1>4. PICK least \in all : \A other \in all : <<other, least>> \notin StrictSubsetOrdering(Nums)
  <2>1. below(k) \in all
    BY <1>3
  <2> QED BY <2>1, <1>2, FS_StrictSubsetOrderingWellFounded, WFMin
<1>5. PICK n \in S : least = below(n)
  OBVIOUS
<1>6. ASSUME NEW m \in S, n < m PROVE FALSE
  <2>1. below(m) \in all
    OBVIOUS
  <2>2. below(m) \subseteq below(n) /\ m \in below(n) /\ m \notin below(m)
    BY <1>6 DEF Nums
  <2>3. below(m) \in SUBSET Nums /\ below(n) \in SUBSET Nums
    OBVIOUS
  <2> QED BY <2>1, <2>2, <2>3, <1>4, <1>5, <1>2 DEF StrictSubsetOrdering
<1> QED BY <1>5, <1>6 DEF Nums

\* The next number is above all others.
LEMMA NextIsFree ==
  ASSUME NextNumber <= MaxNum
  PROVE  NextNumber \in Nums /\ NextNumber \notin Listed
<1>0. Listed \in SUBSET Nums
  BY DEF Listed
<1>1. CASE Listed = {}
  BY <1>1, NumAssumption DEF NextNumber, Nums, NumAssumption
<1>2. CASE Listed # {}
  <2> DEFINE top == CHOOSE n \in Listed : \A m \in Listed : m <= n
  <2>1. top \in Listed /\ \A m \in Listed : m <= top
    BY <1>0, <1>2, Highest
  <2>2. NextNumber = top + 1
    BY <1>2 DEF NextNumber
  <2> HIDE DEF top
  <2>3. top \in Nat /\ top >= 1
    BY <1>0, <2>1 DEF Nums
  <2>4. top + 1 \notin Listed
    BY <2>1, <2>3
  <2> QED BY <2>2, <2>3, <2>4, NumAssumption DEF Nums, NumAssumption
<1> QED BY <1>1, <1>2

-----------------------------------------------------------------------------
(* Types and worktrees                                                     *)

LEMMA PatchTypes ==
  /\ NoPatch \in Patch /\ Torn \in Patch
  /\ \A s, t \in SUBSET Edits : DiffOf(s, t) \in Patch /\ DiffOf(s, t).diff = s
BY DEF NoPatch, Torn, Patch, DiffOf, Context

LEMMA InitGInv == Init => GInv
<1> SUFFICES ASSUME Init PROVE GInv
  OBVIOUS
<1>1. head \subseteq index /\ index \subseteq work /\ work \subseteq made /\ made \subseteq Edits
  BY DEF Init
<1>2. worktrees \subseteq Nums /\ orphans \subseteq worktrees /\ dropped \subseteq Edits
  BY DEF Init
<1>3. files \in [Nums -> Patch] /\ loc \in [Commands -> Patch]
  BY PatchTypes DEF Init
<1>4. pc \in [Commands -> PCs] /\ how \in [Commands -> {"none", "message", "claude", "editor"}]
  BY DEF Init, PCs
<1>5. num \in [Commands -> Nums \cup {NoNum}] /\ todo \in [Commands -> SUBSET Nums]
  BY DEF Init
<1>6. failed \in [Commands -> BOOLEAN] /\ exit \in [Commands -> -1 .. 2]
  BY DEF Init
<1>7. TypeOK
  BY <1>1, <1>2, <1>3, <1>4, <1>5, <1>6 DEF TypeOK
<1>8. NumInv /\ LeftInv /\ NoLeftover
  BY DEF Init, NumInv, LeftInv, NoLeftover, Numbered
<1> QED BY <1>7, <1>8 DEF GInv

\* A process that ends leaves the types as they are.
LEMMA ExitTypes ==
  ASSUME TypeOK, NEW c \in Commands, NEW code \in 0 .. 2, Exit(c, code)
  PROVE  /\ pc' \in [Commands -> PCs] /\ exit' \in [Commands -> -1 .. 2]
         /\ how' \in [Commands -> {"none", "message", "claude", "editor"}]
         /\ loc' \in [Commands -> Patch] /\ num' \in [Commands -> Nums \cup {NoNum}]
         /\ todo' \in [Commands -> SUBSET Nums] /\ failed' \in [Commands -> BOOLEAN]
<1>1. exit' \in [Commands -> -1 .. 2]
  BY DEF TypeOK, Exit
<1>2. pc' \in [Commands -> PCs]
  BY DEF TypeOK, Exit, Goto, PCs
<1> QED BY <1>1, <1>2, PatchTypes DEF TypeOK, Exit, Forget

\* A torn file is a patch, and what it held is recorded as dropped.
LEMMA TearTypes ==
  ASSUME TypeOK, NEW c \in Commands, num[c] \in Nums, TearsFile(c)
  PROVE  files' \in [Nums -> Patch] /\ dropped' \subseteq Edits
<1>1. files[num[c]] \in Patch
  BY DEF TypeOK
<1>2. files[num[c]].diff \subseteq Edits
  BY <1>1 DEF Patch
<1> QED BY <1>2, PatchTypes DEF TypeOK, TearsFile

LEMMA TreeTypeStep ==
  ASSUME TypeOK, Edit \/ Stage \/ Commit \/ Rm
  PROVE  TypeOK'
<1>1. CASE Edit
  BY <1>1 DEF TypeOK, Edit, store, locals
<1>2. CASE Stage
  BY <1>2 DEF TypeOK, Stage, store, locals
<1>3. CASE Commit
  BY <1>3 DEF TypeOK, Commit, store, locals
<1>4. CASE Rm
  <2>1. PICK n \in Listed : /\ files' = [files EXCEPT ![n] = NoPatch]
                            /\ dropped' = dropped \cup files[n].diff
    BY <1>4 DEF Rm
  <2>2. n \in Nums
    BY DEF Listed
  <2>3. files[n].diff \subseteq Edits
    BY <2>2 DEF TypeOK, Patch
  <2>4. files' \in [Nums -> Patch] /\ dropped' \subseteq Edits
    BY <2>1, <2>2, <2>3, PatchTypes DEF TypeOK
  <2> QED BY <1>4, <2>4 DEF Rm, TypeOK, trees, locals
<1> QED BY <1>1, <1>2, <1>3, <1>4

LEMMA CaptureTypeStep ==
  ASSUME TypeOK, NumInv, NEW c \in Commands, Capture(c)
  PROVE  TypeOK'
<1>1. CASE CaptureDiff(c)
  <2>1. CASE work = index /\ Exit(c, 2)
    BY <1>1, <2>1, ExitTypes DEF CaptureDiff, TypeOK, trees, store
  <2>2. CASE ~(work = index /\ Exit(c, 2))
    <3>1. DiffOf(work \ index, work) \in Patch
      BY PatchTypes DEF TypeOK
    <3>2. loc' \in [Commands -> Patch] /\ pc' \in [Commands -> PCs]
      BY <1>1, <2>2, <3>1 DEF CaptureDiff, TypeOK, Goto, PCs
    <3>3. how' \in [Commands -> {"none", "message", "claude", "editor"}]
      BY <1>1, <2>2 DEF CaptureDiff, TypeOK
    <3> QED BY <1>1, <2>2, <3>2, <3>3 DEF CaptureDiff, TypeOK, trees, store
  <2> QED BY <2>1, <2>2
<1>2. CASE CaptureNumber(c)
  BY <1>2, NextIsFree DEF CaptureNumber, TypeOK, trees, store, Goto, PCs
<1>3. CASE CaptureWrite(c)
  <2>1. files' \in [Nums -> Patch] /\ pc' \in [Commands -> PCs]
    BY <1>3 DEF CaptureWrite, TypeOK, Goto, PCs
  <2> QED BY <1>3, <2>1 DEF CaptureWrite, TypeOK, trees, locals
<1>4. CASE CaptureFails(c)
  <2>1. files' \in [Nums -> Patch] /\ dropped' \subseteq Edits
    BY <1>4, TearTypes DEF CaptureFails, TypeOK, NumInv, Numbered
  <2> QED BY <1>4, <2>1, ExitTypes DEF CaptureFails, TypeOK, trees
<1>5. CASE EditorCloses(c)
  <2>1. files' \in [Nums -> Patch] /\ pc' \in [Commands -> PCs]
    BY <1>5 DEF EditorCloses, TypeOK, Goto, PCs
  <2> QED BY <1>5, <2>1 DEF EditorCloses, TypeOK, trees, locals
<1>6. CASE EditorFails(c)
  <2>1. files' \in [Nums -> Patch]
    BY <1>6, PatchTypes DEF EditorFails, TypeOK
  <2> QED BY <1>6, <2>1, ExitTypes DEF EditorFails, TypeOK, trees
<1>7. CASE Restore(c)
  BY <1>7 DEF Restore, TypeOK, Goto, PCs, store, locals
<1>8. CASE RestoreFails(c)
  BY <1>8, ExitTypes DEF RestoreFails, TypeOK, trees, store
<1>9. CASE ReadBack(c)
  BY <1>9, ExitTypes DEF ReadBack, TypeOK, trees, store
<1>10. CASE Describe(c)
  <2>1. files' \in [Nums -> Patch]
    BY <1>10 DEF Describe, TypeOK
  <2> QED BY <1>10, <2>1, ExitTypes DEF Describe, TypeOK, trees
<1>11. CASE DescribeFails(c)
  <2>1. files' \in [Nums -> Patch] /\ dropped' \subseteq Edits
    BY <1>11, TearTypes DEF DescribeFails, NumInv, Numbered
  <2> QED BY <1>11, <2>1, ExitTypes DEF DescribeFails, TypeOK, trees
<1> QED BY <1>1, <1>2, <1>3, <1>4, <1>5, <1>6, <1>7, <1>8, <1>9, <1>10, <1>11 DEF Capture

LEMMA RebaseTypeStep ==
  ASSUME TypeOK, NumInv, LeftInv, NEW c \in Commands, Rebase(c)
  PROVE  TypeOK'
<1>1. CASE RebaseList(c)
  <2>1. CASE Exit(c, 0)
    BY <1>1, <2>1, ExitTypes DEF RebaseList, TypeOK, trees, store
  <2>2. CASE ~Exit(c, 0)
    <3>1. Listed \subseteq Nums
      BY DEF Listed
    <3>2. todo' \in [Commands -> SUBSET Nums] /\ pc' \in [Commands -> PCs]
      BY <1>1, <2>2, <3>1 DEF RebaseList, TypeOK, Goto, PCs
    <3> QED BY <1>1, <2>2, <3>2 DEF RebaseList, TypeOK, trees, store
  <2> QED BY <2>1, <2>2
<1>2. CASE RebaseRead(c)
  <2>1. CASE Exit(c, 2)
    BY <1>2, <2>1, ExitTypes DEF RebaseRead, TypeOK, trees, store
  <2>2. CASE ~Exit(c, 2)
    <3>1. PICK n : /\ n \in Listed /\ loc' = [loc EXCEPT ![c] = files[n]]
                   /\ num' = [num EXCEPT ![c] = n]
                   /\ todo' = [todo EXCEPT ![c] = todo[c] \ {n}]
                   /\ Goto(c, "checking") /\ UNCHANGED <<how, failed, exit>>
      BY <1>2, <2>2 DEF RebaseRead
    <3>2. n \in Nums
      BY <3>1 DEF Listed
    <3>3. loc' \in [Commands -> Patch] /\ num' \in [Commands -> Nums \cup {NoNum}]
      BY <3>1, <3>2 DEF TypeOK
    <3>4. todo' \in [Commands -> SUBSET Nums] /\ pc' \in [Commands -> PCs]
      BY <3>1, <3>2 DEF TypeOK, Goto, PCs
    <3> QED BY <1>2, <3>1, <3>3, <3>4 DEF RebaseRead, TypeOK, trees, store
  <2> QED BY <2>1, <2>2
<1>3. CASE RebaseSkips(c)
  <2>1. failed' \in [Commands -> BOOLEAN] /\ pc' \in [Commands -> PCs]
    BY <1>3 DEF RebaseSkips, TypeOK, Goto, PCs
  <2> QED BY <1>3, <2>1 DEF RebaseSkips, TypeOK, trees, store
<1>4. CASE RebaseWorktree(c)
  <2>1. num[c] \in Nums
    BY <1>4 DEF RebaseWorktree, NumInv, Numbered
  <2>2. loc[c].diff \ head \in SUBSET Edits
    BY DEF TypeOK, Patch
  <2>3. DiffOf(loc[c].diff \ head, head) \in Patch
    BY <2>2, PatchTypes DEF TypeOK
  <2>4. loc' \in [Commands -> Patch]
    BY <1>4, <2>3 DEF RebaseWorktree, TypeOK
  <2>5. worktrees' \subseteq Nums /\ orphans \subseteq worktrees'
    BY <1>4, <2>1 DEF RebaseWorktree, TypeOK
  <2>6. failed' \in [Commands -> BOOLEAN] /\ pc' \in [Commands -> PCs]
    BY <1>4 DEF RebaseWorktree, TypeOK, Goto, PCs
  <2> QED BY <1>4, <2>4, <2>5, <2>6 DEF RebaseWorktree, TypeOK, trees
<1>5. CASE RebaseMerge(c)
  <2>1. orphans' \subseteq worktrees' /\ worktrees' \subseteq Nums
    BY <1>5 DEF RebaseMerge, RemoveWorktree, TypeOK, LeftInv
  <2>2. failed' \in [Commands -> BOOLEAN] /\ pc' \in [Commands -> PCs]
    BY <1>5 DEF RebaseMerge, TypeOK, Goto, PCs
  <2> QED BY <1>5, <2>1, <2>2 DEF RebaseMerge, TypeOK, trees
<1>6. CASE RebaseWrite(c)
  <2>1. files' \in [Nums -> Patch] /\ pc' \in [Commands -> PCs]
    BY <1>6 DEF RebaseWrite, TypeOK, Goto, PCs
  <2> QED BY <1>6, <2>1 DEF RebaseWrite, TypeOK, trees, locals
<1>7. CASE RebaseWriteFails(c)
  <2>1. files' \in [Nums -> Patch] /\ dropped' \subseteq Edits
    BY <1>7, TearTypes DEF RebaseWriteFails, NumInv, Numbered
  <2> QED BY <1>7, <2>1, ExitTypes DEF RebaseWriteFails, TypeOK, trees
<1>8. CASE RebaseEnds(c)
  BY <1>8, ExitTypes DEF RebaseEnds, TypeOK, trees, store
<1> QED BY <1>1, <1>2, <1>3, <1>4, <1>5, <1>6, <1>7, <1>8 DEF Rebase

LEMMA CrashTypeStep ==
  ASSUME TypeOK, NumInv, LeftInv, NEW c \in Commands, Crash(c)
  PROVE  TypeOK'
<1>1. pc' \in [Commands -> PCs]
  BY DEF Crash, Goto, TypeOK, PCs
<1>2. files' \in [Nums -> Patch] /\ dropped' \subseteq Edits
  BY TearTypes DEF Crash, TypeOK, NumInv, Numbered
<1>3. orphans' \subseteq worktrees
  BY DEF Crash, TypeOK, LeftInv
<1>4. /\ how' \in [Commands -> {"none", "message", "claude", "editor"}]
      /\ loc' \in [Commands -> Patch] /\ num' \in [Commands -> Nums \cup {NoNum}]
      /\ todo' \in [Commands -> SUBSET Nums] /\ failed' \in [Commands -> BOOLEAN]
  BY PatchTypes DEF Crash, Forget, TypeOK
<1> QED BY <1>1, <1>2, <1>3, <1>4 DEF Crash, TypeOK, trees

\* What a process does leaves the other processes alone.
LEMMA OthersStay ==
  ASSUME TypeOK, NEW c \in Commands, Capture(c) \/ Rebase(c) \/ Crash(c),
         NEW d \in Commands, d # c
  PROVE  /\ pc'[d] = pc[d] /\ num'[d] = num[d] /\ loc'[d] = loc[d]
         /\ how'[d] = how[d] /\ exit'[d] = exit[d]
<1>1. CASE Capture(c)
  <2> USE DEF TypeOK, Goto, Exit, Forget, locals
  <2>1. CASE CaptureDiff(c)
    BY <2>1 DEF CaptureDiff
  <2>2. CASE CaptureNumber(c) \/ CaptureWrite(c) \/ CaptureFails(c)
    BY <2>2 DEF CaptureNumber, CaptureWrite, CaptureFails
  <2>3. CASE EditorCloses(c) \/ EditorFails(c)
    BY <2>3 DEF EditorCloses, EditorFails
  <2>4. CASE Restore(c) \/ RestoreFails(c) \/ ReadBack(c)
    BY <2>4 DEF Restore, RestoreFails, ReadBack
  <2>5. CASE Describe(c) \/ DescribeFails(c)
    BY <2>5 DEF Describe, DescribeFails
  <2> QED BY <1>1, <2>1, <2>2, <2>3, <2>4, <2>5 DEF Capture
<1>2. CASE Rebase(c)
  <2> USE DEF TypeOK, Goto, Exit, Forget, locals
  <2>1. CASE RebaseList(c) \/ RebaseSkips(c)
    BY <2>1 DEF RebaseList, RebaseSkips
  <2>2. CASE RebaseRead(c)
    BY <2>2 DEF RebaseRead
  <2>3. CASE RebaseWorktree(c)
    BY <2>3 DEF RebaseWorktree
  <2>4. CASE RebaseMerge(c)
    BY <2>4 DEF RebaseMerge
  <2>5. CASE RebaseWrite(c) \/ RebaseWriteFails(c) \/ RebaseEnds(c)
    BY <2>5 DEF RebaseWrite, RebaseWriteFails, RebaseEnds
  <2> QED BY <1>2, <2>1, <2>2, <2>3, <2>4, <2>5 DEF Rebase
<1>3. CASE Crash(c)
  BY <1>3 DEF TypeOK, Crash, Goto, Forget
<1> QED BY <1>1, <1>2, <1>3

\* Steps that have nothing to do with worktrees.
LEMMA NoMerge ==
  ASSUME TypeOK, NumInv, NEW c \in Commands,
         \/ Capture(c) \/ RebaseList(c) \/ RebaseRead(c) \/ RebaseSkips(c)
         \/ RebaseWrite(c) \/ RebaseWriteFails(c) \/ RebaseEnds(c)
  PROVE  /\ worktrees' = worktrees /\ orphans' = orphans
         /\ pc[c] # "merging" /\ pc'[c] # "merging"
         /\ pc'[c] \in Numbered => num'[c] \in Nums
<1> USE DEF TypeOK, Goto, Exit, store, Starts, Numbered
<1>1. CASE Capture(c)
  <2>1. CASE CaptureDiff(c) \/ CaptureFails(c)
    BY <2>1 DEF CaptureDiff, CaptureFails
  <2>2. CASE CaptureNumber(c)
    BY <2>2, NextIsFree DEF CaptureNumber
  <2>3. CASE CaptureWrite(c) \/ EditorCloses(c) \/ EditorFails(c)
    BY <2>3 DEF CaptureWrite, EditorCloses, EditorFails, locals, NumInv
  <2>4. CASE Restore(c) \/ RestoreFails(c) \/ ReadBack(c)
    BY <2>4 DEF Restore, RestoreFails, ReadBack, locals, NumInv
  <2>5. CASE Describe(c) \/ DescribeFails(c)
    BY <2>5 DEF Describe, DescribeFails
  <2> QED BY <1>1, <2>1, <2>2, <2>3, <2>4, <2>5 DEF Capture
<1>2. CASE RebaseList(c) \/ RebaseSkips(c) \/ RebaseEnds(c)
  BY <1>2 DEF RebaseList, RebaseSkips, RebaseEnds
<1>3. CASE RebaseRead(c)
  BY <1>3 DEF RebaseRead, Listed
<1>4. CASE RebaseWrite(c) \/ RebaseWriteFails(c)
  BY <1>4 DEF RebaseWrite, RebaseWriteFails
<1> QED BY <1>1, <1>2, <1>3, <1>4

\* The numbers and the worktrees, after a step of a process.
LEMMA LeftStep ==
  ASSUME GInv, NEW c \in Commands, Capture(c) \/ Rebase(c) \/ Crash(c)
  PROVE  NumInv' /\ LeftInv' /\ NoLeftover'
<1>0. TypeOK /\ NumInv /\ LeftInv /\ NoLeftover
  BY DEF GInv
<1>1. \A d \in Commands \ {c} : pc'[d] = pc[d] /\ num'[d] = num[d]
  BY <1>0, OthersStay
<1>2. CASE RebaseWorktree(c)
  <2>1. num'[c] = num[c] /\ num[c] \in Nums /\ pc[c] = "checking"
    BY <1>0, <1>2 DEF RebaseWorktree, NumInv, Numbered
  <2>2. NumInv'
    BY <1>0, <1>1, <2>1 DEF NumInv
  <2>3. CASE num[c] \in worktrees
    <3>1. worktrees' = worktrees /\ orphans' = orphans /\ pc'[c] # "merging"
      BY <1>0, <1>2, <2>3 DEF RebaseWorktree, Goto, TypeOK
    <3> QED BY <1>0, <1>1, <2>1, <2>2, <3>1 DEF LeftInv, NoLeftover
  <2>4. CASE num[c] \notin worktrees
    <3>1. worktrees' = worktrees \cup {num[c]} /\ orphans' = orphans /\ pc'[c] = "merging"
      BY <1>0, <1>2, <2>4 DEF RebaseWorktree, Goto, TypeOK
    <3>2. num[c] \notin orphans
      BY <1>0, <2>4 DEF TypeOK
    <3>3. LeftInv'
      BY <1>0, <1>1, <2>1, <2>4, <3>1, <3>2 DEF LeftInv
    <3>4. NoLeftover'
      BY <1>0, <1>1, <2>1, <3>1 DEF NoLeftover
    <3> QED BY <2>2, <3>3, <3>4
  <2> QED BY <2>3, <2>4
<1>3. CASE RebaseMerge(c)
  <2>1. /\ num'[c] = num[c] /\ num[c] \in Nums /\ pc[c] = "merging" /\ pc'[c] # "merging"
    BY <1>0, <1>3 DEF RebaseMerge, NumInv, Numbered, TypeOK, Goto
  <2>2. worktrees' \ orphans' = (worktrees \ orphans) \ {num[c]}
    BY <1>3 DEF RebaseMerge, RemoveWorktree
  <2>3. NumInv'
    BY <1>0, <1>1, <2>1 DEF NumInv
  <2>4. LeftInv'
    BY <1>0, <1>1, <2>1, <2>2 DEF LeftInv
  <2>5. NoLeftover'
    BY <1>0, <1>1, <2>1, <2>2 DEF NoLeftover
  <2> QED BY <2>3, <2>4, <2>5
<1>4. CASE Crash(c)
  <2>1. /\ pc'[c] = "done" /\ worktrees' = worktrees
        /\ orphans' = IF pc[c] = "merging" THEN orphans \cup {num[c]} ELSE orphans
    BY <1>0, <1>4 DEF Crash, Goto, TypeOK
  <2>2. NumInv'
    BY <1>0, <1>1, <2>1 DEF NumInv, Numbered
  <2>3. LeftInv'
    BY <1>0, <1>1, <2>1 DEF LeftInv
  <2>4. NoLeftover'
    BY <1>0, <1>1, <2>1 DEF NoLeftover
  <2> QED BY <2>2, <2>3, <2>4
<1>5. CASE ~RebaseWorktree(c) /\ ~RebaseMerge(c) /\ ~Crash(c)
  <2>1. /\ worktrees' = worktrees /\ orphans' = orphans
        /\ pc[c] # "merging" /\ pc'[c] # "merging"
        /\ pc'[c] \in Numbered => num'[c] \in Nums
    BY <1>0, <1>5, NoMerge DEF Rebase
  <2>2. NumInv'
    BY <1>0, <1>1, <2>1 DEF NumInv
  <2>3. LeftInv'
    BY <1>0, <1>1, <2>1 DEF LeftInv
  <2>4. NoLeftover'
    BY <1>0, <1>1, <2>1 DEF NoLeftover
  <2> QED BY <2>2, <2>3, <2>4
<1> QED BY <1>2, <1>3, <1>4, <1>5

LEMMA GInvStep == GInv /\ [Next]_vars => GInv'
<1> SUFFICES ASSUME GInv, [Next]_vars PROVE GInv'
  OBVIOUS
<1>0. TypeOK /\ NumInv /\ LeftInv /\ NoLeftover
  BY DEF GInv
<1>1. CASE Edit \/ Stage \/ Commit \/ Rm
  <2>1. UNCHANGED <<pc, num, worktrees, orphans>>
    BY <1>1 DEF Edit, Stage, Commit, Rm, store, locals
  <2>2. NumInv' /\ LeftInv' /\ NoLeftover'
    BY <1>0, <2>1 DEF NumInv, LeftInv, NoLeftover
  <2> QED BY <1>0, <1>1, <2>2, TreeTypeStep DEF GInv
<1>2. ASSUME NEW c \in Commands, Capture(c) \/ Rebase(c) \/ Crash(c) PROVE GInv'
  BY <1>0, <1>2, LeftStep, CaptureTypeStep, RebaseTypeStep, CrashTypeStep DEF GInv
<1>3. CASE UNCHANGED vars
  BY <1>0, <1>3 DEF GInv, TypeOK, NumInv, LeftInv, NoLeftover, vars, trees, store, locals
<1> QED BY <1>1, <1>2, <1>3 DEF Next, AllDone

\* The state keeps its types, whatever commands, users and crashes interleave.
THEOREM StoreTypeCorrect == Spec => []TypeOK
<1>1. GInv => TypeOK
  BY DEF GInv
<1> QED BY <1>1, InitGInv, GInvStep, PTL DEF Spec

\* A worktree rebase-NNNN is that of a merge that runs (cmd_rebase.go:107-194), of a
\* rebase that was killed, or one that git did not remove, for any number of commands
\* in any number of terminals.
THEOREM NoWorktreeLeftOver == Spec => []NoLeftover
<1>1. GInv => NoLeftover
  BY DEF GInv
<1> QED BY <1>1, InitGInv, GInvStep, PTL DEF Spec

-----------------------------------------------------------------------------
(* One command at a time, but for captures behind a capture that waits     *)

Serial == ~Overlap /\ Busy = {} /\ Behind \subseteq {"capture"}

Rebasing == {"listing", "checking", "merging", "merged"}
Owning   == {"written", "edited", "restored", "describing"}
Acts(c)  == Capture(c) \/ Rebase(c) \/ Crash(c)

\* One process is in front of the user.
FrontInv == \A c, d \in Commands : Foreground(c) /\ Foreground(d) => c = d

\* No description is awaited while a rebase runs.
AloneInv == \A c, d \in Commands : pc[c] \in Rebasing => pc[d] # "describing"

\* A capture has its diff in its patch from the write to its end...
OwnInv == \A c \in Commands :
            pc[c] \in Owning => files[num[c]] = loc[c] /\ loc[c].diff # {}

\* ... no two of them in the same ...
ApartInv == \A c, d \in Commands :
              pc[c] \in Owning /\ pc[d] \in Owning /\ num[c] = num[d] => c = d

\* ... and before that its number is free.
FreshInv == \A c \in Commands : pc[c] = "numbered" => files[num[c]] = NoPatch

\* What a capture restores is what it has read.
TreeInv == \A c \in Commands :
             pc[c] \in {"diffed", "numbered", "written", "edited"} =>
               loc[c].diff = work \ index /\ loc[c].diff # {}

\* A rebase has the patch it works on, without what HEAD contains once it is merged.
RebaseInv == \A c \in Commands :
               /\ pc[c] = "checking" => loc[c] = files[num[c]]
               /\ pc[c] \in {"merging", "merged"} => loc[c].diff = files[num[c]].diff \ head

\* Captures only have a way to get a description.
HowInv == \A c \in Commands : pc[c] \in Rebasing \cup {"idle"} => how[c] = "none"

SInv == /\ GInv /\ FrontInv /\ AloneInv /\ OwnInv /\ ApartInv /\ FreshInv
        /\ TreeInv /\ RebaseInv /\ HowInv

LEMMA InitSInv == Init => SInv /\ NothingLost
<1> SUFFICES ASSUME Init PROVE SInv /\ NothingLost
  OBVIOUS
<1>1. \A c \in Commands : pc[c] = "idle" /\ how[c] = "none"
  BY DEF Init
<1>2. FrontInv /\ AloneInv /\ OwnInv /\ ApartInv
  BY <1>1 DEF FrontInv, Foreground, AloneInv, Rebasing, OwnInv, ApartInv, Owning
<1>3. FreshInv /\ TreeInv /\ RebaseInv /\ HowInv
  BY <1>1 DEF FreshInv, TreeInv, RebaseInv, HowInv
<1>4. NothingLost
  BY DEF Init, NothingLost
<1> QED BY <1>2, <1>3, <1>4, InitGInv DEF SInv

\* The action of a process that arrives at a place.
LEMMA Arrivals ==
  ASSUME TypeOK, NEW c \in Commands, Acts(c)
  PROVE  /\ pc'[c] # "idle"
         /\ pc'[c] = "diffed" => CaptureDiff(c)
         /\ pc'[c] = "numbered" => CaptureNumber(c)
         /\ pc'[c] = "written" => CaptureWrite(c)
         /\ pc'[c] = "edited" => CaptureWrite(c) \/ EditorCloses(c)
         /\ pc'[c] \in {"restored", "describing"} => Restore(c)
         /\ pc'[c] = "listing" => \/ RebaseList(c) \/ RebaseSkips(c) \/ RebaseWorktree(c)
                                  \/ RebaseMerge(c) \/ RebaseWrite(c)
         /\ pc'[c] = "checking" => RebaseRead(c)
         /\ pc'[c] = "merging" => RebaseWorktree(c)
         /\ pc'[c] = "merged" => RebaseMerge(c)
<1> USE DEF TypeOK, Goto, Exit
<1>1. CASE Capture(c)
  <2>1. CASE CaptureDiff(c) \/ CaptureNumber(c) \/ CaptureFails(c)
    BY <2>1 DEF CaptureDiff, CaptureNumber, CaptureFails
  <2>2. CASE CaptureWrite(c) \/ EditorCloses(c) \/ EditorFails(c)
    BY <2>2 DEF CaptureWrite, EditorCloses, EditorFails
  <2>3. CASE Restore(c) \/ RestoreFails(c) \/ ReadBack(c)
    BY <2>3 DEF Restore, RestoreFails, ReadBack
  <2>4. CASE Describe(c) \/ DescribeFails(c)
    BY <2>4 DEF Describe, DescribeFails
  <2> QED BY <1>1, <2>1, <2>2, <2>3, <2>4 DEF Capture
<1>2. CASE Rebase(c)
  <2>1. CASE RebaseList(c) \/ RebaseRead(c) \/ RebaseSkips(c)
    BY <2>1 DEF RebaseList, RebaseRead, RebaseSkips
  <2>2. CASE RebaseWorktree(c) \/ RebaseMerge(c)
    BY <2>2 DEF RebaseWorktree, RebaseMerge
  <2>3. CASE RebaseWrite(c) \/ RebaseWriteFails(c) \/ RebaseEnds(c)
    BY <2>3 DEF RebaseWrite, RebaseWriteFails, RebaseEnds
  <2> QED BY <1>2, <2>1, <2>2, <2>3 DEF Rebase
<1>3. CASE Crash(c)
  BY <1>3 DEF Crash
<1> QED BY <1>1, <1>2, <1>3 DEF Acts

\* What a process leaves in the mutations directory and in the trees.
LEMMA Departures ==
  ASSUME TypeOK, NEW c \in Commands, Acts(c)
  PROVE  /\ \A n \in Nums :
              \/ files'[n] = files[n]
              \/ n = num[c] /\ pc[c] \in {"numbered", "written", "merged", "describing"}
         /\ head' = head /\ index' = index /\ made' = made
         /\ work' = work \/ (pc[c] = "edited" /\ Restore(c))
         /\ pc[c] # "done"
         /\ pc[c] = "describing" => pc'[c] = "done"
<1> USE DEF TypeOK, Goto, Exit, trees, store, TearsFile
<1>1. CASE Capture(c)
  <2>1. CASE CaptureDiff(c) \/ CaptureNumber(c) \/ CaptureFails(c)
    BY <2>1 DEF CaptureDiff, CaptureNumber, CaptureFails, Starts
  <2>2. CASE CaptureWrite(c) \/ EditorCloses(c) \/ EditorFails(c)
    BY <2>2 DEF CaptureWrite, EditorCloses, EditorFails
  <2>3. CASE Restore(c) \/ RestoreFails(c) \/ ReadBack(c)
    BY <2>3 DEF Restore, RestoreFails, ReadBack
  <2>4. CASE Describe(c) \/ DescribeFails(c)
    BY <2>4 DEF Describe, DescribeFails
  <2> QED BY <1>1, <2>1, <2>2, <2>3, <2>4 DEF Capture
<1>2. CASE Rebase(c)
  <2>1. CASE RebaseList(c) \/ RebaseRead(c) \/ RebaseSkips(c)
    BY <2>1 DEF RebaseList, RebaseRead, RebaseSkips, Starts
  <2>2. CASE RebaseWorktree(c) \/ RebaseMerge(c)
    BY <2>2 DEF RebaseWorktree, RebaseMerge
  <2>3. CASE RebaseWrite(c) \/ RebaseWriteFails(c) \/ RebaseEnds(c)
    BY <2>3 DEF RebaseWrite, RebaseWriteFails, RebaseEnds
  <2> QED BY <1>2, <2>1, <2>2, <2>3 DEF Rebase
<1>3. CASE Crash(c)
  BY <1>3 DEF Crash
<1> QED BY <1>1, <1>2, <1>3 DEF Acts

\* While a process acts, no other is in front, and beside a rebase there is none.
LEMMA InFront ==
  ASSUME Serial, SInv, NEW c \in Commands, Acts(c), NEW d \in Commands, d # c
  PROVE  /\ pc[c] # "describing" => ~Foreground(d)
         /\ pc[c] \in Rebasing => pc[d] \in {"idle", "done"}
         /\ pc[c] = "idle" /\ pc'[c] \in Rebasing => pc[d] \in {"idle", "done"}
<1>0. TypeOK /\ FrontInv /\ AloneInv
  BY DEF SInv, GInv
<1>1. pc[c] # "done"
  BY <1>0, Departures
<1>2. CASE pc[c] = "idle"
  <2>1. CaptureDiff(c) \/ RebaseList(c)
    BY <1>2 DEF Acts, Capture, Rebase, Crash, CaptureNumber, CaptureWrite, CaptureFails,
         EditorCloses, EditorFails, Restore, RestoreFails, ReadBack, Describe, DescribeFails,
         RebaseRead, RebaseSkips, RebaseWorktree, RebaseMerge, RebaseWrite,
         RebaseWriteFails, RebaseEnds
  <2>2. ~Foreground(d)
    BY <2>1 DEF CaptureDiff, RebaseList, Starts, MayStart, Quiet, UserWorks, Serial
  <2>3. pc'[c] \in Rebasing => RebaseList(c)
    BY <1>0, <2>1 DEF CaptureDiff, Goto, Exit, Rebasing, TypeOK
  <2>4. pc'[c] \in Rebasing => pc[d] # "describing"
    BY <2>3 DEF RebaseList, Starts, MayStart, Described, Quiet, UserWorks, Serial
  <2> QED BY <1>2, <2>2, <2>4 DEF Foreground, Rebasing
<1>3. CASE pc[c] # "idle"
  <2>1. pc[c] # "describing" => ~Foreground(d)
    BY <1>0, <1>1, <1>3 DEF FrontInv, Foreground
  <2>2. pc[c] \in Rebasing => pc[d] # "describing"
    BY <1>0 DEF AloneInv
  <2> QED BY <1>3, <2>1, <2>2 DEF Foreground, Rebasing
<1> QED BY <1>2, <1>3

LEMMA FrontStep ==
  ASSUME Serial, SInv, NEW c \in Commands, Acts(c)
  PROVE  FrontInv' /\ AloneInv'
<1>0. TypeOK /\ FrontInv /\ AloneInv
  BY DEF SInv, GInv
<1>1. \A d \in Commands \ {c} : pc'[d] = pc[d]
  BY <1>0, OthersStay DEF Acts
<1>2. CASE pc[c] = "describing"
  <2>1. pc'[c] = "done"
    BY <1>0, <1>2, Departures
  <2>2. FrontInv'
    BY <1>0, <1>1, <2>1 DEF FrontInv, Foreground
  <2>3. AloneInv'
    BY <1>0, <1>1, <2>1 DEF AloneInv, Rebasing
  <2> QED BY <2>2, <2>3
<1>3. CASE pc[c] # "describing"
  <2>1. \A d \in Commands \ {c} : ~Foreground(d)
    BY <1>3, InFront
  <2>2. FrontInv'
    BY <1>1, <2>1 DEF FrontInv, Foreground
  <2>3. \A d \in Commands \ {c} : pc'[d] \notin Rebasing
    BY <1>1, <2>1 DEF Foreground, Rebasing
  <2>4. ASSUME pc'[c] \in Rebasing, NEW d \in Commands \ {c}
        PROVE  pc'[d] # "describing"
    <3>1. pc[c] \in Rebasing \cup {"idle"}
      BY <1>0, <2>4, Arrivals DEF Rebasing, RebaseList, Starts, RebaseSkips, RebaseWorktree,
           RebaseMerge, RebaseWrite, RebaseRead
    <3> QED BY <1>1, <2>4, <3>1, InFront
  <2>5. AloneInv'
    BY <2>3, <2>4 DEF AloneInv, Rebasing
  <2> QED BY <2>2, <2>5
<1> QED BY <1>2, <1>3

\* A process writes no patch that another capture owns.
LEMMA OwnersStay ==
  ASSUME Serial, SInv, NEW c \in Commands, Acts(c), NEW d \in Commands, d # c,
         pc[d] \in Owning
  PROVE  files'[num[d]] = files[num[d]]
<1>0. TypeOK /\ NumInv /\ OwnInv /\ ApartInv /\ FreshInv
  BY DEF SInv, GInv
<1>1. num[d] \in Nums /\ files[num[d]].diff # {}
  BY <1>0 DEF NumInv, Numbered, Owning, OwnInv
<1>2. ASSUME num[d] = num[c], pc[c] \in {"numbered", "written", "merged", "describing"}
      PROVE  FALSE
  <2>1. CASE pc[c] = "numbered"
    BY <1>0, <1>1, <1>2, <2>1 DEF FreshInv, NoPatch
  <2>2. CASE pc[c] \in {"written", "describing"}
    BY <1>0, <1>2, <2>2 DEF ApartInv, Owning
  <2>3. CASE pc[c] = "merged"
    BY <2>3, InFront DEF Rebasing, Owning
  <2> QED BY <1>2, <2>1, <2>2, <2>3
<1> QED BY <1>0, <1>1, <1>2, Departures

LEMMA OwnStep ==
  ASSUME Serial, SInv, NEW c \in Commands, Acts(c)
  PROVE  OwnInv' /\ ApartInv' /\ FreshInv'
<1>0. TypeOK /\ NumInv /\ OwnInv /\ ApartInv /\ FreshInv /\ TreeInv
  BY DEF SInv, GInv
<1>1. \A d \in Commands \ {c} : pc'[d] = pc[d] /\ num'[d] = num[d] /\ loc'[d] = loc[d]
  BY <1>0, OthersStay DEF Acts
<1>2. \A d \in Commands \ {c} : pc[d] \in Owning => files'[num[d]] = files[num[d]]
  BY OwnersStay
<1>3. ASSUME pc'[c] \in Owning
      PROVE  /\ files'[num'[c]] = loc'[c] /\ loc'[c].diff # {} /\ num'[c] = num[c]
             /\ pc[c] \in Owning \/ pc[c] = "numbered"
  <2>1. CASE CaptureWrite(c)
    <3>1. loc[c].diff # {} /\ num[c] \in Nums
      BY <1>0, <2>1 DEF CaptureWrite, TreeInv, NumInv, Numbered
    <3> QED BY <1>0, <2>1, <3>1 DEF CaptureWrite, locals, TypeOK
  <2>2. CASE EditorCloses(c)
    <3>1. loc[c].diff # {} /\ num[c] \in Nums
      BY <1>0, <2>2 DEF EditorCloses, OwnInv, Owning, NumInv, Numbered
    <3> QED BY <1>0, <2>2, <3>1 DEF EditorCloses, locals, TypeOK, Owning
  <2>3. CASE Restore(c)
    BY <1>0, <2>3 DEF Restore, OwnInv, Owning, store, locals
  <2> QED BY <1>0, <1>3, <2>1, <2>2, <2>3, Arrivals DEF Owning
<1>4. OwnInv'
  BY <1>0, <1>1, <1>2, <1>3 DEF OwnInv
<1>5. ApartInv'
  <2>1. ASSUME NEW d \in Commands \ {c}, pc'[c] \in Owning, pc[d] \in Owning
        PROVE  num[c] # num[d]
    BY <1>0, <1>3, <2>1 DEF ApartInv, FreshInv, OwnInv, NoPatch
  <2> QED BY <1>0, <1>1, <1>3, <2>1 DEF ApartInv
<1>6. FreshInv'
  <2>1. ASSUME pc'[c] = "numbered" PROVE files'[num'[c]] = NoPatch
    <3>1. CaptureNumber(c)
      BY <1>0, <2>1, Arrivals
    <3>2. num'[c] = NextNumber /\ NextNumber \in Nums \ Listed /\ files' = files
      BY <1>0, <3>1, NextIsFree DEF CaptureNumber, store, TypeOK
    <3> QED BY <3>2 DEF Listed
  <2>2. ASSUME NEW d \in Commands \ {c}, pc[d] = "numbered" PROVE files'[num[d]] = NoPatch
    <3>1. pc[c] = "describing"
      BY <2>2, InFront DEF Foreground
    <3>2. num[d] \in Nums /\ num[c] # num[d]
      BY <1>0, <2>2, <3>1 DEF NumInv, Numbered, OwnInv, Owning, FreshInv, NoPatch
    <3> QED BY <1>0, <2>2, <3>2, Departures DEF FreshInv
  <2> QED BY <1>1, <2>1, <2>2 DEF FreshInv
<1> QED BY <1>4, <1>5, <1>6

LEMMA TreeStep ==
  ASSUME Serial, SInv, NEW c \in Commands, Acts(c)
  PROVE  TreeInv'
<1>0. TypeOK /\ TreeInv
  BY DEF SInv, GInv
<1>1. \A d \in Commands \ {c} : pc'[d] = pc[d] /\ loc'[d] = loc[d]
  BY <1>0, OthersStay DEF Acts
<1>2. index' = index /\ (pc[c] # "edited" => work' = work)
  BY <1>0, Departures
<1>3. ASSUME pc'[c] \in {"diffed", "numbered", "written", "edited"}
      PROVE  loc'[c].diff = work \ index /\ loc'[c].diff # {} /\ work' = work
  <2>1. CASE CaptureDiff(c)
    <3>1. work # index /\ loc' = [loc EXCEPT ![c] = DiffOf(work \ index, work)]
      BY <1>0, <1>3, <2>1 DEF CaptureDiff, Exit, Goto, TypeOK
    <3>2. loc'[c].diff = work \ index /\ work \ index # {}
      BY <1>0, <3>1 DEF TypeOK, DiffOf
    <3> QED BY <2>1, <3>2 DEF CaptureDiff, trees
  <2>2. CASE CaptureNumber(c)
    BY <1>0, <2>2 DEF CaptureNumber, TreeInv, trees
  <2>3. CASE CaptureWrite(c) \/ EditorCloses(c)
    BY <1>0, <2>3 DEF CaptureWrite, EditorCloses, TreeInv, trees, locals
  <2> QED BY <1>0, <1>3, <2>1, <2>2, <2>3, Arrivals
<1>4. ASSUME NEW d \in Commands \ {c}, pc[d] \in {"diffed", "numbered", "written", "edited"}
      PROVE  loc[d].diff = work' \ index /\ loc[d].diff # {}
  BY <1>0, <1>2, <1>4, InFront DEF TreeInv, Foreground
<1> QED BY <1>0, <1>1, <1>2, <1>3, <1>4 DEF TreeInv

LEMMA RebaseStep ==
  ASSUME Serial, SInv, NEW c \in Commands, Acts(c)
  PROVE  RebaseInv'
<1>0. TypeOK /\ NumInv /\ RebaseInv
  BY DEF SInv, GInv
<1>1. \A d \in Commands \ {c} : pc'[d] = pc[d] /\ num'[d] = num[d] /\ loc'[d] = loc[d]
  BY <1>0, OthersStay DEF Acts
<1>2. head' = head
  BY <1>0, Departures
<1>3. pc'[c] = "checking" => loc'[c] = files'[num'[c]]
  BY <1>0, Arrivals DEF RebaseRead, Exit, Goto, TypeOK, store
<1>4. ASSUME pc'[c] \in {"merging", "merged"}
      PROVE  loc'[c].diff = files'[num'[c]].diff \ head
  <2>1. CASE RebaseWorktree(c)
    <3>1. loc[c] = files[num[c]] /\ loc[c].diff \ head \in SUBSET Edits
      BY <1>0, <2>1 DEF RebaseWorktree, RebaseInv, TypeOK, Patch
    <3>2. loc' = [loc EXCEPT ![c] = DiffOf(loc[c].diff \ head, head)]
      BY <1>0, <1>4, <2>1 DEF RebaseWorktree, Goto, TypeOK
    <3>3. loc'[c].diff = loc[c].diff \ head
      BY <1>0, <3>2 DEF TypeOK, DiffOf
    <3> QED BY <2>1, <3>1, <3>3 DEF RebaseWorktree
  <2>2. CASE RebaseMerge(c)
    BY <1>0, <2>2 DEF RebaseMerge, RebaseInv
  <2> QED BY <1>0, <1>4, <2>1, <2>2, Arrivals
<1>5. ASSUME NEW d \in Commands \ {c}, pc[d] \in {"checking", "merging", "merged"}
      PROVE  files'[num[d]] = files[num[d]]
  <2>1. pc[c] = "describing"
    BY <1>5, InFront DEF Foreground
  <2> QED BY <1>0, <1>5, <2>1 DEF SInv, AloneInv, Rebasing
<1> QED BY <1>0, <1>1, <1>2, <1>3, <1>4, <1>5 DEF RebaseInv

LEMMA HowStep ==
  ASSUME Serial, SInv, NEW c \in Commands, Acts(c)
  PROVE  HowInv'
<1>0. TypeOK /\ HowInv
  BY DEF SInv, GInv
<1>1. \A d \in Commands \ {c} : pc'[d] = pc[d] /\ how'[d] = how[d]
  BY <1>0, OthersStay DEF Acts
<1>2. ASSUME pc'[c] \in Rebasing PROVE how'[c] = "none"
  <2>1. CASE RebaseList(c)
    <3>1. pc[c] = "idle" /\ (how' = how \/ pc'[c] = "done")
      BY <1>0, <2>1 DEF RebaseList, Starts, Exit, Goto, TypeOK
    <3> QED BY <1>0, <1>2, <3>1 DEF HowInv, Rebasing
  <2>2. CASE RebaseRead(c)
    <3>1. pc[c] = "listing" /\ (how' = how \/ pc'[c] = "done")
      BY <1>0, <2>2 DEF RebaseRead, Exit, Goto, TypeOK
    <3> QED BY <1>0, <1>2, <3>1 DEF HowInv, Rebasing
  <2>3. CASE RebaseSkips(c) \/ RebaseWorktree(c)
    BY <1>0, <2>3 DEF RebaseSkips, RebaseWorktree, HowInv, Rebasing
  <2>4. CASE RebaseMerge(c) \/ RebaseWrite(c)
    BY <1>0, <2>4 DEF RebaseMerge, RebaseWrite, HowInv, Rebasing, locals
  <2> QED BY <1>0, <1>2, <2>1, <2>2, <2>3, <2>4, Arrivals DEF Rebasing
<1>3. pc'[c] # "idle"
  BY <1>0, Arrivals
<1> QED BY <1>0, <1>1, <1>2, <1>3 DEF HowInv

\* The user works, or removes a patch, when no command is in front.
LEMMA UserStep ==
  ASSUME Serial, SInv, Edit \/ Stage \/ Commit \/ Rm
  PROVE  SInv'
<1>0. /\ GInv /\ FrontInv /\ AloneInv /\ OwnInv /\ ApartInv /\ FreshInv
      /\ TreeInv /\ RebaseInv /\ HowInv
  BY DEF SInv
<1>1. pc' = pc /\ num' = num /\ loc' = loc /\ how' = how
  BY DEF Edit, Stage, Commit, Rm, store, locals
<1>2. \A c \in Commands : ~Foreground(c)
  BY DEF Edit, Stage, Commit, Rm, MayStart, Quiet, UserWorks, Serial
<1>3. (\A c \in Commands : pc[c] # "describing") \/ files' = files
  BY DEF Edit, Stage, Commit, Rm, MayStart, Described, Quiet, UserWorks, Serial, store
<1>4. GInv'
  BY <1>0, GInvStep DEF Next
<1>5. FrontInv' /\ AloneInv' /\ ApartInv' /\ HowInv'
  BY <1>0, <1>1 DEF FrontInv, Foreground, AloneInv, ApartInv, HowInv
<1>6. OwnInv'
  BY <1>0, <1>1, <1>2, <1>3 DEF OwnInv, Owning, Foreground
<1>7. FreshInv' /\ TreeInv' /\ RebaseInv'
  BY <1>1, <1>2 DEF FreshInv, TreeInv, RebaseInv, Foreground
<1> QED BY <1>4, <1>5, <1>6, <1>7 DEF SInv

LEMMA SInvStep ==
  ASSUME Serial, SInv, [Next]_vars
  PROVE  SInv'
<1>1. CASE Edit \/ Stage \/ Commit \/ Rm
  BY <1>1, UserStep
<1>2. ASSUME NEW c \in Commands, Acts(c) PROVE SInv'
  <2>1. GInv'
    BY <1>2, GInvStep DEF SInv, Next, Acts
  <2> QED BY <1>2, <2>1, FrontStep, OwnStep, TreeStep, RebaseStep, HowStep DEF SInv
<1>3. CASE UNCHANGED vars
  <2>1. GInv'
    BY <1>3, GInvStep DEF SInv
  <2> QED BY <1>3, <2>1 DEF SInv, vars, trees, store, locals, FrontInv, Foreground, AloneInv,
        OwnInv, ApartInv, FreshInv, TreeInv, RebaseInv, HowInv
<1> QED BY <1>1, <1>2, <1>3 DEF Next, AllDone, Acts

-----------------------------------------------------------------------------
(* What is saved stays saved                                               *)

\* How a process may change the patch with its number.
LEMMA PatchStep ==
  ASSUME Serial, SInv, NEW c \in Commands, Acts(c), NEW n \in Nums, files'[n] # files[n]
  PROVE  \/ files[n] = NoPatch
         \/ files'[n] = Torn /\ dropped' = dropped \cup files[n].diff
         \/ files'[n] = NoPatch /\ files[n].diff \subseteq work' \cup dropped'
         \/ files'[n].diff = files[n].diff \ head /\ work' = work /\ dropped' = dropped
<1>0. TypeOK /\ NumInv /\ OwnInv /\ FreshInv /\ TreeInv /\ RebaseInv
  BY DEF SInv, GInv
<1>1. n = num[c] /\ pc[c] \in {"numbered", "written", "merged", "describing"}
  BY <1>0, Departures
<1>2. CASE TearsFile(c)
  BY <1>0, <1>1, <1>2 DEF TearsFile, TypeOK
<1>3. CASE pc[c] = "numbered"
  BY <1>0, <1>1, <1>3 DEF FreshInv
<1>4. CASE pc[c] = "written" /\ ~TearsFile(c)
  <2>1. EditorCloses(c) \/ EditorFails(c)
    BY <1>0, <1>1, <1>4 DEF Acts, Capture, Rebase, Crash, CaptureDiff, Starts, CaptureNumber,
         CaptureWrite, CaptureFails, Restore, RestoreFails, ReadBack, Describe, DescribeFails,
         RebaseList, RebaseRead, RebaseSkips, RebaseWorktree, RebaseMerge, RebaseWrite,
         RebaseWriteFails, RebaseEnds
  <2>2. files[n] = loc[c] /\ loc[c].diff = work \ index
    BY <1>0, <1>1, <1>4 DEF OwnInv, Owning, TreeInv
  <2>3. EditorFails(c)
    BY <1>0, <1>1, <2>1, <2>2 DEF EditorCloses, TypeOK
  <2>4. files'[n] = NoPatch /\ work' = work
    BY <1>0, <1>1, <2>3 DEF EditorFails, TypeOK, trees
  <2> QED BY <2>2, <2>4
<1>5. CASE pc[c] = "describing" /\ ~TearsFile(c)
  <2>1. Describe(c)
    BY <1>0, <1>1, <1>5 DEF Acts, Capture, Rebase, Crash, CaptureDiff, Starts, CaptureNumber,
         CaptureWrite, CaptureFails, Restore, RestoreFails, ReadBack, EditorCloses, EditorFails,
         DescribeFails, RebaseList, RebaseRead, RebaseSkips, RebaseWorktree, RebaseMerge,
         RebaseWrite, RebaseWriteFails, RebaseEnds
  <2>2. files[n] = loc[c]
    BY <1>0, <1>1, <1>5 DEF OwnInv, Owning
  <2> QED BY <1>0, <1>1, <2>1, <2>2 DEF Describe, TypeOK
<1>6. CASE pc[c] = "merged" /\ ~TearsFile(c)
  <2>1. RebaseWrite(c)
    BY <1>0, <1>1, <1>6 DEF Acts, Capture, Rebase, Crash, CaptureDiff, Starts, CaptureNumber,
         CaptureWrite, CaptureFails, Restore, RestoreFails, ReadBack, EditorCloses, EditorFails,
         Describe, DescribeFails, RebaseList, RebaseRead, RebaseSkips, RebaseWorktree,
         RebaseMerge, RebaseWriteFails, RebaseEnds
  <2>2. files'[n] = loc[c] /\ work' = work /\ dropped' = dropped
    BY <1>0, <1>1, <2>1 DEF RebaseWrite, TypeOK, trees
  <2> QED BY <1>0, <1>1, <1>6, <2>2 DEF RebaseInv
<1> QED BY <1>1, <1>2, <1>3, <1>4, <1>5, <1>6

\* No step takes away from dropped, and only a restore takes away from the working
\* tree: what the patch of the capture holds.
LEMMA RestoreStep ==
  ASSUME Serial, SInv, NEW c \in Commands, Acts(c)
  PROVE  /\ dropped \subseteq dropped'
         /\ \/ work' = work
            \/ /\ num[c] \in Nums /\ files' = files
               /\ work \subseteq work' \cup files[num[c]].diff
<1>0. TypeOK /\ NumInv /\ OwnInv /\ TreeInv
  BY DEF SInv, GInv
<1>1. dropped \subseteq dropped'
  BY DEF Acts, Capture, Rebase, Crash, CaptureDiff, CaptureNumber, CaptureWrite, CaptureFails,
       Restore, RestoreFails, ReadBack, EditorCloses, EditorFails, Describe, DescribeFails,
       RebaseList, RebaseRead, RebaseSkips, RebaseWorktree, RebaseMerge, RebaseWrite,
       RebaseWriteFails, RebaseEnds, TearsFile, store
<1>2. ASSUME Restore(c)
      PROVE  num[c] \in Nums /\ files' = files /\ work \subseteq work' \cup files[num[c]].diff
  <2>1. pc[c] = "edited" /\ work' = index /\ files' = files
    BY <1>2 DEF Restore, store
  <2>2. files[num[c]].diff = work \ index /\ num[c] \in Nums
    BY <1>0, <2>1 DEF OwnInv, Owning, TreeInv, NumInv, Numbered
  <2> QED BY <2>1, <2>2
<1> QED BY <1>0, <1>1, <1>2, Departures

LEMMA KeepStep ==
  ASSUME Serial, SInv, NothingLost, [Next]_vars
  PROVE  NothingLost'
<1>0. TypeOK
  BY DEF SInv, GInv
<1>1. CASE Edit \/ Stage \/ Commit
  <2>1. made' \ made \subseteq work' /\ work \subseteq work' /\ files' = files /\ dropped' = dropped
    BY <1>0, <1>1 DEF Edit, Stage, Commit, store, TypeOK
  <2> QED BY <2>1 DEF NothingLost
<1>2. CASE Rm
  <2>1. PICK n \in Listed : /\ files' = [files EXCEPT ![n] = NoPatch]
                            /\ dropped' = dropped \cup files[n].diff
    BY <1>2 DEF Rm
  <2>2. \A m \in Nums \ {n} : files'[m] = files[m]
    BY <1>0, <2>1 DEF TypeOK
  <2>3. made' = made /\ work' = work
    BY <1>2 DEF Rm, trees
  <2> QED BY <2>1, <2>2, <2>3 DEF NothingLost
<1>3. ASSUME NEW c \in Commands, Acts(c), NEW e \in made
      PROVE  e \in work' \cup dropped' \cup UNION { files'[n].diff : n \in Nums }
  <2>1. CASE e \in work \/ e \in dropped
    BY <1>3, <2>1, RestoreStep
  <2>2. ASSUME NEW n \in Nums, e \in files[n].diff
        PROVE  e \in work' \cup dropped' \cup files'[n].diff
    <3>1. CASE files'[n] = files[n]
      BY <2>2, <3>1
    <3>2. CASE files'[n] # files[n]
      <4>1. files[n] # NoPatch /\ head \subseteq work
        BY <1>0, <2>2 DEF NoPatch, TypeOK
      <4> QED BY <1>3, <2>2, <3>2, <4>1, PatchStep
    <3> QED BY <3>1, <3>2
  <2> QED BY <1>3, <2>1, <2>2 DEF NothingLost
<1>4. \A c \in Commands : Acts(c) => made' = made
  BY <1>0, Departures
<1>5. CASE UNCHANGED vars
  BY <1>5 DEF NothingLost, vars, trees, store
<1> QED BY <1>1, <1>2, <1>3, <1>4, <1>5 DEF Next, AllDone, Acts, NothingLost

\* Exit code 0 of a capture stands for a patch that holds its diff.
LEMMA SavedStep ==
  ASSUME Serial, SInv, [Next]_vars, NEW c \in Commands,
         exit[c] = -1, exit'[c] = 0, how[c] # "none"
  PROVE  files'[num[c]] = loc[c]
<1>0. TypeOK /\ NumInv /\ OwnInv /\ HowInv
  BY DEF SInv, GInv
<1>1. Acts(c)
  <2>1. exit' # exit
    OBVIOUS
  <2>2. \A d \in Commands : Acts(d) => d = c
    BY <1>0, OthersStay DEF Acts
  <2> QED BY <2>1, <2>2 DEF Next, AllDone, Acts, Edit, Stage, Commit, Rm, locals, vars
<1>2. pc[c] \notin Rebasing \cup {"idle"}
  BY <1>0 DEF HowInv
<1>3. ReadBack(c) \/ Describe(c)
  <2>1. ~Rebase(c)
    BY <1>2 DEF Rebase, RebaseList, Starts, RebaseRead, RebaseSkips, RebaseWorktree,
         RebaseMerge, RebaseWrite, RebaseWriteFails, RebaseEnds, Rebasing
  <2>2. ~Crash(c)
    BY DEF Crash
  <2>3. Capture(c)
    BY <1>1, <2>1, <2>2 DEF Acts
  <2>4. ~CaptureDiff(c) /\ ~CaptureNumber(c) /\ ~CaptureWrite(c) /\ ~EditorCloses(c) /\ ~Restore(c)
    BY <1>2 DEF CaptureDiff, Starts, CaptureNumber, CaptureWrite, EditorCloses, Restore, locals
  <2>5. ~CaptureFails(c) /\ ~EditorFails(c) /\ ~RestoreFails(c) /\ ~DescribeFails(c)
    BY <1>0 DEF CaptureFails, EditorFails, RestoreFails, DescribeFails, Exit, TypeOK
  <2> QED BY <2>3, <2>4, <2>5 DEF Capture
<1>4. files[num[c]] = loc[c] /\ num[c] \in Nums
  BY <1>0, <1>3 DEF ReadBack, Describe, OwnInv, Owning, NumInv, Numbered
<1> QED BY <1>0, <1>3, <1>4 DEF ReadBack, Describe, store, TypeOK

\* A patch that changes loses nothing but what HEAD contains.
LEMMA StableStep ==
  ASSUME Serial, SInv, [Next]_vars, NEW n \in Nums,
         files[n].diff # {}, files'[n] \notin {NoPatch, Torn}
  PROVE  files'[n].diff \subseteq files[n].diff /\ files[n].diff \subseteq files'[n].diff \cup head
<1>0. TypeOK /\ files[n] # NoPatch
  BY DEF SInv, GInv, NoPatch
<1>1. CASE files'[n] = files[n]
  BY <1>1
<1>2. ASSUME NEW c \in Commands, Acts(c), files'[n] # files[n]
      PROVE  files'[n].diff = files[n].diff \ head
  BY <1>0, <1>2, PatchStep
<1>3. CASE Edit \/ Stage \/ Commit \/ Rm
  <2>1. files'[n] = files[n]
    BY <1>0, <1>3 DEF Edit, Stage, Commit, Rm, store, TypeOK
  <2> QED BY <1>1, <2>1
<1>4. CASE UNCHANGED vars
  BY <1>1, <1>4 DEF vars, store
<1> QED BY <1>1, <1>2, <1>3, <1>4 DEF Next, AllDone, Acts

\* With one command at a time, but for captures behind captures that wait for claude:
\* whatever is killed or fails, no edit of the user is lost (cmd_capture.go:35-131).
THEOREM NoEditIsLost ==
  ASSUME Serial
  PROVE  Spec => []NothingLost
<1>1. Init => SInv /\ NothingLost
  BY InitSInv
<1>2. SInv /\ NothingLost /\ [Next]_vars => SInv' /\ NothingLost'
  BY SInvStep, KeepStep
<1> QED BY <1>1, <1>2, PTL DEF Spec

\* Under the same condition exit code 0 of "muzoo capture" means that the diff that was
\* taken is in its patch, in front or behind a description (cmd_capture.go:35-131).
THEOREM CapturesAreSaved ==
  ASSUME Serial
  PROVE  Spec => CapturesSaved
<1>1. Init => SInv
  BY InitSInv
<1>2. SInv /\ [Next]_vars => SInv'
  BY SInvStep
<1>3. SInv /\ [Next]_vars =>
        [\A c \in Commands : exit[c] = -1 /\ exit'[c] = 0 /\ how[c] # "none"
           => files'[num[c]] = loc[c]]_vars
  BY SavedStep
<1> QED BY <1>1, <1>2, <1>3, PTL DEF Spec, CapturesSaved

\* Under the same condition no write over a patch file that is there puts another
\* mutation in it: a late description writes the same patch again, and a rebase only
\* takes out what HEAD contains (cmd_capture.go:98, cmd_rebase.go:66-194).
THEOREM RewritesKeep ==
  ASSUME Serial
  PROVE  Spec => RewritesKeepMutations
<1>1. Init => SInv
  BY InitSInv
<1>2. SInv /\ [Next]_vars => SInv'
  BY SInvStep
<1>3. SInv /\ [Next]_vars =>
        [\A n \in Nums :
           LET old == files[n].diff  new == files'[n].diff
           IN old # {} /\ files'[n] \notin {NoPatch, Torn}
                => new \subseteq old /\ old \subseteq new \cup head]_vars
  BY StableStep
<1> QED BY <1>1, <1>2, <1>3, PTL DEF Spec, RewritesKeepMutations

-----------------------------------------------------------------------------
(* What a rebase leaves                                                    *)

\* A command has no exit code before it ends.
ExitInv == \A c \in Commands : pc[c] # "done" => exit[c] = -1

\* The patches a rebase is done with apply, unless it has seen one that does not; and so
\* will the one it writes.
ApplyInv == \A c \in Commands :
  pc[c] \in Rebasing /\ ~failed[c] /\ work = head =>
    /\ \A n \in Listed : \/ n \in todo[c]
                         \/ pc[c] # "listing" /\ n = num[c]
                         \/ Applies(files[n], head)
    /\ pc[c] \in {"merging", "merged"} =>
         loc[c].diff \cap head = {} /\ Context(loc[c].diff, head) = loc[c].ctx
    /\ pc[c] = "merged" => loc[c].diff # {}

LEMMA InitApply == Init => ExitInv /\ ApplyInv
BY DEF Init, ExitInv, ApplyInv, Rebasing

LEMMA ExitStep ==
  ASSUME Serial, SInv, ExitInv, [Next]_vars
  PROVE  ExitInv'
<1>0. TypeOK
  BY DEF SInv, GInv
<1>1. ASSUME NEW c \in Commands, Acts(c), NEW d \in Commands, pc'[d] # "done"
      PROVE  exit'[d] = -1
  <2>1. CASE d # c
    <3>1. pc'[d] = pc[d] /\ exit'[d] = exit[d]
      BY <1>0, <1>1, <2>1, OthersStay DEF Acts
    <3> QED BY <1>1, <3>1 DEF ExitInv
  <2>2. CASE d = c
    <3>1. exit'[c] = exit[c] \/ pc'[c] = "done"
      BY <1>0, <1>1 DEF Acts, Capture, Rebase, Crash, CaptureDiff, CaptureNumber, CaptureWrite,
           CaptureFails, Restore, RestoreFails, ReadBack, EditorCloses, EditorFails, Describe,
           DescribeFails, RebaseList, RebaseRead, RebaseSkips, RebaseWorktree, RebaseMerge,
           RebaseWrite, RebaseWriteFails, RebaseEnds, Exit, Goto, TypeOK, locals
    <3>2. pc[c] # "done"
      BY <1>0, <1>1, Departures
    <3> QED BY <1>1, <2>2, <3>1, <3>2 DEF ExitInv
  <2> QED BY <2>1, <2>2
<1>2. CASE Edit \/ Stage \/ Commit \/ Rm \/ UNCHANGED vars
  BY <1>2 DEF Edit, Stage, Commit, Rm, vars, ExitInv
<1> QED BY <1>1, <1>2 DEF Next, AllDone, Acts, ExitInv

LEMMA ApplyStep ==
  ASSUME Serial, SInv, ApplyInv, NEW c \in Commands, Acts(c),
         pc'[c] \in Rebasing, ~failed'[c], work' = head'
  PROVE  /\ \A n \in Listed' : \/ n \in todo'[c]
                               \/ pc'[c] # "listing" /\ n = num'[c]
                               \/ Applies(files'[n], head')
         /\ pc'[c] \in {"merging", "merged"} =>
              loc'[c].diff \cap head' = {} /\ Context(loc'[c].diff, head') = loc'[c].ctx
         /\ pc'[c] = "merged" => loc'[c].diff # {}
<1> USE DEF Rebasing
<1>0. TypeOK /\ NumInv /\ RebaseInv
  BY DEF SInv, GInv
<1>1. CASE RebaseList(c)
  BY <1>0, <1>1 DEF RebaseList, Exit, Goto, TypeOK, store, Listed
<1>2. CASE RebaseRead(c)
  <2>1. PICK n \in Listed : /\ num' = [num EXCEPT ![c] = n]
                            /\ todo' = [todo EXCEPT ![c] = @ \ {n}]
                            /\ pc' = [pc EXCEPT ![c] = "checking"] /\ failed' = failed
    BY <1>0, <1>2 DEF RebaseRead, Exit, Goto, TypeOK
  <2>2. files' = files /\ head' = head /\ work' = work /\ pc[c] = "listing"
    BY <1>2 DEF RebaseRead, store, trees
  <2> QED BY <1>0, <2>1, <2>2 DEF ApplyInv, TypeOK, Listed
<1>3. CASE RebaseSkips(c)
  <2>1. /\ files' = files /\ head' = head /\ work' = work /\ todo' = todo
        /\ pc'[c] = "listing" /\ pc[c] = "checking"
    BY <1>0, <1>3 DEF RebaseSkips, Goto, TypeOK, store, trees
  <2>2. Applies(loc[c], work) /\ ~failed[c]
    BY <1>0, <1>3 DEF RebaseSkips, TypeOK
  <2>3. Applies(files[num[c]], head)
    BY <1>0, <2>1, <2>2 DEF RebaseInv
  <2> QED BY <2>1, <2>2, <2>3 DEF ApplyInv, Listed
<1>4. CASE RebaseWorktree(c)
  <2>1. /\ files' = files /\ head' = head /\ work' = work /\ todo' = todo /\ num' = num
        /\ pc[c] = "checking"
    BY <1>4 DEF RebaseWorktree, trees
  <2>2. /\ loc' = [loc EXCEPT ![c] = DiffOf(@.diff \ head, head)]
        /\ pc'[c] = "merging" /\ failed' = failed
    BY <1>0, <1>4 DEF RebaseWorktree, Goto, TypeOK
  <2>3. loc'[c].diff = loc[c].diff \ head /\ loc'[c].ctx = Context(loc[c].diff \ head, head)
    BY <1>0, <2>2 DEF TypeOK, DiffOf
  <2>4. \A n \in Listed : n \in todo[c] \/ n = num[c] \/ Applies(files[n], head)
    BY <2>1, <2>2 DEF ApplyInv
  <2>5. loc'[c].diff \cap head = {} /\ Context(loc'[c].diff, head) = loc'[c].ctx
    BY <2>3
  <2> QED BY <2>1, <2>2, <2>4, <2>5 DEF Listed
<1>5. CASE RebaseMerge(c)
  <2>1. /\ files' = files /\ head' = head /\ work' = work /\ todo' = todo /\ num' = num
        /\ loc' = loc /\ pc[c] = "merging"
    BY <1>5 DEF RebaseMerge, trees
  <2>2. loc[c].diff # {} /\ pc'[c] = "merged" /\ failed' = failed
    BY <1>0, <1>5 DEF RebaseMerge, Goto, TypeOK
  <2> QED BY <2>1, <2>2 DEF ApplyInv, Listed
<1>6. CASE RebaseWrite(c)
  <2>1. /\ files' = [files EXCEPT ![num[c]] = loc[c]] /\ head' = head /\ work' = work
        /\ todo' = todo /\ num' = num /\ failed' = failed
        /\ pc'[c] = "listing" /\ pc[c] = "merged" /\ num[c] \in Nums
    BY <1>0, <1>6 DEF RebaseWrite, Goto, TypeOK, trees, locals, NumInv, Numbered
  <2>2. /\ Applies(loc[c], head)
        /\ \A n \in Listed : n \in todo[c] \/ n = num[c] \/ Applies(files[n], head)
    BY <2>1 DEF ApplyInv, Applies
  <2>3. \A n \in Nums : files'[n] = IF n = num[c] THEN loc[c] ELSE files[n]
    BY <1>0, <2>1 DEF TypeOK
  <2> QED BY <2>1, <2>2, <2>3 DEF Listed
<1> QED BY <1>0, <1>1, <1>2, <1>3, <1>4, <1>5, <1>6, Arrivals

LEMMA ApplyInvStep ==
  ASSUME Serial, SInv, ApplyInv, [Next]_vars
  PROVE  ApplyInv'
<1>0. TypeOK /\ AloneInv
  BY DEF SInv, GInv
<1>1. ASSUME NEW c \in Commands, Acts(c), NEW d \in Commands, pc'[d] \in Rebasing
      PROVE  d = c
  <2>1. ASSUME d # c PROVE FALSE
    <3>1. pc[d] \in Rebasing
      BY <1>0, <1>1, <2>1, OthersStay DEF Acts
    <3>2. pc[c] # "describing"
      BY <1>0, <3>1 DEF AloneInv
    <3> QED BY <1>1, <2>1, <3>1, <3>2, InFront DEF Foreground, Rebasing
  <2> QED BY <2>1
<1>2. ASSUME NEW c \in Commands, Acts(c) PROVE ApplyInv'
  BY <1>1, <1>2, ApplyStep DEF ApplyInv
<1>3. CASE Edit \/ Stage \/ Commit \/ Rm
  <2>1. pc' = pc /\ \A c \in Commands : ~Foreground(c)
    BY <1>3 DEF Edit, Stage, Commit, Rm, MayStart, Quiet, UserWorks, Serial
  <2> QED BY <2>1 DEF ApplyInv, Foreground, Rebasing
<1>4. CASE UNCHANGED vars
  BY <1>4 DEF vars, trees, store, locals, ApplyInv, Listed
<1> QED BY <1>2, <1>3, <1>4 DEF Next, AllDone, Acts

\* Under the same condition, exit code 0 of "muzoo rebase" in a working tree that equals
\* HEAD means that every patch applies to HEAD (cmd_rebase.go:66-94). It says nothing of
\* other working trees, against which OK is decided.
THEOREM RebasedPatchesApply ==
  ASSUME Serial
  PROVE  Spec => RebasedApplies
<1>1. Init => SInv /\ ExitInv /\ ApplyInv
  BY InitSInv, InitApply
<1>2. SInv /\ ExitInv /\ ApplyInv /\ [Next]_vars => SInv' /\ ExitInv' /\ ApplyInv'
  BY SInvStep, ExitStep, ApplyInvStep
<1>3. SInv /\ ExitInv /\ ApplyInv /\ [Next]_vars =>
        [\A c \in Commands : pc[c] = "listing" /\ exit'[c] = 0 /\ work = head
           => \A n \in Listed : Applies(files[n], head)]_vars
  <2> SUFFICES ASSUME SInv, ExitInv, ApplyInv, [Next]_vars, NEW c \in Commands,
                      pc[c] = "listing", exit'[c] = 0, work = head
               PROVE  \A n \in Listed : Applies(files[n], head)
    OBVIOUS
  <2>0. TypeOK
    BY DEF SInv, GInv
  <2>1. exit'[c] # exit[c]
    BY DEF ExitInv
  <2>2. Acts(c)
    <3>1. \A d \in Commands : Acts(d) => d = c
      BY <2>0, <2>1, OthersStay DEF Acts
    <3> QED BY <2>1, <3>1 DEF Next, AllDone, Acts, Edit, Stage, Commit, Rm, locals, vars
  <2>3. RebaseEnds(c) /\ ~failed[c]
    BY <2>0, <2>1, <2>2 DEF Acts, Capture, Rebase, Crash, CaptureDiff, CaptureNumber,
         CaptureWrite, CaptureFails, Restore, RestoreFails, ReadBack, EditorCloses, EditorFails,
         Describe, DescribeFails, RebaseList, RebaseRead, RebaseSkips, RebaseWorktree,
         RebaseMerge, RebaseWrite, RebaseWriteFails, RebaseEnds, Starts, Exit, TypeOK, locals
  <2>4. todo[c] = {}
    BY <2>3 DEF RebaseEnds
  <2> QED BY <2>3, <2>4 DEF ApplyInv, Rebasing
<1> QED BY <1>1, <1>2, <1>3, PTL DEF Spec, RebasedApplies

=============================================================================
