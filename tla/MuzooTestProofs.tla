-------------------------- MODULE MuzooTestProofs --------------------------
(***************************************************************************)
(* Proofs about MuzooTest, for any number of mutations, worker slots and   *)
(* commits, and for any choice of options and debris.                      *)
(***************************************************************************)

EXTENDS MuzooTest, TLAPS

USE JobsAssumption, PatchAssumption, HeadAssumption, OptionAssumption, DebrisAssumption

-----------------------------------------------------------------------------
(* The inductive invariant, in named parts                                 *)

\* A goroutine has a slot exactly between its receive from sem and its return.
Holding  == UnderTest \cup {"holding", "clean", "returning"}
SlotHeld == \A p \in Patches : slot[p] # NoSlot <=> pc[p] \in Holding

\* Goroutines run in the phase "mutate" only, the sanity run before it.
PhaseInv ==
  /\ exit = -1 <=> phase # "exited"
  /\ pc[Baseline] \in {"running", "dead", "waited"} => phase = "baseline"
  /\ phase = "worktrees" => pc[Baseline] = "idle"
  /\ \A p \in Patches :
       /\ phase \in {"worktrees", "baseline", "validate"} => pc[p] = "idle"
       /\ phase = "mutate" => pc[p] # "idle"
       /\ phase = "collected" => pc[p] = "done"
       /\ phase = "exited" => pc[p] \in {"idle", "done"}

\* TestedAlone, and what resetWorktree establishes for it.
AloneInv ==
  /\ TestedAlone
  /\ \A p \in Patches : pc[p] = "clean" =>
       wt[slot[p]].applied = {} /\ "tracked" \notin wt[slot[p]].debris

\* What each point of a goroutine knows of its test process and of its verdict.
Outcome(p) ==
  /\ pc[p] \in {"idle", "waiting", "holding", "clean", "patched"} => proc[p] = "none"
  /\ pc[p] \in {"returning", "done"} <=> ended[p] # "none"
  /\ pc[p] = "running" => proc[p] = "running"
  /\ pc[p] = "dead" => proc[p] \in {"pass", "fail", "infra", "killed"}
  /\ proc[p] = "killed" => ctxDone \/ fired[p] \/ oom[p]
  /\ err[p] = "ExitError" => proc[p] \in {"fail", "killed"}

Decided(p) ==
  /\ ended[p] \in {"none", "failed", "gaveUp"} <=> result[p] = "zero"
  /\ ended[p] \notin {"none", "failed", "gaveUp"} => result[p] = ended[p]
  /\ ended[p] = "failed" => proc[p] = "fail"
  /\ ended[p] = "timedOut" => fired[p]
  /\ ended[p] = "oomKilled" => oom[p]
  /\ ended[p] = "gaveUp" => ctxDone

OutcomeInv == \A p \in Patches : Outcome(p) /\ Decided(p)

\* Exit codes 0 and 1 are reached with every goroutine done and no cancellation.
ReportInv ==
  /\ exit \in {0, 1} => ~ctxDone /\ \A p \in Patches : pc[p] = "done"
  /\ exit = 0 => \A p \in Patches : Label(p) \notin {"ERROR", "SURVIVED"}
  /\ exit = 1 => \E p \in Patches : Label(p) \in {"ERROR", "SURVIVED"}

-----------------------------------------------------------------------------
(* Type correctness                                                        *)

LEMMA SlotFacts == 0 \in Slots /\ NoSlot \notin Slots /\ Slots \subseteq Int
BY DEF Slots, NoSlot

LEMMA TreeOfType ==
  ASSUME NEW c \in Commits \cup {-1}, NEW a \in SUBSET Patches, NEW d \in SUBSET Debris
  PROVE  TreeOf(c, a, d) \in Tree
BY DEF Tree, TreeOf

LEMMA TreeFields ==
  ASSUME NEW t \in Tree
  PROVE  t.base \in Commits \cup {-1} /\ t.applied \in SUBSET Patches /\ t.debris \in SUBSET Debris
BY DEF Tree

LEMMA TreeFacts ==
  /\ NoTree \in Tree
  /\ \A c \in Commits : FreshTree(c) \in Tree
  /\ \A t \in Tree : ResetTree(t) \in Tree /\ Littered(t) \subseteq Tree
<1>1. NoTree \in Tree
  BY DEF Tree, NoTree
<1>2. ASSUME NEW c \in Commits PROVE FreshTree(c) \in Tree
  BY TreeOfType DEF FreshTree
<1>3. ASSUME NEW t \in Tree PROVE ResetTree(t) \in Tree
  <2>1. t.debris \cap {"ignored"} \in SUBSET Debris
    BY TreeFields
  <2> QED
    BY <2>1, TreeOfType, TreeFields DEF ResetTree
<1>4. ASSUME NEW t \in Tree PROVE Littered(t) \subseteq Tree
  <2>1. ASSUME NEW d \in SUBSET TestDebris
        PROVE  TreeOf(t.base, t.applied, t.debris \cup d) \in Tree
    <3>1. t.debris \cup d \in SUBSET Debris
      BY TreeFields
    <3> QED
      BY <3>1, TreeOfType, TreeFields
  <2> QED
    BY <2>1 DEF Littered
<1> QED
  BY <1>1, <1>2, <1>3, <1>4

LEMMA InitType == Init => TypeOK
<1> SUFFICES ASSUME Init PROVE TypeOK
  OBVIOUS
<1>1. {NoTree} \cup Leftover \subseteq Tree
  <2>1. ASSUME NEW a \in {{}} \cup { {p} : p \in Patches }, NEW d \in SUBSET TestDebris
        PROVE  TreeOf(0, a, d) \in Tree
    <3>1. 0 \in Commits /\ a \in SUBSET Patches /\ d \in SUBSET Debris
      BY DEF Commits
    <3> QED
      BY <3>1, TreeOfType
  <2> QED
    BY <2>1, TreeFacts DEF Leftover
<1>2. wt \in [Slots -> Tree] /\ ranIn \in [Runs -> Tree]
  BY <1>1 DEF Init
<1>3. /\ phase \in Phases /\ sig \in {"none", "sent", "taken"} /\ ctxDone \in BOOLEAN
      /\ free \in SUBSET Slots
  BY DEF Init, Phases
<1>6. exit \in -1..2 /\ head \in Commits /\ built \in 0..Jobs /\ timeout \in BOOLEAN
  BY DEF Init, Commits
<1>4. /\ pc \in [Runs -> PCs] /\ slot \in [Runs -> Slots \cup {NoSlot}] /\ proc \in [Runs -> Procs]
      /\ fired \in [Runs -> BOOLEAN] /\ oom \in [Runs -> BOOLEAN] /\ err \in [Runs -> Errs]
  BY DEF Init, PCs, Procs, Errs
<1>5. result \in [Patches -> Flags] /\ ended \in [Patches -> Ends]
  BY DEF Init, Flags, Ends
<1> QED
  BY <1>2, <1>3, <1>4, <1>5, <1>6 DEF TypeOK

LEMMA LaunchType ==
  ASSUME TypeOK, NEW r \in Runs, NEW s \in Slots, Launch(r, s)
  PROVE  /\ pc' \in [Runs -> PCs] /\ proc' \in [Runs -> Procs] /\ ranIn' \in [Runs -> Tree]
         /\ fired' \in [Runs -> BOOLEAN] /\ err' \in [Runs -> Errs] /\ oom' = oom
<1>1. pc' \in [Runs -> PCs]
  BY DEF Launch, TypeOK, PCs
<1>2. proc' \in [Runs -> Procs] /\ ranIn' \in [Runs -> Tree]
  BY DEF Launch, TypeOK, Procs
<1>3. fired' \in [Runs -> BOOLEAN] /\ err' \in [Runs -> Errs] /\ oom' = oom
  BY DEF Launch, TypeOK, Errs
<1> QED
  BY <1>1, <1>2, <1>3

LEMMA MainType == TypeOK /\ Main => TypeOK'
<1> SUFFICES ASSUME TypeOK, Main PROVE TypeOK'
  OBVIOUS
<1> USE DEF TypeOK, Exit, cmdVars, ctlVars, runVars, doneVars
<1>1. CASE SetUpWorktree
  <2>1. built \in Slots /\ built + 1 \in 0..Jobs
    BY <1>1 DEF SetUpWorktree, Slots
  <2>2. ReusedTree(wt[built]) \in Tree
    BY <2>1, TreeFacts DEF ReusedTree, TreeOf, Tree, Commits
  <2>3. wt' \in [Slots -> Tree]
    BY <1>1, <2>1, <2>2, TreeFacts DEF SetUpWorktree
  <2> QED
    BY <1>1, <2>1, <2>3 DEF SetUpWorktree
<1>2. CASE SetUpFails
  <2>1. built \in Slots
    BY <1>2 DEF SetUpFails, Slots
  <2>2. wt' \in [Slots -> Tree]
    BY <1>2, <2>1, TreeFacts DEF SetUpFails
  <2> QED
    BY <1>2, <2>2 DEF SetUpFails, Phases
<1>3. CASE StartBaseline
  <2>1. Baseline \in Runs /\ 0 \in Slots
    BY SlotFacts DEF Runs
  <2>2. Launch(Baseline, 0)
    BY <1>3 DEF StartBaseline
  <2> QED
    BY <1>3, <2>1, <2>2, LaunchType DEF StartBaseline, Phases
<1>4. CASE EndBaseline
  BY <1>4 DEF EndBaseline, Phases, PCs, Runs
<1>5. CASE ValidatePatches
  <2>1. pc' \in [Runs -> PCs]
    BY <1>5 DEF ValidatePatches, PCs
  <2>2. phase' \in Phases /\ free' \in SUBSET Slots
    BY <1>5 DEF ValidatePatches, Phases
  <2>3. /\ UNCHANGED <<exit, built, sig, ctxDone, head, timeout>>
        /\ UNCHANGED <<proc, fired, oom, err, result, ended, wt, slot, ranIn>>
    BY <1>5 DEF ValidatePatches
  <2>4. /\ exit' \in -1..2 /\ built' \in 0..Jobs /\ ctxDone' \in BOOLEAN /\ timeout' \in BOOLEAN
        /\ sig' \in {"none", "sent", "taken"} /\ head' \in Commits
    BY <2>3
  <2>5. /\ fired' \in [Runs -> BOOLEAN] /\ oom' \in [Runs -> BOOLEAN]
        /\ proc' \in [Runs -> Procs] /\ err' \in [Runs -> Errs]
    BY <2>3
  <2>6. /\ wt' \in [Slots -> Tree] /\ slot' \in [Runs -> Slots \cup {NoSlot}]
        /\ ranIn' \in [Runs -> Tree] /\ result' \in [Patches -> Flags] /\ ended' \in [Patches -> Ends]
    BY <2>3
  <2> QED
    BY <2>1, <2>2, <2>4, <2>5, <2>6
<1>6. CASE ValidationFails
  BY <1>6 DEF ValidationFails, Phases
<1>7. CASE Collect
  BY <1>7 DEF Collect, Phases
<1>8. CASE Summarise
  BY <1>8 DEF Summarise, Phases
<1> QED
  BY <1>1, <1>2, <1>3, <1>4, <1>5, <1>6, <1>7, <1>8 DEF Main

LEMMA ProcessType ==
  ASSUME TypeOK, NEW r \in Runs, Process(r)
  PROVE  TypeOK'
<1> USE DEF TypeOK, cmdVars, ctlVars, doneVars
<1>0. ASSUME NEW s \in Slots \cup {NoSlot},
             \E t \in Littered(wt[s]) : wt' = [wt EXCEPT ![s] = t]
      PROVE  wt' \in [Slots -> Tree]
  <2>1. PICK t \in Littered(wt[s]) : wt' = [wt EXCEPT ![s] = t]
    BY <1>0
  <2>2. CASE s \in Slots
    <3>1. wt \in [Slots -> Tree] /\ wt[s] \in Tree
      BY <2>2
    <3>2. t \in Tree
      BY <2>1, <3>1, TreeFacts
    <3> QED
      BY <2>1, <3>1, <3>2
  <2>3. CASE s = NoSlot
    BY <2>1, <2>3, SlotFacts
  <2> QED
    BY <1>0, <2>2, <2>3
<1>1. CASE ProcessEnds(r)
  BY <1>0, <1>1 DEF ProcessEnds, PCs, Procs
<1>2. CASE DeadlinePasses(r)
  BY <1>2 DEF DeadlinePasses
<1>3. CASE ContextKills(r)
  BY <1>0, <1>3 DEF ContextKills, PCs, Procs
<1>4. CASE MonitorFires(r)
  BY <1>4 DEF MonitorFires
<1>5. CASE MonitorKills(r)
  BY <1>0, <1>5 DEF MonitorKills, PCs, Procs
<1>6. CASE WaitReturns(r)
  <2>1. WaitErrors(r) \subseteq Errs
    BY DEF WaitErrors, Errs
  <2> QED
    BY <1>6, <2>1 DEF WaitReturns, PCs
<1> QED
  BY <1>1, <1>2, <1>3, <1>4, <1>5, <1>6 DEF Process

LEMMA GoroutineType ==
  ASSUME TypeOK, SlotHeld, NEW p \in Patches, Goroutine(p)
  PROVE  TypeOK'
<1> USE DEF TypeOK, cmdVars, ctlVars, runVars, doneVars
<1>0. p \in Runs /\ (pc[p] \in Holding => slot[p] \in Slots)
  BY DEF Runs, SlotHeld
<1>1. CASE Acquire(p)
  BY <1>0, <1>1 DEF Acquire, PCs
<1>2. CASE GiveUp(p)
  BY <1>0, <1>2 DEF GiveUp, PCs, Ends
<1>3. CASE Reset(p)
  <2>1. wt' \in [Slots -> Tree]
    BY <1>3, TreeFacts DEF Reset
  <2> QED
    BY <1>0, <1>3, <2>1 DEF Reset, PCs
<1>4. CASE ResetFails(p)
  <2>1. \A t \in Tree : TreeOf(t.base, {}, t.debris) \in Tree
    BY DEF Tree, TreeOf
  <2>2. wt' \in [Slots -> Tree]
    BY <1>4, <2>1 DEF ResetFails
  <2> QED
    BY <1>0, <1>4, <2>2 DEF ResetFails, Finish, PCs, Flags, Ends
<1>5. CASE Apply(p)
  <2>1. \A t \in Tree : TreeOf(t.base, t.applied \cup {p}, t.debris) \in Tree
    BY DEF Tree, TreeOf
  <2>2. wt' \in [Slots -> Tree]
    BY <1>5, <2>1 DEF Apply
  <2> QED
    BY <1>0, <1>5, <2>2 DEF Apply, PCs
<1>6. CASE ApplyFails(p)
  BY <1>0, <1>6 DEF ApplyFails, Finish, PCs, Flags, Ends
<1>7. CASE StartTest(p)
  <2>1. slot[p] \in Slots
    BY <1>0, <1>7 DEF StartTest, Holding, UnderTest
  <2> QED
    BY <1>0, <1>7, <2>1, LaunchType DEF StartTest
<1>8. CASE Judge(p)
  BY <1>0, <1>8 DEF Judge, Finish, PCs, Flags, Ends
<1>9. CASE Return(p)
  BY <1>0, <1>9 DEF Return, PCs, Holding
<1> QED
  BY <1>1, <1>2, <1>3, <1>4, <1>5, <1>6, <1>7, <1>8, <1>9 DEF Goroutine

LEMMA NextType == TypeOK /\ SlotHeld /\ [Next]_vars => TypeOK'
<1> SUFFICES ASSUME TypeOK, SlotHeld, [Next]_vars PROVE TypeOK'
  OBVIOUS
<1>1. CASE Interrupt
  BY <1>1 DEF Interrupt, TypeOK, cmdVars, runVars, doneVars
<1>2. CASE CancelContext
  BY <1>2 DEF CancelContext, TypeOK, cmdVars, runVars, doneVars
<1>3. CASE Commit
  BY <1>3 DEF Commit, Commits, TypeOK, cmdVars, runVars, doneVars
<1>4. CASE UNCHANGED vars
  BY <1>4 DEF vars, TypeOK, cmdVars, ctlVars, runVars, doneVars
<1> QED
  BY <1>1, <1>2, <1>3, <1>4, MainType, ProcessType, GoroutineType DEF Next, Terminated

-----------------------------------------------------------------------------
(* Phases and slots                                                        *)

\* What a step of the test process of r may change in pc, and that it leaves the
\* control of the command and the slots alone.
LEMMA ProcessFrame ==
  ASSUME TypeOK, NEW r \in Runs, Process(r)
  PROVE  /\ UNCHANGED <<phase, exit, built, sig, ctxDone, head, free, slot, ranIn, result, ended>>
         /\ pc' = pc \/ /\ pc[r] \in {"running", "dead"}
                        /\ pc' = [pc EXCEPT ![r] = IF pc[r] = "running" THEN "dead" ELSE "waited"]
BY DEF Process, ProcessEnds, DeadlinePasses, ContextKills, MonitorFires, MonitorKills,
       WaitReturns, TypeOK, cmdVars, ctlVars, doneVars

\* A goroutine leaves the control of the command and every other goroutine alone.
LEMMA GoroutineFrame ==
  ASSUME TypeOK, NEW p \in Patches, Goroutine(p)
  PROVE  /\ UNCHANGED <<phase, exit, built, sig, ctxDone, head>>
         /\ pc[p] \notin {"idle", "done"}
         /\ \E c \in PCs \ {"idle"} : pc' = [pc EXCEPT ![p] = c]
<1> USE DEF cmdVars, ctlVars, PCs
<1>1. CASE Acquire(p) \/ GiveUp(p)
  BY <1>1 DEF Acquire, GiveUp
<1>2. CASE Reset(p) \/ ResetFails(p)
  BY <1>2 DEF Reset, ResetFails, Finish
<1>3. CASE Apply(p) \/ ApplyFails(p)
  BY <1>3 DEF Apply, ApplyFails, Finish
<1>4. CASE StartTest(p)
  BY <1>4 DEF StartTest, Launch
<1>5. CASE Judge(p)
  BY <1>5 DEF Judge, Finish
<1>6. CASE Return(p)
  BY <1>6 DEF Return
<1> QED
  BY <1>1, <1>2, <1>3, <1>4, <1>5, <1>6 DEF Goroutine

LEMMA NextPhase == TypeOK /\ PhaseInv /\ [Next]_vars => PhaseInv'
<1> SUFFICES ASSUME TypeOK, PhaseInv, [Next]_vars PROVE PhaseInv'
  OBVIOUS
<1>0. Baseline \in Runs /\ Patches \subseteq Runs /\ Baseline \notin Patches
  BY DEF Runs
<1> USE DEF PhaseInv, Exit, cmdVars, ctlVars
<1>1. CASE SetUpWorktree \/ SetUpFails
  BY <1>0, <1>1 DEF SetUpWorktree, SetUpFails
<1>2. CASE StartBaseline
  BY <1>0, <1>2 DEF StartBaseline, Launch, TypeOK
<1>3. CASE EndBaseline
  BY <1>0, <1>3 DEF EndBaseline, TypeOK
<1>4. CASE ValidatePatches \/ ValidationFails
  BY <1>0, <1>4 DEF ValidatePatches, ValidationFails, TypeOK
<1>5. CASE Collect \/ Summarise
  BY <1>0, <1>5 DEF Collect, Summarise
<1>6. CASE Interrupt \/ CancelContext \/ Commit \/ UNCHANGED vars
  BY <1>0, <1>6 DEF Interrupt, CancelContext, Commit, vars
<1>7. ASSUME NEW r \in Runs, Process(r) PROVE PhaseInv'
  <2>1. UNCHANGED <<phase, exit>>
    BY <1>7, ProcessFrame
  <2>2. CASE pc' = pc
    BY <2>1, <2>2
  <2>3. CASE pc[r] \in {"running", "dead"} /\
             pc' = [pc EXCEPT ![r] = IF pc[r] = "running" THEN "dead" ELSE "waited"]
    BY <1>0, <2>1, <2>3 DEF TypeOK
  <2> QED
    BY <1>7, <2>2, <2>3, ProcessFrame
<1>8. ASSUME NEW p \in Patches, Goroutine(p) PROVE PhaseInv'
  <2>1. UNCHANGED <<phase, exit>> /\ phase = "mutate"
    BY <1>8, GoroutineFrame DEF TypeOK, Phases
  <2>2. PICK c \in PCs \ {"idle"} : pc' = [pc EXCEPT ![p] = c]
    BY <1>8, GoroutineFrame
  <2> QED
    BY <1>0, <2>1, <2>2 DEF TypeOK
<1> QED
  BY <1>1, <1>2, <1>3, <1>4, <1>5, <1>6, <1>7, <1>8 DEF Next, Main, Terminated

LEMMA NextSlots ==
  TypeOK /\ PhaseInv /\ SlotHeld /\ SlotsExclusive /\ [Next]_vars
    => SlotHeld' /\ SlotsExclusive'
<1> SUFFICES ASSUME TypeOK, PhaseInv, SlotHeld, SlotsExclusive, [Next]_vars
             PROVE  SlotHeld' /\ SlotsExclusive'
  OBVIOUS
<1>0. Baseline \in Runs /\ Patches \subseteq Runs /\ Baseline \notin Patches
  BY DEF Runs
<1> USE DEF SlotHeld, SlotsExclusive, Holding, UnderTest, Exit, cmdVars, ctlVars
<1>1. CASE SetUpWorktree \/ SetUpFails
  BY <1>1 DEF SetUpWorktree, SetUpFails, PhaseInv
<1>2. CASE StartBaseline
  BY <1>0, <1>2 DEF StartBaseline, Launch, TypeOK, PhaseInv
<1>3. CASE EndBaseline
  BY <1>0, <1>3 DEF EndBaseline, TypeOK, PhaseInv
<1>4. CASE ValidatePatches
  <2>1. \A p \in Patches : slot[p] = NoSlot /\ slot'[p] = NoSlot /\ pc'[p] = "waiting"
    BY <1>0, <1>4 DEF ValidatePatches, TypeOK, PhaseInv
  <2>2. SlotHeld'
    BY <2>1
  <2>3. phase' = "mutate" /\ free' = Slots
    BY <1>4 DEF ValidatePatches
  <2>4. Slots = Slots \ { slot'[p] : p \in Patches }
    BY <2>1, SlotFacts
  <2>5. \A p, q \in Patches : ~(slot'[p] # NoSlot /\ slot'[p] = slot'[q])
    BY <2>1
  <2>6. SlotsExclusive'
    BY <2>3, <2>4, <2>5
  <2> QED
    BY <2>2, <2>6
<1>9. CASE ValidationFails
  BY <1>9 DEF ValidationFails
<1>5. CASE Collect \/ Summarise
  BY <1>5 DEF Collect, Summarise
<1>6. CASE Interrupt \/ CancelContext \/ Commit \/ UNCHANGED vars
  BY <1>6 DEF Interrupt, CancelContext, Commit, vars
<1>7. ASSUME NEW r \in Runs, Process(r) PROVE SlotHeld' /\ SlotsExclusive'
  <2>1. UNCHANGED <<phase, free, slot>>
    BY <1>7, ProcessFrame
  <2>2. \A q \in Patches : pc'[q] \in Holding <=> pc[q] \in Holding
    <3>1. CASE pc' = pc
      BY <3>1
    <3>2. CASE pc[r] \in {"running", "dead"} /\
               pc' = [pc EXCEPT ![r] = IF pc[r] = "running" THEN "dead" ELSE "waited"]
      BY <1>0, <3>2 DEF TypeOK
    <3> QED
      BY <1>7, <3>1, <3>2, ProcessFrame
  <2>3. SlotHeld'
    BY <1>0, <2>1, <2>2
  <2>4. SlotsExclusive'
    BY <2>1
  <2> QED
    BY <2>3, <2>4
<1>8. ASSUME NEW p \in Patches, Goroutine(p) PROVE SlotHeld' /\ SlotsExclusive'
  <2>0. p \in Runs /\ phase = "mutate" /\ UNCHANGED phase
    BY <1>0, <1>8, GoroutineFrame DEF TypeOK, Phases, PhaseInv
  <2>1. CASE Acquire(p)
    <3>1. PICK s \in free : free' = free \ {s} /\ slot' = [slot EXCEPT ![p] = s]
      BY <2>1 DEF Acquire
    <3>2. s \in Slots /\ s # NoSlot /\ slot[p] = NoSlot
      BY <2>1, <3>1, SlotFacts DEF TypeOK, Acquire
    <3>3. SlotHeld'
      BY <2>0, <2>1, <3>1, <3>2 DEF TypeOK, Acquire
    <3>4. \A q \in Patches : slot[q] # s
      BY <2>0, <3>1
    <3>5. \A q \in Patches : slot'[q] = IF q = p THEN s ELSE slot[q]
      BY <1>0, <3>1 DEF TypeOK
    <3>6. \A q, r \in Patches : slot'[q] # NoSlot /\ slot'[q] = slot'[r] => q = r
      BY <3>4, <3>5
    <3>7. \A x \in Slots : (\E q \in Patches : slot'[q] = x)
                             <=> x = s \/ \E q \in Patches : slot[q] = x
      BY <3>2, <3>5, SlotFacts
    <3>8. free' = Slots \ { slot'[q] : q \in Patches }
      BY <2>0, <3>1, <3>7
    <3>9. SlotsExclusive'
      BY <2>0, <3>6, <3>8
    <3> QED
      BY <3>3, <3>9
  <2>2. CASE Return(p)
    <3>1. slot[p] \in Slots
      BY <2>0, <2>2 DEF TypeOK, Return
    <3>2. SlotHeld'
      BY <2>0, <2>2 DEF TypeOK, Return
    <3>3. SlotsExclusive'
      BY <1>0, <2>0, <2>2, <3>1, SlotFacts DEF TypeOK, Return
    <3> QED
      BY <3>2, <3>3
  <2>3. CASE GiveUp(p)
    BY <1>0, <2>0, <2>3 DEF TypeOK, GiveUp
  <2>4. CASE Reset(p) \/ ResetFails(p)
    BY <1>0, <2>0, <2>4 DEF TypeOK, Reset, ResetFails, Finish
  <2>5. CASE Apply(p) \/ ApplyFails(p)
    BY <1>0, <2>0, <2>5 DEF TypeOK, Apply, ApplyFails, Finish
  <2>6. CASE StartTest(p)
    BY <1>0, <2>0, <2>6 DEF TypeOK, StartTest, Launch
  <2>7. CASE Judge(p)
    BY <1>0, <2>0, <2>7 DEF TypeOK, Judge, Finish
  <2> QED
    BY <1>8, <2>1, <2>2, <2>3, <2>4, <2>5, <2>6, <2>7 DEF Goroutine
<1> QED
  BY <1>1, <1>2, <1>3, <1>4, <1>5, <1>6, <1>7, <1>8, <1>9 DEF Next, Main, Terminated

LEMMA InitSlots == Init => PhaseInv /\ SlotHeld /\ SlotsExclusive
BY DEF Init, PhaseInv, SlotHeld, SlotsExclusive, Holding, UnderTest, Runs

Pool == TypeOK /\ PhaseInv /\ SlotHeld /\ SlotsExclusive

LEMMA PoolInvariant == Spec => []Pool
<1>1. Init => Pool
  BY InitType, InitSlots DEF Pool
<1>2. Pool /\ [Next]_vars => Pool'
  BY NextType, NextPhase, NextSlots DEF Pool
<1> QED
  BY <1>1, <1>2, PTL DEF Spec

\* Every variable of the command keeps its type.
THEOREM TypeCorrect == Spec => []TypeOK
BY PoolInvariant, PTL DEF Pool

\* For any number of mutations and slots, no two goroutines share a worktree, and
\* no slot is lost: what the channel sem of cmd_testing.go:199-202 is there for.
THEOREM SlotExclusion == Spec => []SlotsExclusive
BY PoolInvariant, PTL DEF Pool

-----------------------------------------------------------------------------
(* Each mutation is tested alone                                           *)

\* Whoever steps, a worktree changes only by the goroutine, or by the test process,
\* that holds its slot; a test process leaves commit and patches as they are.
LEMMA ProcessTree ==
  ASSUME TypeOK, NEW r \in Runs, Process(r)
  PROVE  /\ \A s \in Slots : wt'[s].base = wt[s].base /\ wt'[s].applied = wt[s].applied
         /\ \A s \in Slots : s # slot[r] => wt'[s] = wt[s]
         /\ pc[r] # "running" => wt' = wt
         /\ proc' = proc \/ (pc[r] = "running" /\ \E h \in Procs : proc' = [proc EXCEPT ![r] = h])
<1>1. CASE DeadlinePasses(r) \/ MonitorFires(r) \/ WaitReturns(r)
  BY <1>1 DEF DeadlinePasses, MonitorFires, WaitReturns
<1>2. ASSUME pc[r] = "running", \E t \in Littered(wt[slot[r]]) : wt' = [wt EXCEPT ![slot[r]] = t]
      PROVE  /\ \A s \in Slots : wt'[s].base = wt[s].base /\ wt'[s].applied = wt[s].applied
             /\ \A s \in Slots : s # slot[r] => wt'[s] = wt[s]
  <2>1. PICK t \in Littered(wt[slot[r]]) : wt' = [wt EXCEPT ![slot[r]] = t]
    BY <1>2
  <2>2. t.base = wt[slot[r]].base /\ t.applied = wt[slot[r]].applied
    BY <2>1 DEF Littered, TreeOf
  <2> QED
    BY <2>1, <2>2 DEF TypeOK
<1>3. CASE ProcessEnds(r)
  <2>1. \E h \in Procs : proc' = [proc EXCEPT ![r] = h]
    BY <1>3 DEF ProcessEnds, Procs
  <2> QED
    BY <1>2, <1>3, <2>1 DEF ProcessEnds
<1>4. CASE ContextKills(r) \/ MonitorKills(r)
  <2>1. \E h \in Procs : proc' = [proc EXCEPT ![r] = h]
    BY <1>4 DEF ContextKills, MonitorKills, Procs
  <2> QED
    BY <1>2, <1>4, <2>1 DEF ContextKills, MonitorKills
<1> QED
  BY <1>1, <1>3, <1>4 DEF Process

LEMMA GoroutineTree ==
  ASSUME TypeOK, SlotHeld, NEW p \in Patches, Goroutine(p)
  PROVE  /\ \A s \in Slots : s # slot[p] => wt'[s] = wt[s]
         /\ \A q \in Runs : q # p => proc'[q] = proc[q] /\ ranIn'[q] = ranIn[q]
<1> USE DEF TypeOK, runVars
<1>1. CASE Acquire(p) \/ GiveUp(p) \/ ApplyFails(p) \/ Judge(p) \/ Return(p)
  BY <1>1 DEF Acquire, GiveUp, ApplyFails, Judge, Return
<1>2. CASE Reset(p) \/ ResetFails(p) \/ Apply(p)
  BY <1>2 DEF Reset, ResetFails, Apply
<1>3. CASE StartTest(p)
  BY <1>3 DEF StartTest, Launch
<1> QED
  BY <1>1, <1>2, <1>3 DEF Goroutine

\* AloneInv of one mutation, so that the steps of another are seen to keep it.
Alone(p) ==
  /\ pc[p] \in UnderTest => wt[slot[p]].applied = {p}
  /\ pc[p] = "patched" => "tracked" \notin wt[slot[p]].debris
  /\ pc[p] = "clean" => wt[slot[p]].applied = {} /\ "tracked" \notin wt[slot[p]].debris
  /\ proc[p] # "none" =>
       /\ ranIn[p].applied = {p} /\ "tracked" \notin ranIn[p].debris
       /\ pc[p] \in UnderTest => ranIn[p].base = wt[slot[p]].base

LEMMA AloneParts == AloneInv <=> \A p \in Patches : Alone(p)
BY DEF AloneInv, TestedAlone, Alone

LEMMA AloneFrame ==
  ASSUME NEW q \in Patches, Alone(q),
         pc'[q] = pc[q], slot'[q] = slot[q], proc'[q] = proc[q], ranIn'[q] = ranIn[q],
         pc[q] \in UnderTest \cup {"clean"} => wt'[slot[q]] = wt[slot[q]]
  PROVE  Alone(q)'
BY DEF Alone, UnderTest

\* The steps of a goroutine on its own mutation. Outcome says that its process
\* has not been started before StartTest.
LEMMA AloneOwn ==
  ASSUME Pool, NEW p \in Patches, Alone(p), Outcome(p), Goroutine(p)
  PROVE  Alone(p)'
<1>0. p \in Runs /\ (pc[p] \in Holding => slot[p] \in Slots)
  BY DEF Runs, Pool, SlotHeld, TypeOK
<1> USE DEF Pool, TypeOK, Alone, UnderTest, runVars
<1>1. CASE Acquire(p)
  BY <1>0, <1>1 DEF Acquire, Outcome
<1>2. CASE GiveUp(p)
  BY <1>0, <1>2 DEF GiveUp, Outcome
<1>3. CASE Reset(p)
  <2>1. ResetTree(wt[slot[p]]).applied = {} /\ "tracked" \notin ResetTree(wt[slot[p]]).debris
    BY DEF ResetTree, TreeOf
  <2> QED
    BY <1>0, <1>3, <2>1 DEF Reset, Outcome, Holding
<1>4. CASE ResetFails(p)
  BY <1>0, <1>4 DEF ResetFails, Finish, Outcome
<1>5. CASE Apply(p)
  <2>1. slot[p] \in Slots
    BY <1>0, <1>5 DEF Apply, Holding
  <2>2. wt'[slot[p]] = TreeOf(wt[slot[p]].base, wt[slot[p]].applied \cup {p}, wt[slot[p]].debris)
    BY <1>5, <2>1 DEF Apply
  <2>3. wt'[slot[p]].applied = wt[slot[p]].applied \cup {p} /\ wt'[slot[p]].debris = wt[slot[p]].debris
    BY ONLY <2>2 DEF TreeOf
  <2>4. wt[slot[p]].applied = {}
    BY <1>5 DEF Apply
  <2>5. wt'[slot[p]].applied = {p}
    BY ONLY <2>3, <2>4
  <2> QED
    BY <1>0, <1>5, <2>3, <2>5 DEF Apply, Outcome
<1>6. CASE ApplyFails(p)
  BY <1>0, <1>6 DEF ApplyFails, Finish, Outcome
<1>7. CASE StartTest(p)
  BY <1>0, <1>7 DEF StartTest, Launch, Outcome
<1>8. CASE Judge(p)
  BY <1>0, <1>8 DEF Judge, Finish
<1>9. CASE Return(p)
  BY <1>0, <1>9 DEF Return
<1> QED
  BY <1>1, <1>2, <1>3, <1>4, <1>5, <1>6, <1>7, <1>8, <1>9 DEF Goroutine

LEMMA NextAlone == Pool /\ OutcomeInv /\ AloneInv /\ [Next]_vars => AloneInv'
<1> SUFFICES ASSUME Pool, OutcomeInv, AloneInv, [Next]_vars, NEW q \in Patches
             PROVE  Alone(q)'
  BY AloneParts DEF AloneInv, TestedAlone, Alone
<1>0. Alone(q) /\ Outcome(q) /\ q \in Runs /\ q # Baseline
  BY AloneParts DEF OutcomeInv, Runs
<1>a. pc[q] \in UnderTest \cup {"clean"} => slot[q] \in Slots /\ phase = "mutate"
  BY <1>0 DEF Pool, SlotHeld, Holding, TypeOK, Phases, PhaseInv, UnderTest
<1>1. CASE SetUpWorktree \/ SetUpFails
  <2>1. pc[q] = "idle"
    BY <1>1 DEF SetUpWorktree, SetUpFails, Pool, PhaseInv
  <2> QED
    BY <1>0, <1>1, <2>1, AloneFrame DEF SetUpWorktree, SetUpFails, runVars, UnderTest
<1>2. CASE StartBaseline
  <2>1. pc[q] = "idle" /\ pc'[q] = pc[q] /\ slot'[q] = slot[q] /\ proc'[q] = proc[q]
        /\ ranIn'[q] = ranIn[q]
    BY <1>0, <1>2 DEF StartBaseline, Launch, Pool, PhaseInv, TypeOK
  <2> QED
    BY <1>0, <2>1, AloneFrame DEF UnderTest
<1>3. CASE EndBaseline
  BY <1>0, <1>3, AloneFrame DEF EndBaseline, runVars, Pool, TypeOK
<1>4. CASE ValidatePatches
  <2>1. pc[q] = "idle" /\ pc'[q] = "waiting" /\ proc' = proc
    BY <1>0, <1>4 DEF ValidatePatches, runVars, Pool, PhaseInv
  <2>2. proc[q] = "none"
    BY <1>0, <2>1 DEF Outcome
  <2> QED
    BY <2>1, <2>2 DEF Alone, UnderTest
<1>5. CASE ValidationFails \/ Collect \/ Summarise
  BY <1>0, <1>5, AloneFrame DEF ValidationFails, Collect, Summarise, runVars
<1>6. CASE Interrupt \/ CancelContext \/ Commit \/ UNCHANGED vars
  BY <1>0, <1>6, AloneFrame DEF Interrupt, CancelContext, Commit, vars, runVars
<1>7. ASSUME NEW r \in Runs, Process(r) PROVE Alone(q)'
  <2>1. TypeOK /\ slot' = slot /\ ranIn' = ranIn
    BY <1>7, ProcessFrame DEF Pool
  <2>2. /\ \A s \in Slots : wt'[s].base = wt[s].base /\ wt'[s].applied = wt[s].applied
        /\ \A s \in Slots : s # slot[r] => wt'[s] = wt[s]
        /\ pc[r] # "running" => wt' = wt
        /\ proc' = proc \/ (pc[r] = "running" /\ \E h \in Procs : proc' = [proc EXCEPT ![r] = h])
    BY <1>7, ProcessTree DEF Pool
  <2>3. pc' = pc \/ /\ pc[r] \in {"running", "dead"}
                    /\ pc' = [pc EXCEPT ![r] = IF pc[r] = "running" THEN "dead" ELSE "waited"]
    BY <1>7, ProcessFrame DEF Pool
  <2>4. CASE r = q
    <3>1. proc'[q] # "none" => proc[q] # "none"
      BY <1>0, <2>2, <2>4 DEF Outcome
    <3>2. pc'[q] \in UnderTest <=> pc[q] \in UnderTest
      BY <1>0, <2>1, <2>3, <2>4 DEF UnderTest, TypeOK
    <3>3. pc'[q] \in {"patched", "clean"} => pc'[q] = pc[q] /\ pc[q] # "running"
      BY <1>0, <2>1, <2>3, <2>4 DEF TypeOK
    <3> QED
      BY <1>0, <1>a, <2>1, <2>2, <2>4, <3>1, <3>2, <3>3 DEF Alone
  <2>5. CASE r # q
    <3>1. pc'[q] = pc[q] /\ proc'[q] = proc[q]
      BY <1>0, <2>1, <2>2, <2>3, <2>5 DEF TypeOK
    <3>2. ASSUME pc[q] \in UnderTest \cup {"clean"} PROVE wt'[slot[q]] = wt[slot[q]]
      <4>1. CASE pc[r] # "running"
        BY <2>2, <4>1
      <4>2. CASE pc[r] = "running"
        <5>1. r \in Patches
          BY <1>a, <3>2, <4>2 DEF Pool, PhaseInv, Runs
        <5>2. slot[r] # slot[q]
          BY <1>a, <2>5, <3>2, <5>1, SlotFacts DEF Pool, SlotsExclusive
        <5> QED
          BY <1>a, <2>2, <3>2, <5>2
      <4> QED
        BY <4>1, <4>2
    <3> QED
      BY <1>0, <2>1, <3>1, <3>2, AloneFrame
  <2> QED
    BY <2>4, <2>5
<1>8. ASSUME NEW p \in Patches, Goroutine(p) PROVE Alone(q)'
  <2>1. CASE p = q
    BY <1>0, <1>8, <2>1, AloneOwn
  <2>2. CASE p # q
    <3>1. pc'[q] = pc[q]
      BY <1>0, <1>8, <2>2, GoroutineFrame DEF Pool, TypeOK
    <3>2. slot'[q] = slot[q]
      BY <1>0, <1>8, <2>2 DEF Goroutine, Acquire, GiveUp, Reset, ResetFails, Apply, ApplyFails,
         StartTest, Judge, Return, Pool, TypeOK
    <3>3. /\ \A s \in Slots : s # slot[p] => wt'[s] = wt[s]
          /\ proc'[q] = proc[q] /\ ranIn'[q] = ranIn[q]
      BY <1>0, <1>8, <2>2, GoroutineTree DEF Pool
    <3>4. pc[q] \in UnderTest \cup {"clean"} => wt'[slot[q]] = wt[slot[q]]
      BY <1>a, <2>2, <3>3, SlotFacts DEF Pool, SlotsExclusive
    <3> QED
      BY <1>0, <3>1, <3>2, <3>3, <3>4, AloneFrame
  <2> QED
    BY <2>1, <2>2
<1> QED
  BY <1>1, <1>2, <1>3, <1>4, <1>5, <1>6, <1>7, <1>8 DEF Next, Main, Terminated

-----------------------------------------------------------------------------
(* Verdicts and exit codes                                                 *)

LEMMA NextOutcome == Pool /\ OutcomeInv /\ [Next]_vars => OutcomeInv'
<1> SUFFICES ASSUME Pool, OutcomeInv, [Next]_vars, NEW q \in Patches
             PROVE  Outcome(q)' /\ Decided(q)'
  BY DEF OutcomeInv
<1>0. Outcome(q) /\ Decided(q) /\ q \in Runs /\ q # Baseline
  BY DEF OutcomeInv, Runs
<1> USE DEF cmdVars, ctlVars, runVars, doneVars
<1>a. ASSUME UNCHANGED <<pc[q], proc[q], fired[q], oom[q], err[q], result[q], ended[q]>>,
             ctxDone => ctxDone'
      PROVE  Outcome(q)' /\ Decided(q)'
  BY <1>0, <1>a DEF Outcome, Decided
<1>1. CASE SetUpWorktree \/ SetUpFails
  BY <1>1, <1>a DEF SetUpWorktree, SetUpFails
<1>2. CASE StartBaseline
  BY <1>0, <1>2, <1>a DEF StartBaseline, Launch, Pool, TypeOK
<1>3. CASE EndBaseline
  BY <1>0, <1>3, <1>a DEF EndBaseline, Pool, TypeOK
<1>4. CASE ValidatePatches
  <2>1. pc[q] = "idle" /\ pc'[q] = "waiting"
    BY <1>0, <1>4 DEF ValidatePatches, Pool, PhaseInv
  <2>2. UNCHANGED <<proc[q], fired[q], oom[q], err[q], result[q], ended[q], ctxDone>>
    BY <1>4 DEF ValidatePatches
  <2> QED
    BY <1>0, <2>1, <2>2 DEF Outcome, Decided
<1>5. CASE ValidationFails \/ Collect \/ Summarise
  BY <1>5, <1>a DEF ValidationFails, Collect, Summarise
<1>6. CASE Interrupt \/ CancelContext \/ Commit \/ UNCHANGED vars
  BY <1>6, <1>a DEF Interrupt, CancelContext, Commit, vars
<1>7. ASSUME NEW r \in Runs, Process(r) PROVE Outcome(q)' /\ Decided(q)'
  <2>1. CASE r # q
    BY <1>0, <1>7, <1>a, <2>1 DEF Process, ProcessEnds, DeadlinePasses, ContextKills,
       MonitorFires, MonitorKills, WaitReturns, Pool, TypeOK
  <2>2. CASE r = q
    <3> USE DEF Pool, TypeOK
    <3>1. CASE ProcessEnds(q)
      BY <1>0, <3>1 DEF ProcessEnds, Outcome, Decided
    <3>2. CASE DeadlinePasses(q)
      BY <1>0, <3>2 DEF DeadlinePasses, Outcome, Decided
    <3>3. CASE ContextKills(q)
      BY <1>0, <3>3 DEF ContextKills, Outcome, Decided
    <3>4. CASE MonitorFires(q)
      BY <1>0, <3>4 DEF MonitorFires, Outcome, Decided
    <3>5. CASE MonitorKills(q)
      BY <1>0, <3>5 DEF MonitorKills, Outcome, Decided
    <3>6. CASE WaitReturns(q)
      BY <1>0, <3>6 DEF WaitReturns, WaitErrors, Outcome, Decided
    <3> QED
      BY <1>7, <2>2, <3>1, <3>2, <3>3, <3>4, <3>5, <3>6 DEF Process
  <2> QED
    BY <2>1, <2>2
<1>8. ASSUME NEW p \in Patches, Goroutine(p) PROVE Outcome(q)' /\ Decided(q)'
  <2> USE DEF Pool, TypeOK
  <2>1. CASE p # q
    BY <1>0, <1>8, <1>a, <2>1 DEF Goroutine, Acquire, GiveUp, Reset, ResetFails, Apply,
       ApplyFails, StartTest, Launch, Judge, Finish, Return
  <2>2. CASE p = q
    <3>1. CASE Acquire(q) \/ GiveUp(q) \/ Return(q)
      BY <1>0, <3>1 DEF Acquire, GiveUp, Return, Outcome, Decided
    <3>2. CASE Reset(q) \/ Apply(q)
      BY <1>0, <3>2 DEF Reset, Apply, Outcome, Decided
    <3>3. CASE ResetFails(q) \/ ApplyFails(q)
      BY <1>0, <3>3 DEF ResetFails, ApplyFails, Finish, Outcome, Decided
    <3>4. CASE StartTest(q)
      BY <1>0, <3>4 DEF StartTest, Launch, Outcome, Decided
    <3>5. CASE Judge(q)
      <4>1. Outcome(q)'
        BY <1>0, <3>5 DEF Judge, Finish, Outcome
      <4>2. Decided(q)'
        BY <1>0, <3>5 DEF Judge, Finish, Outcome, Decided
      <4> QED
        BY <4>1, <4>2
    <3> QED
      BY <1>8, <2>2, <3>1, <3>2, <3>3, <3>4, <3>5 DEF Goroutine
  <2> QED
    BY <2>1, <2>2
<1> QED
  BY <1>1, <1>2, <1>3, <1>4, <1>5, <1>6, <1>7, <1>8 DEF Next, Main, Terminated

LEMMA NextReport == Pool /\ ReportInv /\ [Next]_vars => ReportInv'
<1> SUFFICES ASSUME Pool, ReportInv, [Next]_vars PROVE ReportInv'
  OBVIOUS
<1> USE DEF ReportInv, Label, Exit, cmdVars, ctlVars, doneVars
<1>1. CASE Summarise
  BY <1>1 DEF Summarise, Pool, PhaseInv
<1>2. CASE SetUpWorktree \/ SetUpFails \/ StartBaseline \/ EndBaseline \/ Collect
  BY <1>2 DEF SetUpWorktree, SetUpFails, StartBaseline, EndBaseline, Collect, Pool, PhaseInv
<1>3. CASE ValidatePatches \/ ValidationFails
  BY <1>3 DEF ValidatePatches, ValidationFails, Pool, PhaseInv
<1>4. CASE Interrupt \/ CancelContext \/ Commit \/ UNCHANGED vars
  BY <1>4 DEF Interrupt, CancelContext, Commit, vars, Pool, PhaseInv
<1>5. ASSUME exit = -1, exit' = -1 PROVE ReportInv'
  BY <1>5
<1>6. ASSUME NEW r \in Runs, Process(r) PROVE ReportInv'
  <2>1. UNCHANGED <<exit, ctxDone, result>>
        /\ (pc' = pc \/ /\ pc[r] \in {"running", "dead"}
                        /\ pc' = [pc EXCEPT ![r] = IF pc[r] = "running" THEN "dead" ELSE "waited"])
    BY <1>6, ProcessFrame DEF Pool
  <2>2. CASE exit = -1
    BY <1>5, <2>1, <2>2
  <2>3. CASE exit # -1
    <3>1. pc' = pc
      BY <2>1, <2>3 DEF Pool, PhaseInv, Runs
    <3> QED
      BY <2>1, <3>1
  <2> QED
    BY <2>2, <2>3
<1>7. ASSUME NEW p \in Patches, Goroutine(p) PROVE ReportInv'
  BY <1>5, <1>7, GoroutineFrame DEF Pool, PhaseInv
<1> QED
  BY <1>1, <1>2, <1>3, <1>4, <1>6, <1>7 DEF Next, Main, Terminated

IInv == Pool /\ AloneInv /\ OutcomeInv /\ ReportInv

LEMMA InitIInv == Init => IInv
<1> SUFFICES ASSUME Init PROVE IInv
  OBVIOUS
<1>1. Pool
  BY InitType, InitSlots DEF Pool
<1>2. \A p \in Patches : /\ pc[p] = "idle" /\ proc[p] = "none" /\ err[p] = "none"
                         /\ ended[p] = "none" /\ result[p] = "zero"
  BY DEF Init, Runs
<1>3. AloneInv
  BY <1>2 DEF AloneInv, TestedAlone, UnderTest
<1>4. OutcomeInv
  BY <1>2 DEF OutcomeInv, Outcome, Decided
<1>5. ReportInv
  BY DEF Init, ReportInv
<1> QED
  BY <1>1, <1>3, <1>4, <1>5 DEF IInv

LEMMA NextIInv == IInv /\ [Next]_vars => IInv'
<1>1. Pool /\ [Next]_vars => Pool'
  BY NextType, NextPhase, NextSlots DEF Pool
<1> QED
  BY <1>1, NextAlone, NextOutcome, NextReport DEF IInv

\* In every reachable state of the command, for any number of mutations, slots and
\* commits, the bookkeeping of slots, worktrees and results is consistent.
THEOREM Invariance == Spec => []IInv
BY InitIInv, NextIInv, PTL DEF Spec

\* A test command only ever runs in a worktree that holds its own mutation alone.
THEOREM MutationsTestedAlone == Spec => []TestedAlone
<1>1. IInv => TestedAlone
  BY DEF IInv, AloneInv
<1> QED
  BY <1>1, Invariance, PTL

LEMMA KilledEvidence == IInv => KilledIsEarned
<1> SUFFICES ASSUME IInv, Reported, NEW p \in Patches, Label(p) = "KILLED"
             PROVE  proc[p] = "fail" /\ ranIn[p].applied = {p}
  BY DEF KilledIsEarned
<1>1. pc[p] = "done" /\ ~ctxDone /\ Outcome(p) /\ Decided(p)
  BY DEF IInv, ReportInv, Reported, OutcomeInv
<1>2. result[p] = "zero"
  BY DEF Label, IInv, Pool, TypeOK, Flags
<1>3. ended[p] = "failed"
  BY <1>1, <1>2 DEF Outcome, Decided
<1>4. proc[p] = "fail"
  BY <1>1, <1>3 DEF Decided
<1> QED
  BY <1>4 DEF IInv, AloneInv, TestedAlone

LEMMA ExitZeroEvidence == IInv => ExitZeroIsEarned
<1> SUFFICES ASSUME IInv, exit = 0, NEW p \in Patches
             PROVE  proc[p] = "fail" \/ fired[p] \/ oom[p]
  BY DEF ExitZeroIsEarned
<1>1. pc[p] = "done" /\ ~ctxDone /\ Outcome(p) /\ Decided(p) /\ Label(p) \notin {"ERROR", "SURVIVED"}
  BY DEF IInv, ReportInv, OutcomeInv
<1>2. ended[p] \in Ends \ {"none", "errored", "survived", "gaveUp"}
  BY <1>1 DEF Label, Outcome, Decided, IInv, Pool, TypeOK
<1> QED
  BY <1>1, <1>2 DEF Decided, Ends

\* KILLED is printed only for a mutation whose own test ran and failed.
THEOREM KilledVerdictsEarned == Spec => []KilledIsEarned
BY KilledEvidence, Invariance, PTL

\* Exit code 0 has evidence of a kill for every mutation.
THEOREM ExitZeroEarned == Spec => []ExitZeroIsEarned
BY ExitZeroEvidence, Invariance, PTL

-----------------------------------------------------------------------------
(* The refinement of MuzooVerdicts                                         *)

Settled == [p \in Patches |-> Verdict(p)]

LEMMA VerdictsInit == Init => Verdicts!Init
BY DEF Init, Verdicts!Init, Verdict, ReportOf

\* A goroutine that returns settles its mutation, or leaves it pending when it gave up.
LEMMA SettleStep ==
  ASSUME TypeOK, NEW p \in Patches, NEW how \in Ends \ {"none"}, exit = -1, exit' = exit,
         ended[p] = "none", ended' = [ended EXCEPT ![p] = how]
  PROVE  [Verdicts!Next]_<<Settled, ReportOf(exit)>>
<1>1. ReportOf(exit) = "none" /\ ReportOf(exit)' = ReportOf(exit)
  BY DEF ReportOf
<1>2. Settled[p] = "pending"
  BY DEF Settled, Verdict
<1>3. \A q \in Patches : q # p => Verdict(q)' = Verdict(q)
  BY DEF Verdict, TypeOK
<1>4. CASE how = "gaveUp"
  <2>1. Verdict(p)' = Verdict(p)
    BY <1>4 DEF Verdict, TypeOK
  <2> QED
    BY <1>1, <1>3, <2>1 DEF Settled
<1>5. CASE how # "gaveUp"
  <2>1. Verdict(p)' \in Verdicts!Verdicts
    BY <1>5 DEF Verdict, Verdicts!Verdicts, TypeOK, Ends
  <2>2. Settled' = [Settled EXCEPT ![p] = Verdict(p)']
    BY <1>3 DEF Settled
  <2>3. Verdicts!Decide(p)
    BY <1>1, <1>2, <2>1, <2>2 DEF Verdicts!Decide, Settled
  <2> QED
    BY <2>3 DEF Verdicts!Next
<1> QED
  BY <1>4, <1>5

\* The summary: nothing is pending, and the labels it prints are the verdicts.
LEMMA SummariseStep ==
  ASSUME IInv, Summarise
  PROVE  Verdicts!Abort \/ Verdicts!Report
<1>1. exit = -1 /\ ReportOf(exit) = "none" /\ ended' = ended
  BY DEF Summarise, IInv, Pool, PhaseInv, ReportOf, doneVars
<1>2. Settled' = Settled
  BY <1>1 DEF Settled, Verdict
<1>3. CASE ctxDone
  BY <1>1, <1>2, <1>3 DEF Summarise, Exit, ReportOf, Verdicts!Abort, Settled
<1>4. CASE ~ctxDone
  <2>1. ASSUME NEW p \in Patches
        PROVE  /\ Verdict(p) # "pending"
               /\ Verdict(p) = "killed" <=> Label(p) \notin {"ERROR", "SURVIVED"}
    <3>1. pc[p] = "done" /\ Outcome(p) /\ Decided(p) /\ ended[p] \in Ends
      BY DEF Summarise, IInv, Pool, PhaseInv, OutcomeInv, TypeOK
    <3>2. ended[p] \in Ends \ {"none", "gaveUp"}
      BY <1>4, <3>1 DEF Outcome, Decided
    <3> QED
      BY <3>1, <3>2 DEF Decided, Verdict, Label, Ends
  <2>2. \A p \in Patches : Settled[p] # "pending"
    BY <2>1 DEF Settled
  <2>3. (\A p \in Patches : Settled[p] = "killed")
          <=> ~ \E p \in Patches : Label(p) \in {"ERROR", "SURVIVED"}
    BY <2>1 DEF Settled
  <2>4. ReportOf(exit)' = IF \A p \in Patches : Settled[p] = "killed"
                            THEN "allKilled" ELSE "someAlive"
    BY <1>4, <2>3 DEF Summarise, Exit, ReportOf
  <2> QED
    BY <1>1, <1>2, <2>2, <2>4 DEF Verdicts!Report, Settled
<1> QED
  BY <1>3, <1>4

LEMMA VerdictsStep == IInv /\ [Next]_vars => [Verdicts!Next]_<<Settled, ReportOf(exit)>>
<1> SUFFICES ASSUME IInv, [Next]_vars PROVE [Verdicts!Next]_<<Settled, ReportOf(exit)>>
  OBVIOUS
<1> USE DEF cmdVars, ctlVars, runVars, doneVars
<1>1. ASSUME ended' = ended, exit' = exit PROVE [Verdicts!Next]_<<Settled, ReportOf(exit)>>
  BY <1>1 DEF Settled, Verdict, ReportOf
<1>2. ASSUME phase # "exited", ended' = ended, Exit(2)
      PROVE  [Verdicts!Next]_<<Settled, ReportOf(exit)>>
  <2>1. exit = -1
    BY <1>2 DEF IInv, Pool, PhaseInv
  <2>2. Settled' = Settled
    BY <1>2 DEF Settled, Verdict
  <2>3. Verdicts!Abort
    BY <1>2, <2>1, <2>2 DEF Exit, ReportOf, Verdicts!Abort, Settled
  <2> QED
    BY <2>3 DEF Verdicts!Next
<1>3. CASE Main
  <2>1. CASE Summarise
    BY <2>1, SummariseStep DEF Verdicts!Next
  <2>2. CASE SetUpFails \/ ValidationFails
    BY <1>2, <2>2 DEF SetUpFails, ValidationFails
  <2>3. CASE EndBaseline
    BY <1>1, <1>2, <2>3 DEF EndBaseline
  <2>4. CASE SetUpWorktree \/ StartBaseline \/ ValidatePatches \/ Collect
    BY <1>1, <2>4 DEF SetUpWorktree, StartBaseline, ValidatePatches, Collect
  <2> QED
    BY <1>3, <2>1, <2>2, <2>3, <2>4 DEF Main
<1>4. CASE Interrupt \/ CancelContext \/ Commit \/ UNCHANGED vars
  BY <1>1, <1>4 DEF Interrupt, CancelContext, Commit, vars
<1>5. ASSUME NEW r \in Runs, Process(r) PROVE [Verdicts!Next]_<<Settled, ReportOf(exit)>>
  BY <1>1, <1>5 DEF Process, ProcessEnds, DeadlinePasses, ContextKills, MonitorFires,
     MonitorKills, WaitReturns
<1>6. ASSUME NEW p \in Patches, Goroutine(p) PROVE [Verdicts!Next]_<<Settled, ReportOf(exit)>>
  <2>1. CASE Acquire(p) \/ Reset(p) \/ Apply(p) \/ StartTest(p) \/ Return(p)
    BY <1>1, <2>1 DEF Acquire, Reset, Apply, StartTest, Return
  <2>2. CASE GiveUp(p) \/ ResetFails(p) \/ ApplyFails(p) \/ Judge(p)
    <3>1. pc[p] \notin {"idle", "returning", "done"} /\ exit' = exit
      BY <2>2 DEF GiveUp, ResetFails, ApplyFails, Judge
    <3>2. exit = -1 /\ ended[p] = "none"
      BY <3>1 DEF IInv, Pool, PhaseInv, TypeOK, Phases, OutcomeInv, Outcome
    <3>3. PICK how \in Ends \ {"none"} : ended' = [ended EXCEPT ![p] = how]
      BY <2>2 DEF GiveUp, ResetFails, ApplyFails, Judge, Finish, Ends
    <3> QED
      BY <3>1, <3>2, <3>3, SettleStep DEF IInv, Pool
  <2> QED
    BY <1>6, <2>1, <2>2 DEF Goroutine
<1> QED
  BY <1>3, <1>4, <1>5, <1>6 DEF Next, Terminated

\* Whatever the tests, the signals and the failures do, the command behaves as the
\* abstract specification of its verdicts says.
THEOREM RefinesVerdicts == Spec => ImplementsVerdicts
<1>1. IInv /\ [Next]_vars => [Verdicts!Next]_<<[p \in Patches |-> Verdict(p)], ReportOf(exit)>>
  BY VerdictsStep DEF Settled
<1> QED
  BY VerdictsInit, <1>1, Invariance, PTL DEF Spec, ImplementsVerdicts, Verdicts!Spec

-----------------------------------------------------------------------------
(* Slots come back, and nothing goes back                                  *)

\* Wherever a goroutine returns and however its mutation ended, a slot that is not in
\* the channel sem has a goroutine that still works with it: what the defer of
\* cmd_testing.go:263 is there for, for any number of mutations and slots.
THEOREM SlotsAreReturned == Spec => []SlotsComeBack
<1>1. Pool => SlotsComeBack
  <2> SUFFICES ASSUME Pool, phase \in {"mutate", "collected"}, NEW s \in Slots, s \notin free
               PROVE  \E p \in Patches : slot[p] = s /\ pc[p] \notin {"idle", "waiting", "done"}
    BY DEF SlotsComeBack
  <2>1. PICK p \in Patches : slot[p] = s
    BY DEF Pool, SlotsExclusive
  <2>2. pc[p] \in Holding
    BY <2>1, SlotFacts DEF Pool, SlotHeld
  <2> QED
    BY <2>1, <2>2 DEF Holding, UnderTest
<1> QED
  BY <1>1, PoolInvariant, PTL

\* The points of a goroutine in numbers.
LEMMA PointFacts ==
  /\ \A c \in PCs : Point(c) \in 0..9
  /\ Point("idle") = 0 /\ Point("waiting") = 1 /\ Point("holding") = 2
  /\ Point("clean") = 3 /\ Point("patched") = 4 /\ Point("running") = 5
  /\ Point("dead") = 6 /\ Point("waited") = 7 /\ Point("returning") = 8
  /\ Point("done") = 9
BY DEF Point, PCs

LEMMA PartFacts ==
  /\ \A c \in Phases : Part(c) \in 0..5
  /\ Part("worktrees") = 0 /\ Part("baseline") = 1 /\ Part("validate") = 2
  /\ Part("mutate") = 3 /\ Part("collected") = 4 /\ Part("exited") = 5
BY DEF Part, Phases

\* What a step of one run has to do that leaves the command and the other runs alone.
Command == <<phase, built, head, sig, ctxDone>>

LEMMA OwnStep ==
  ASSUME TypeOK, UNCHANGED Command, NEW r \in Runs,
         NEW c \in PCs, pc' = [pc EXCEPT ![r] = c], Point(pc[r]) < Point(c),
         \A q \in Runs : (fired[q] => fired'[q]) /\ (oom[q] => oom'[q])
  PROVE  NothingBack /\ SomethingFurther
<1>1. pc \in [Runs -> PCs] /\ pc'[r] = c /\ \A q \in Runs \ {r} : pc'[q] = pc[q]
  BY DEF TypeOK
<1>2. \A q \in Runs : Point(pc[q]) \in 0..9
  BY <1>1, PointFacts
<1>3. \A q \in Runs : Point(pc[q]) <= Point(pc'[q])
  BY <1>1, <1>2, PointFacts
<1>4. Part(phase) \in 0..5 /\ built \in Int /\ head \in Int
  BY PartFacts DEF TypeOK, Commits
<1>5. NothingBack
  BY <1>3, <1>4 DEF NothingBack, Command
<1>6. Point(pc[r]) # Point(pc'[r])
  BY <1>1, <1>2, PointFacts
<1> QED
  BY <1>5, <1>6 DEF SomethingFurther

\* A timer or a monitor that fires.
LEMMA FlagStep ==
  ASSUME TypeOK, UNCHANGED Command, UNCHANGED pc, NEW r \in Runs,
         fired'[r] # fired[r] \/ oom'[r] # oom[r],
         \A q \in Runs : (fired[q] => fired'[q]) /\ (oom[q] => oom'[q])
  PROVE  NothingBack /\ SomethingFurther
<1>1. \A q \in Runs : Point(pc[q]) \in 0..9
  BY PointFacts DEF TypeOK
<1>2. Part(phase) \in 0..5 /\ built \in Int /\ head \in Int
  BY PartFacts DEF TypeOK, Commits
<1> QED
  BY <1>1, <1>2 DEF NothingBack, SomethingFurther, Command

LEMMA ProcessForward ==
  ASSUME TypeOK, NEW r \in Runs, Process(r)
  PROVE  NothingBack /\ SomethingFurther
<1>0. UNCHANGED Command
  BY ProcessFrame DEF Command
<1>1. CASE ProcessEnds(r) \/ ContextKills(r) \/ MonitorKills(r)
  <2>1. pc[r] = "running" /\ pc' = [pc EXCEPT ![r] = "dead"] /\ UNCHANGED <<fired, oom>>
    BY <1>1 DEF ProcessEnds, ContextKills, MonitorKills
  <2>2. "dead" \in PCs /\ Point("running") < Point("dead")
    BY PointFacts DEF PCs
  <2> QED
    BY <1>0, <2>1, <2>2, OwnStep
<1>2. CASE WaitReturns(r)
  <2>1. pc[r] = "dead" /\ pc' = [pc EXCEPT ![r] = "waited"] /\ UNCHANGED <<fired, oom>>
    BY <1>2 DEF WaitReturns
  <2>2. "waited" \in PCs /\ Point("dead") < Point("waited")
    BY PointFacts DEF PCs
  <2> QED
    BY <1>0, <2>1, <2>2, OwnStep
<1>3. CASE DeadlinePasses(r)
  <2>1. UNCHANGED <<pc, oom>> /\ ~fired[r] /\ fired' = [fired EXCEPT ![r] = TRUE]
    BY <1>3 DEF DeadlinePasses
  <2>2. fired'[r] # fired[r] /\ \A q \in Runs : fired[q] => fired'[q]
    BY <2>1 DEF TypeOK
  <2> QED
    BY <1>0, <2>1, <2>2, FlagStep
<1>4. CASE MonitorFires(r)
  <2>1. UNCHANGED <<pc, fired>> /\ ~oom[r] /\ oom' = [oom EXCEPT ![r] = TRUE]
    BY <1>4 DEF MonitorFires
  <2>2. oom'[r] # oom[r] /\ \A q \in Runs : oom[q] => oom'[q]
    BY <2>1 DEF TypeOK
  <2> QED
    BY <1>0, <2>1, <2>2, FlagStep
<1> QED
  BY <1>1, <1>2, <1>3, <1>4 DEF Process

\* Where Launch may leave a run, and that no deadline is taken back.
LEMMA LaunchForward ==
  ASSUME TypeOK, NEW r \in Runs, NEW s, Launch(r, s), Point(pc[r]) < 5
  PROVE  \E c \in PCs : /\ pc' = [pc EXCEPT ![r] = c] /\ Point(pc[r]) < Point(c)
                        /\ \A q \in Runs : (fired[q] => fired'[q]) /\ (oom[q] => oom'[q])
<1>1. UNCHANGED oom /\ \A q \in Runs : fired[q] => fired'[q]
  BY DEF Launch, TypeOK
<1>2. Point(pc[r]) \in 0..9
  BY PointFacts DEF TypeOK
<1>3. CASE pc' = [pc EXCEPT ![r] = "running"]
  BY <1>1, <1>2, <1>3, PointFacts DEF PCs
<1>4. CASE pc' = [pc EXCEPT ![r] = "waited"]
  BY <1>1, <1>2, <1>4, PointFacts DEF PCs
<1> QED
  BY <1>3, <1>4 DEF Launch

LEMMA GoroutineForward ==
  ASSUME TypeOK, NEW p \in Patches, Goroutine(p)
  PROVE  NothingBack /\ SomethingFurther
<1>0. UNCHANGED Command /\ p \in Runs
  BY GoroutineFrame DEF Command, Runs
<1>1. CASE StartTest(p)
  <2>1. pc[p] = "patched" /\ Launch(p, slot[p])
    BY <1>1 DEF StartTest
  <2> QED
    BY <1>0, <2>1, LaunchForward, OwnStep, PointFacts
<1>2. CASE Acquire(p) \/ GiveUp(p)
  <2>1. UNCHANGED <<fired, oom>>
    BY <1>2 DEF Acquire, GiveUp, runVars
  <2>2. pc[p] = "waiting"
    BY <1>2 DEF Acquire, GiveUp
  <2>3. PICK c \in {"holding", "done"} : pc' = [pc EXCEPT ![p] = c]
    BY <1>2 DEF Acquire, GiveUp
  <2>4. c \in PCs /\ Point("waiting") < Point(c)
    BY PointFacts DEF PCs
  <2> QED
    BY <1>0, <2>1, <2>2, <2>3, <2>4, OwnStep
<1>3. CASE Reset(p) \/ ResetFails(p) \/ Apply(p) \/ ApplyFails(p)
  <2>1. UNCHANGED <<fired, oom>>
    BY <1>3 DEF Reset, ResetFails, Apply, ApplyFails, runVars
  <2>2. \/ pc[p] = "holding" /\ pc' = [pc EXCEPT ![p] = "clean"]
        \/ pc[p] = "clean" /\ pc' = [pc EXCEPT ![p] = "patched"]
        \/ pc[p] \in {"holding", "clean"} /\ pc' = [pc EXCEPT ![p] = "returning"]
    BY <1>3 DEF Reset, ResetFails, Apply, ApplyFails, Finish
  <2>3. /\ {"clean", "patched", "returning"} \subseteq PCs
        /\ Point("holding") < Point("clean") /\ Point("clean") < Point("patched")
        /\ Point("holding") < Point("returning") /\ Point("clean") < Point("returning")
    BY PointFacts DEF PCs
  <2> QED
    BY <1>0, <2>1, <2>2, <2>3, OwnStep
<1>4. CASE Judge(p)
  <2>1. UNCHANGED <<fired, oom>>
    BY <1>4 DEF Judge, runVars
  <2>2. pc[p] = "waited" /\ pc' = [pc EXCEPT ![p] = "returning"]
    BY <1>4 DEF Judge, Finish
  <2>3. "returning" \in PCs /\ Point("waited") < Point("returning")
    BY PointFacts DEF PCs
  <2> QED
    BY <1>0, <2>1, <2>2, <2>3, OwnStep
<1>5. CASE Return(p)
  <2>1. UNCHANGED <<fired, oom>>
    BY <1>5 DEF Return, runVars
  <2>2. pc[p] = "returning" /\ pc' = [pc EXCEPT ![p] = "done"]
    BY <1>5 DEF Return
  <2>3. "done" \in PCs /\ Point("returning") < Point("done")
    BY PointFacts DEF PCs
  <2> QED
    BY <1>0, <2>1, <2>2, <2>3, OwnStep
<1> QED
  BY <1>1, <1>2, <1>3, <1>4, <1>5 DEF Goroutine

\* The phases, the loop over the worktrees, and the environment.
LEMMA CommandForward ==
  ASSUME TypeOK, PhaseInv, Main \/ Interrupt \/ CancelContext \/ Commit
  PROVE  NothingBack /\ SomethingFurther
<1>0. /\ Baseline \in Runs /\ Patches \subseteq Runs /\ Baseline \notin Patches
      /\ built \in Int /\ head \in Int /\ pc \in [Runs -> PCs]
      /\ \A q \in Runs : Point(pc[q]) \in 0..9
  BY PointFacts DEF TypeOK, Commits, Runs
<1>1. ASSUME UNCHANGED <<sig, ctxDone, head, pc, fired, oom>>, Part(phase) <= Part(phase'),
             built <= built', phase' # phase \/ built' # built
      PROVE  NothingBack /\ SomethingFurther
  BY <1>0, <1>1 DEF NothingBack, SomethingFurther
<1>2. CASE SetUpWorktree
  BY <1>0, <1>1, <1>2, PartFacts DEF SetUpWorktree, ctlVars, runVars
<1>3. CASE SetUpFails \/ ValidationFails \/ Collect \/ Summarise
  BY <1>0, <1>1, <1>3, PartFacts DEF SetUpFails, ValidationFails, Collect, Summarise, Exit,
     ctlVars, runVars
<1>4. CASE StartBaseline
  <2>1. UNCHANGED <<built, head, sig, ctxDone>> /\ phase = "worktrees" /\ phase' = "baseline"
    BY <1>4 DEF StartBaseline, ctlVars
  <2>2. Launch(Baseline, 0)
    BY <1>4 DEF StartBaseline
  <2>3. \/ UNCHANGED fired \/ fired' = [fired EXCEPT ![Baseline] = TRUE]
    BY <2>2 DEF Launch
  <2>4. UNCHANGED oom /\ \A q \in Runs : fired[q] => fired'[q]
    BY <2>2, <2>3 DEF Launch, TypeOK
  <2>5. PICK c \in {"running", "waited"} : pc' = [pc EXCEPT ![Baseline] = c]
    BY <2>2 DEF Launch
  <2>6. pc[Baseline] = "idle"
    BY <2>1 DEF PhaseInv
  <2> QED
    BY <1>0, <2>1, <2>4, <2>5, <2>6, PartFacts, PointFacts DEF NothingBack, SomethingFurther
<1>5. CASE EndBaseline
  <2>1. UNCHANGED <<built, head, sig, ctxDone, fired, oom>> /\ phase = "baseline"
    BY <1>5 DEF EndBaseline, ctlVars, runVars
  <2>2. phase' \in {"validate", "exited"}
    BY <1>5 DEF EndBaseline, Exit
  <2>3. \A q \in Runs : pc'[q] = IF q = Baseline THEN "done" ELSE pc[q]
    BY <1>0, <1>5 DEF EndBaseline
  <2>4. Point(pc[Baseline]) = 7
    BY <1>5, PointFacts DEF EndBaseline
  <2>5. \A q \in Runs : Point(pc[q]) <= Point(pc'[q])
    BY <1>0, <2>3, <2>4, PointFacts
  <2> QED
    BY <1>0, <2>1, <2>2, <2>5, PartFacts DEF NothingBack, SomethingFurther
<1>6. CASE ValidatePatches
  <2>1. UNCHANGED <<built, head, sig, ctxDone, fired, oom>>
        /\ phase = "validate" /\ phase' = "mutate"
    BY <1>6 DEF ValidatePatches, ctlVars, runVars
  <2>2. \A q \in Runs : pc'[q] = IF q \in Patches THEN "waiting" ELSE pc[q]
    BY <1>6 DEF ValidatePatches
  <2>3. \A q \in Patches : pc[q] = "idle"
    BY <2>1 DEF PhaseInv
  <2>4. \A q \in Runs : Point(pc[q]) <= Point(pc'[q])
    BY <1>0, <2>2, <2>3, PointFacts
  <2> QED
    BY <1>0, <2>1, <2>4, PartFacts DEF NothingBack, SomethingFurther
<1>7. CASE Interrupt \/ CancelContext \/ Commit
  BY <1>0, <1>7, PartFacts DEF Interrupt, CancelContext, Commit, cmdVars, runVars, NothingBack,
     SomethingFurther, TypeOK
<1> QED
  BY <1>2, <1>3, <1>4, <1>5, <1>6, <1>7 DEF Main

\* Every step takes something further and nothing back: no retry and no polling, for any
\* number of mutations, slots, commits and debris. This is the part of Terminates and
\* InterruptEnds that needs no fairness.
THEOREM NothingGoesBack == Spec => OnlyForward
<1>1. Pool /\ [Next]_vars => [NothingBack /\ SomethingFurther]_vars
  BY ProcessForward, GoroutineForward, CommandForward DEF Next, Terminated, Pool
<1> QED
  BY <1>1, PoolInvariant, PTL DEF Spec, OnlyForward

\* No step goes back, and whoever waits for a slot waits for a goroutine that works: all
\* that the end of wg.Wait (cmd_testing.go:366) needs but fair goroutines, timers and kills.
THEOREM CommandProceeds == Spec => CommandGetsOn
  BY SlotsAreReturned, NothingGoesBack, PTL DEF CommandGetsOn, OnlyForward

=============================================================================
