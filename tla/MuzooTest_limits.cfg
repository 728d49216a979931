\* Two mutations over two slots with a timeout, a memory limit, debris of
\* earlier tests in the worktrees and a commit during the set-up.
SPECIFICATION Spec
CONSTANTS
  Patches = {p1, p2}
  Baseline = Baseline
  Jobs = 2
  MaxHead = 1
  AppliesAt <- AppliesAtFirst
  Timeouts = {TRUE}
  HasMemLimit = TRUE
  TestDebris = {"tracked"}
SYMMETRY Symmetry
INVARIANTS TypeOK SlotsExclusive KilledIsEarned TestedAlone ExitZeroIsEarned
PROPERTIES CommandGetsOn ImplementsVerdicts
