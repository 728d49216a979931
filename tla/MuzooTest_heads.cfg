\* A commit while the second of two worktrees is set up.
SPECIFICATION Spec
CONSTANTS
  Patches = {p1}
  Baseline = Baseline
  Jobs = 2
  MaxHead = 1
  AppliesAt <- AppliesAlways
  Timeouts = {FALSE}
  HasMemLimit = FALSE
  TestDebris = {}
INVARIANTS KilledOnSanityBase
