\* A number is reused while claude describes the patch that had it.
SPECIFICATION Spec
CONSTANTS
  e1 = e1
  e2 = e2
  Edits = {e1, e2}
  Near <- NearFirstTwo
  Commands = {c1, c2}
  MaxNum = 2
  Subcommands = {"capture", "rm"}
  HasClaude = {TRUE}
  Overlap = FALSE
  Behind = {"capture", "rm"}
  Busy = {}
  Crashes = FALSE
SYMMETRY Symmetry
INVARIANTS NothingLost
