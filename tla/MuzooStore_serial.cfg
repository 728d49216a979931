\* One command at a time, but for captures behind captures that wait for claude;
\* commands crash.
SPECIFICATION Spec
CONSTANTS
  e1 = e1
  e2 = e2
  Edits = {e1, e2, e3}
  Near <- NearFirstTwo
  Commands = {c1, c2, c3}
  MaxNum = 3
  Subcommands = {"capture", "rebase", "rm"}
  HasClaude = {TRUE, FALSE}
  Overlap = FALSE
  Behind = {"capture"}
  Busy = {}
  Crashes = TRUE
SYMMETRY Symmetry
INVARIANTS TypeOK NothingLost NoLeftover
PROPERTIES CapturesSaved RewritesKeepMutations RebasedApplies
