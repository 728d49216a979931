\* The user edits while $EDITOR is open.
SPECIFICATION Spec
CONSTANTS
  e1 = e1
  e2 = e2
  Edits = {e1, e2}
  Near <- NearFirstTwo
  Commands = {c1}
  MaxNum = 1
  Subcommands = {"capture"}
  HasClaude = {FALSE}
  Overlap = FALSE
  Behind = {}
  Busy = {"written"}
  Crashes = FALSE
SYMMETRY Symmetry
PROPERTIES RestoreUndoesDiff
