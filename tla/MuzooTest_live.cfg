\* Tests that hang, with and without a timeout; the second waits for the slot of the first.
SPECIFICATION FairSpec
CONSTANTS
  Patches = {p1, p2}
  Baseline = Baseline
  Jobs = 1
  MaxHead = 0
  AppliesAt <- AppliesAlways
  Timeouts = {TRUE, FALSE}
  HasMemLimit = FALSE
  TestDebris = {}
PROPERTIES Terminates InterruptEnds
