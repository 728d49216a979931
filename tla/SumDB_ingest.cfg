\* Logs of four entries, two histories, old and new trees, one end of the process.
SPECIFICATION FairSpec
CONSTANTS
  MaxSize = 4
  MaxExits = 1
  l1 = l1
  l2 = l2
  l3 = l3
  l4 = l4
  l5 = l5
  h1 = h1
  h2 = h2
  d1 = d1
  Leaves = {l1, l2, l3, l4, l5}
  Refused = {l3}
  None = None
  Log <- Growing
  Logs <- BothLogs
  HostOf <- LeafHosts
  Domain <- HostDomains
INVARIANTS TypeOK
PROPERTIES BadSinceHolds ImplementsLogCopy KeepsUp
