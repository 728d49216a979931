\* Three events of a document, in copies, and one end of the process.
SPECIFICATION FairSpec
CONSTANTS
  doc = doc
  None = None
  Records = {doc}
  Documents = {doc}
  MaxEvents = 3
  MaxQueue = 2
  MaxExits = 1
INVARIANTS TypeOK AckedIsStored
PROPERTIES ImplementsMirror CatchesUp
