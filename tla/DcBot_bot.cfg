\* Five documents on pages of two, both searches, the files of one document, in the
\* database or outside, and one restart. The other documents have no PDF: Download
\* fails on them.
SPECIFICATION FairSpec
CONSTANTS
  MaxDocs = 5
  PerPage = 2
  Retries = 2
  Flags <- OneFlag
  Missing <- OnePdf
  MaxExits = 1
INVARIANTS TypeOK HolesAreExplained BackfillReachesAll
PROPERTIES SearchEnds SearchGetsOn ImplementsArchive
