\* A superblock in the first column whose bottom edge leaves 5 rows in the
\* frame: first-column trimming, row trimming and the rows == 5 chroma case.
CONSTANTS
  MiRows = 13
  MiCols = 24
  MiRow = 8
  MiCol = 0
  Levels = {1}
  Refs = {1}
  BlockSizes <- MCAllBlocks
  MaxSplits = 1
SPECIFICATION Spec
INVARIANT TypeOK
INVARIANT MasksDisjoint
INVARIANT EdgesPreserved
INVARIANT NoWideFilterOnHalfChroma
\* setup_mask returns once the walk is finished.
CHECK_DEADLOCK FALSE
