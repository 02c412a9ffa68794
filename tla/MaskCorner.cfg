\* The bottom-right corner of the frame: 3 rows and 5 columns of the
\* superblock in the frame, so the walk is forced down to 8x8 blocks.
CONSTANTS
  MiRows = 11
  MiCols = 13
  MiRow = 8
  MiCol = 8
  Levels = {1}
  Refs = {1}
  BlockSizes <- MCAllBlocks
  MaxSplits = 2
SPECIFICATION Spec
INVARIANT TypeOK
INVARIANT MasksDisjoint
INVARIANT EdgesPreserved
INVARIANT NoWideFilterOnHalfChroma
\* setup_mask returns once the walk is finished.
CHECK_DEADLOCK FALSE
