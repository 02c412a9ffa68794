\* A superblock at the top of a frame three 8x8 rows high and two columns
\* wide, with blocks down to 8x8 of filter levels 0, 1 and 2: row 0 has no
\* edge above it, chroma row 1 has its lower luma half outside the frame,
\* the bottom and right halves are trimmed, and neighbouring blocks of
\* different levels meet in the dual calls and in the chroma level copy.
CONSTANTS
  MiRows = 3
  MiCols = 10
  MiRow = 0
  MiCol = 8
  Levels = {0, 1, 2}
  Refs = {0, 1}
  BlockSizes <- MCAllBlocks
  MaxSplits = 2
SPECIFICATION BlockSpec
INVARIANT EdgesFilteredOnce
INVARIANT OwnThresholds
INVARIANT NoFilterAtLevelZero
\* vp9_loop_filter_block returns once every plane is filtered.
CHECK_DEADLOCK FALSE
