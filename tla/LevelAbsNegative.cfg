\* One segment whose ALT_LF data may be negative (the feature is signed),
\* with absolute segment data allowed: checks the level table stays in range.
CONSTANTS
  Segments = {0}
  FilterLevels = {0, 20, 40}
  Sharpnesses = {0, 3, 6}
  SegData <- MCNegativeSegData
  RefDeltas <- MCRefDeltas
  ModeDeltas <- MCModeDeltas
SPECIFICATION Spec
INVARIANT LevelIndexInRange
