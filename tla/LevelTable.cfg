\* One segment; frames with levels below and above 32 (delta scale 1 and
\* 2), sharpness 0, 3 and 6, relative and non-negative absolute segment
\* data, and deltas on and off.
CONSTANTS
  Segments = {0}
  FilterLevels = {0, 20, 40}
  Sharpnesses = {0, 3, 6}
  SegData = {0, 30}
  RefDeltas <- MCRefDeltas
  ModeDeltas <- MCModeDeltas
SPECIFICATION Spec
INVARIANT TypeOK
INVARIANT LevelIndexInRange
INVARIANT ThresholdsCurrent
