\* Two decoder instances in one process, fed streams without errors:
\* checks that each counts its frames independently of the other.
CONSTANTS
  d1 = d1
  d2 = d2
  Decoders <- MCTwoDecoders
  MaxFrames = 2
  Shows = {FALSE, TRUE}
  Fails = {FALSE}
  InitFails = {FALSE}
  AllocFails = {FALSE}
  Textures = {FALSE}
SPECIFICATION Spec
INVARIANT DecodersIndependent
CHECK_DEADLOCK FALSE
