\* Frames may fail to decode; the creation of the decompressor does not.
\* Checks that a failing receive makes vp9_decode return an error.
CONSTANTS
  d1 = d1
  d2 = d2
  Decoders <- MCOneDecoder
  MaxFrames = 3
  Shows = {FALSE, TRUE}
  Fails = {FALSE, TRUE}
  InitFails = {FALSE}
  AllocFails = {FALSE}
  Textures = {FALSE}
SPECIFICATION Spec
INVARIANT ErrorReported
CHECK_DEADLOCK FALSE
