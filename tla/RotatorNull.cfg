\* Checks that no interface call dereferences a NULL decompressor: a flush
\* or a corruption query before the first frame, or after creation failed.
CONSTANTS
  d1 = d1
  d2 = d2
  Decoders <- MCOneDecoder
  MaxFrames = 2
  Shows = {TRUE}
  Fails = {FALSE}
  InitFails = {FALSE, TRUE}
  AllocFails = {FALSE, TRUE}
  Textures = {FALSE}
SPECIFICATION Spec
INVARIANT NoNullDeref
CHECK_DEADLOCK FALSE
