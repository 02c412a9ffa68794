\* One decoder instance, a stream with no decoding errors: the pipeline
\* checked against the FrameQueue specification.
CONSTANTS
  d1 = d1
  d2 = d2
  Decoders <- MCOneDecoder
  MaxFrames = 4
  Shows = {FALSE, TRUE}
  Fails = {FALSE}
  InitFails = {FALSE}
  AllocFails = {FALSE}
  Textures = {FALSE}
SPECIFICATION Spec
PROPERTY RotatorRefinesQueue
\* A NULL dereference in get_frame_corrupted_recon ends the process.
CHECK_DEADLOCK FALSE
