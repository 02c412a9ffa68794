\* Checks which slot get_frame_corrupted_recon reads, against the slot the
\* last image came from, over superframes and flushes.
CONSTANTS
  d1 = d1
  d2 = d2
  Decoders <- MCOneDecoder
  MaxFrames = 3
  Shows = {FALSE, TRUE}
  Fails = {FALSE}
  InitFails = {FALSE}
  AllocFails = {FALSE}
  Textures = {FALSE}
SPECIFICATION Spec
INVARIANT CorruptedReadsOutputSlot
CHECK_DEADLOCK FALSE
