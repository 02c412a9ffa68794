\* One decoder instance fed up to four frames, as single frames or as
\* superframes of a hidden and a shown frame, any of which may fail, then
\* flushed; the caller may collect images and query corruption at any time.
CONSTANTS
  d1 = d1
  d2 = d2
  Decoders <- MCOneDecoder
  MaxFrames = 4
  Shows = {FALSE, TRUE}
  Fails = {FALSE, TRUE}
  InitFails = {FALSE, TRUE}
  AllocFails = {FALSE}
  Textures = {FALSE, TRUE}
SPECIFICATION Spec
INVARIANT TypeOK
INVARIANT InOrderDelivery
INVARIANT Completeness
\* A NULL dereference in get_frame_corrupted_recon or in a flush ends the
\* process: nothing is enabled after it.
CHECK_DEADLOCK FALSE
