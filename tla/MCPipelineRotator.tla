------------------------- MODULE MCPipelineRotator -------------------------
(* Model values for the PipelineRotator runs.                             *)
EXTENDS PipelineRotator

CONSTANTS d1, d2

MCOneDecoder == {d1}
MCTwoDecoders == {d1, d2}

(* Instance d1 seen as a FrameQueue: the shown frames it was sent are    *)
(* accepted, the frames vp9_get_frame returned are delivered.            *)
Queue == INSTANCE FrameQueue WITH Frames <- 1..MaxFrames,
                                 accepted <- ShownSent(d1),
                                 delivered <- out[d1]

(* For a stream no frame of which fails to decode, every step of the     *)
(* pipeline is a step of FrameQueue: delivery in order with no frame      *)
(* skipped or repeated, however superframes, hidden frames, the parity    *)
(* rotation and the flush interleave with the caller's vp9_get_frame.     *)
RotatorRefinesQueue == Queue!Spec
=============================================================================
