------------------------------ MODULE FrameQueue ------------------------------
(***************************************************************************)
(* What the decode pipeline promises its caller: the shown frames it is    *)
(* given come out in the order they went in, none skipped, none repeated,  *)
(* an output never ahead of its input.  Decoding latency is free.          *)
(***************************************************************************)
EXTENDS Integers, Sequences

CONSTANT Frames          \* frame identities

VARIABLES
  accepted,   \* shown frames handed to the decoder, in order
  delivered   \* frames handed back to the caller, in order

Init == accepted = << >> /\ delivered = << >>

(* The caller hands over a shown frame.                                   *)
Accept(f) == /\ accepted' = Append(accepted, f)
             /\ UNCHANGED delivered

(* The oldest frame not yet handed back is handed back.                   *)
Emit == /\ Len(delivered) < Len(accepted)
        /\ delivered' = Append(delivered, accepted[Len(delivered) + 1])
        /\ UNCHANGED accepted

Spec == Init /\ [][\E f \in Frames : Accept(f) \/ Emit]_<<accepted, delivered>>
=============================================================================
