--------------------------- MODULE PipelineRotator ---------------------------
(***************************************************************************)
(* The double-buffered decode pipeline of vp9/vp9_dx_iface.c:              *)
(* decode_one_recon, the superframe loop of vp9_decode, vp9_get_frame and   *)
(* get_frame_corrupted_recon.                                              *)
(*                                                                         *)
(* A decoder instance owns two decode contexts, storage_pbi[0..1], and the *)
(* rotation counter l_bufpool_flag_output of its master context.  A call   *)
(* decodes a frame into one slot and hands out the frame the other slot    *)
(* got in the previous call; a zero-length call drains the last one.      *)
(*                                                                         *)
(* vp9_receive_compressed_data_recon and vp9_get_raw_frame are not in this *)
(* source tree; their effect is taken from the design notes: the frame of  *)
(* the call at counter c is decoded into slot (c + 1) & 1 (the slot the    *)
(* c = 0 branch reads errors from, and the one the next call hands out),   *)
(* its error info is kept in that slot, and get_raw_frame returns a shown  *)
(* frame once.  Frame contents are abstracted to frame numbers.           *)
(***************************************************************************)
EXTENDS Integers, Sequences, SequencesExt, FiniteSets

CONSTANTS
  Decoders,      \* decoder instances (vpx_codec_alg_priv_t) in the process
  MaxFrames,     \* compressed frames each instance is fed
  Shows,         \* show_frame values the stream may carry
  Fails,         \* whether receive may fail on a frame
  InitFails,     \* whether creating the decompressor may fail
  AllocFails,    \* whether vpx_memalign of the two storage contexts may fail
  Textures       \* TRUE: the caller passes a texture to vp9_decode_ex

ASSUME MaxFrames \in Nat \ {0}
ASSUME Shows \subseteq BOOLEAN /\ Shows # {}
ASSUME Fails \subseteq BOOLEAN /\ Fails # {}
ASSUME InitFails \subseteq BOOLEAN /\ InitFails # {}
ASSUME AllocFails \subseteq BOOLEAN /\ AllocFails # {}
ASSUME Textures \subseteq BOOLEAN /\ Textures # {}

VARIABLES
  dec,       \* per instance: the context fields decode_one_recon reads and writes
  flag,      \* the function-static `flag` of decode_one_recon
  crashed,   \* a NULL pbi was dereferenced
  next,      \* per instance: the number of the next frame the caller sends
  eos,       \* per instance: the caller has started flushing
  out,       \* per instance: frames returned by vp9_get_frame, in order
  sent,      \* per instance: the frames passed to vp9_decode, in order
  lastCall,  \* per instance: did receive fail in the last vp9_decode, and its result
  collect,   \* per instance: the caller is to call vp9_get_frame before decoding on
  rendered   \* per instance: frames vp9_yuv2rgba drew into the caller's texture

vars == <<dec, flag, crashed, next, eos, out, sent, lastCall, collect, rendered>>

-----------------------------------------------------------------------------
OK == "VPX_CODEC_OK"
ERROR == "VPX_CODEC_ERROR"
NoFrame == 0

(* One decode context: the frame its output buffer holds, whether it is   *)
(* shown, whether decoding it failed, and whether get_raw_frame has not   *)
(* handed it out yet (ready_for_new_data = 0).                             *)
EmptySlot == [frame |-> NoFrame, show |-> FALSE, err |-> FALSE, fresh |-> FALSE]

InitCtx ==
  [init |-> "no",       \* decoder_init, and whether ctx->pbi was created
   c |-> 0,             \* pbi->l_bufpool_flag_output
   slot |-> [s \in 0..1 |-> EmptySlot],
   res |-> FALSE,       \* pbi->res: the previous call returned an error
   show |-> FALSE,      \* pbi->common.show_frame of the master context
   cvf |-> 0,           \* pbi->common.current_video_frame
   img |-> NoFrame,     \* ctx->img
   avail |-> FALSE,     \* ctx->img_avail
   outSlot |-> -1]      \* the slot ctx->img was last taken from

(* A frame as the caller hands it over: its number and show_frame, and    *)
(* whether receive fails on it.  A flush is the empty buffer.             *)
Frame(n, sh, fl) == [flush |-> FALSE, frame |-> n, show |-> sh, fail |-> fl]
FlushInput == [flush |-> TRUE, frame |-> NoFrame, show |-> FALSE, fail |-> FALSE]

-----------------------------------------------------------------------------
(* Slot selection by the parity of the rotation counter.                   *)

(* The slot vp9_receive_compressed_data_recon decodes into.               *)
RecvSlot(c) == (c + 1) % 2
(* The slot whose error info a failed receive is read from.               *)
ErrSlot(c) == IF c = 0 THEN 1 ELSE c % 2
(* Mutation: the retrieval reads the slot the call decoded into.          *)
OutSlotSwapped(c) == (c + 1) % 2
(* The slot vp9_get_raw_frame is asked for the previous frame.            *)
OutSlot(c) == c % 2
(* The slot get_frame_corrupted_recon reads (-1 & 1 = 1 in C).            *)
CorruptSlot(c) == IF c # 1 THEN (c - 1) % 2 ELSE c % 2

(* vp9_receive_compressed_data_recon: a frame is decoded into the slot of *)
(* the counter and sets the master's show_frame; a flush decodes nothing. *)
Receive(ds, in) ==
  IF in.flush THEN ds
  ELSE [ds EXCEPT !.slot[RecvSlot(ds.c)] =
                    [frame |-> in.frame, show |-> in.show, err |-> in.fail,
                     fresh |-> TRUE],
                  !.show = in.show]

(* vp9_get_raw_frame: 0 for a shown frame not handed out before.          *)
RawFrameReady(sl) == sl.frame # NoFrame /\ sl.fresh /\ sl.show

(* Mutations of the retrieval step: the get_raw_frame result is ignored; *)
(* retrieval starts one call late.                                        *)
RetrieveNoRetCheck(ds, res) ==
  LET s == OutSlot(ds.c)
      take == ds.c >= 1 /\ ~ds.res
  IN [ds EXCEPT !.slot[s].fresh = FALSE,
                !.img = IF take THEN ds.slot[s].frame ELSE @,
                !.avail = IF take THEN TRUE ELSE @,
                !.outSlot = IF take THEN s ELSE @,
                !.res = res, !.c = @ + 1]
RetrieveFromSecond(ds, res) ==
  LET s == OutSlot(ds.c)
      got == ds.c > 1 /\ RawFrameReady(ds.slot[s])
      take == got /\ ~ds.res
  IN [ds EXCEPT !.slot[s].fresh = IF got THEN FALSE ELSE @,
                !.img = IF take THEN ds.slot[s].frame ELSE @,
                !.avail = IF take THEN TRUE ELSE @,
                !.outSlot = IF take THEN s ELSE @,
                !.res = res, !.c = @ + 1]

(* The retrieval step: ask slot c & 1 for its frame once c >= 1, take it  *)
(* into ctx->img unless the previous call failed, then record this call's *)
(* result and advance the counter.                                        *)
Retrieve(ds, res) ==
  LET s == OutSlot(ds.c)
      got == ds.c >= 1 /\ RawFrameReady(ds.slot[s])
      take == got /\ ~ds.res
  IN [ds EXCEPT !.slot[s].fresh = IF got THEN FALSE ELSE @,
                !.img = IF take THEN ds.slot[s].frame ELSE @,
                !.avail = IF take THEN TRUE ELSE @,
                !.outSlot = IF take THEN s ELSE @,
                !.res = res,
                !.c = @ + 1]

(* Mutation: the flush does not reset the rotation counter.              *)
EndOfStreamNoReset(ds, in) == ds

(* A flush resets the rotation counter once it has drained a frame.      *)
EndOfStream(ds, in) == IF in.flush THEN [ds EXCEPT !.c = 0] ELSE ds

(* current_video_frame advances on a shown frame of the master context,   *)
(* except the first time it is 1 in the whole process (static flag).     *)
AdvanceCvf(ds, fl) ==
  IF ds.show /\ (fl \/ ds.cvf # 1) THEN [ds EXCEPT !.cvf = @ + 1] ELSE ds
NextFlag(ds, fl) == IF ds.show /\ ~(fl \/ ds.cvf # 1) THEN TRUE ELSE fl

(* decode_one_recon_ex draws the frame into the caller's texture exactly *)
(* where it takes it into ctx->img: the frame of a call is drawn when the *)
(* retrieval changed ctx->img (a frame number is handed out only once).  *)
Drawn(before, after) ==
  IF after.img # before.img THEN << after.img >> ELSE << >>

(* decode_one_recon (and decode_one_recon_ex) for one input, with initFail saying whether creating *)
(* the decompressor fails should this call create it, and allocFail      *)
(* whether vpx_memalign of new_pbi or new_pbi_two returns NULL; vp9_zero *)
(* then writes through it before anything is checked.  The result says   *)
(* whether a NULL pointer was dereferenced.                               *)
DecodeOneRecon(ds, fl, in, initFail, allocFail) ==
  LET init1 == IF ds.init = "no" /\ ~in.flush
               THEN IF initFail THEN "failed" ELSE "ok" ELSE ds.init
      res0 == IF ds.init = "no" /\ ~in.flush /\ initFail THEN ERROR ELSE OK
      d1 == Receive([ds EXCEPT !.init = init1], in)
      failed == ~in.flush /\ in.fail
      res1 == IF failed /\ d1.slot[ErrSlot(ds.c)].err THEN ERROR ELSE OK
      d2 == Retrieve(d1, res1 = ERROR)
      d3 == AdvanceCvf(d2, fl)
      d4 == EndOfStream(d3, in)
  IN CASE in.flush /\ ds.init # "ok" ->
            [ds |-> ds, flag |-> fl, res |-> OK, null |-> TRUE, failed |-> FALSE,
             drawn |-> << >>]
       [] ds.init = "no" /\ ~in.flush /\ allocFail ->
            [ds |-> ds, flag |-> fl, res |-> OK, null |-> TRUE, failed |-> FALSE,
             drawn |-> << >>]
       [] in.flush /\ ds.c = 0 ->
            [ds |-> ds, flag |-> fl, res |-> OK, null |-> FALSE, failed |-> FALSE,
             drawn |-> << >>]
       [] init1 # "ok" ->
            [ds |-> [ds EXCEPT !.init = init1], flag |-> fl, res |-> res0,
             null |-> FALSE, failed |-> FALSE, drawn |-> << >>]
       [] OTHER ->
            [ds |-> d4, flag |-> NextFlag(d2, fl),
             res |-> IF in.flush THEN OK ELSE res1, null |-> FALSE,
             failed |-> failed, drawn |-> Drawn(ds, d2)]

(* The do-while loop of vp9_decode_ex over the frames of one packet (a    *)
(* superframe carries more than one); it stops at the first error.       *)
RECURSIVE DecodeFrames(_, _, _, _, _, _)
DecodeFrames(ds, fl, frames, initFail, allocFail, anyFail) ==
  IF frames = << >>
  THEN [ds |-> ds, flag |-> fl, res |-> OK, null |-> FALSE, failed |-> anyFail,
        drawn |-> << >>]
  ELSE LET r == DecodeOneRecon(ds, fl, Head(frames), initFail, allocFail)
           rest == DecodeFrames(r.ds, r.flag, Tail(frames), initFail, allocFail,
                                anyFail \/ r.failed)
       IN IF r.res # OK \/ r.null
          THEN [r EXCEPT !.failed = @ \/ anyFail]
          ELSE [rest EXCEPT !.drawn = r.drawn \o @]

-----------------------------------------------------------------------------
(* The packets a caller may send: a single frame, or a superframe of a    *)
(* hidden frame followed by a shown one.                                  *)
Packets(n) ==
  {<< Frame(n, sh, fl) >> : sh \in Shows, fl \in Fails}
  \cup (IF n + 1 <= MaxFrames /\ FALSE \in Shows /\ TRUE \in Shows
        THEN {<< Frame(n, FALSE, f1), Frame(n + 1, TRUE, f2) >> :
                f1 \in Fails, f2 \in Fails}
        ELSE {})

Init ==
  /\ dec = [d \in Decoders |-> InitCtx]
  /\ flag = FALSE
  /\ crashed = FALSE
  /\ next = [d \in Decoders |-> 1]
  /\ eos = [d \in Decoders |-> FALSE]
  /\ out = [d \in Decoders |-> << >>]
  /\ sent = [d \in Decoders |-> << >>]
  /\ lastCall = [d \in Decoders |-> [failed |-> FALSE, res |-> OK]]
  /\ collect = [d \in Decoders |-> FALSE]
  /\ rendered = [d \in Decoders |-> << >>]

(* The caller follows the decode loop of the codec interface: after each *)
(* vp9_decode it calls vp9_get_frame before it decodes again.             *)

(* The texture argument: vp9_decode_ex with a texture runs                *)
(* decode_one_recon_ex, which also draws each frame it takes.             *)
Render(seq, texture, drawn) == IF texture THEN seq \o drawn ELSE seq

(* vp9_decode_ex (the registered entry; vp9_decode has the same loop)   *)
(* with a packet of compressed data.                                      *)
Decode(d) ==
  /\ ~crashed /\ ~eos[d] /\ ~collect[d]
  /\ next[d] <= MaxFrames
  /\ \E p \in Packets(next[d]), initFail \in InitFails, allocFail \in AllocFails,
       texture \in Textures :
       LET r == DecodeFrames(dec[d], flag, p, initFail, allocFail, FALSE)
       IN /\ dec' = [dec EXCEPT ![d] = r.ds]
          /\ rendered' = [rendered EXCEPT ![d] = Render(@, texture, r.drawn)]
          /\ flag' = r.flag
          /\ crashed' = r.null
          /\ next' = [next EXCEPT ![d] = @ + Len(p)]
          /\ sent' = [sent EXCEPT ![d] = @ \o p]
          /\ lastCall' = [lastCall EXCEPT ![d] = [failed |-> r.failed, res |-> r.res]]
  /\ collect' = [collect EXCEPT ![d] = TRUE]
  /\ UNCHANGED <<eos, out>>

(* vp9_decode(ctx, NULL, 0): the caller signals the end of the stream.    *)
Flush(d) ==
  /\ ~crashed /\ ~collect[d]
  /\ \E texture \in Textures :
     LET r == DecodeOneRecon(dec[d], flag, FlushInput, FALSE, FALSE)
     IN /\ dec' = [dec EXCEPT ![d] = r.ds]
        /\ rendered' = [rendered EXCEPT ![d] = Render(@, texture, r.drawn)]
        /\ flag' = r.flag
        /\ crashed' = r.null
        /\ lastCall' = [lastCall EXCEPT ![d] = [failed |-> FALSE, res |-> r.res]]
  /\ eos' = [eos EXCEPT ![d] = TRUE]
  /\ collect' = [collect EXCEPT ![d] = TRUE]
  /\ UNCHANGED <<next, out, sent>>

(* vp9_get_frame: hand out ctx->img if img_avail, then clear img_avail.   *)
GetFrame(d) ==
  /\ ~crashed /\ collect[d]
  /\ out' = IF dec[d].avail THEN [out EXCEPT ![d] = Append(@, dec[d].img)]
                              ELSE out
  /\ dec' = [dec EXCEPT ![d].avail = FALSE]
  /\ collect' = [collect EXCEPT ![d] = FALSE]
  /\ UNCHANGED <<flag, crashed, next, eos, sent, lastCall, rendered>>

(* get_frame_corrupted_recon: reads pbi->l_bufpool_flag_output without    *)
(* checking that the decompressor exists.                                 *)
QueryCorrupted(d) ==
  /\ ~crashed
  /\ dec[d].init # "ok"
  /\ crashed' = TRUE
  /\ UNCHANGED <<dec, flag, next, eos, out, sent, lastCall, collect, rendered>>

Next == \E d \in Decoders :
          Decode(d) \/ Flush(d) \/ GetFrame(d) \/ QueryCorrupted(d)

Spec == Init /\ [][Next]_vars

-----------------------------------------------------------------------------
(* Properties.                                                            *)

Slot == [frame: 0..MaxFrames, show: BOOLEAN, err: BOOLEAN, fresh: BOOLEAN]
Ctx == [init: {"no", "ok", "failed"}, c: 0..(MaxFrames + 1),
        slot: [0..1 -> Slot], res: BOOLEAN, show: BOOLEAN,
        cvf: 0..(MaxFrames + 1), img: 0..MaxFrames, avail: BOOLEAN,
        outSlot: -1..1]

TypeOK ==
  /\ dec \in [Decoders -> Ctx]
  /\ flag \in BOOLEAN /\ crashed \in BOOLEAN
  /\ next \in [Decoders -> 1..(MaxFrames + 1)]
  /\ eos \in [Decoders -> BOOLEAN]
  /\ \A d \in Decoders : /\ out[d] \in Seq(1..MaxFrames)
                         /\ Len(sent[d]) = next[d] - 1
  /\ lastCall \in [Decoders -> [failed: BOOLEAN, res: {OK, ERROR}]]
  /\ collect \in [Decoders -> BOOLEAN]
  /\ rendered \in [Decoders -> Seq(1..MaxFrames)]

(* The shown frames a caller has passed to vp9_decode, in order.          *)
ShownSent(d) == [i \in 1..Len(SelectSeq(sent[d], LAMBDA f : f.show)) |->
                   SelectSeq(sent[d], LAMBDA f : f.show)[i].frame]

(* Frames come out of vp9_get_frame in the order they went in, each at   *)
(* most once, and only frames that were sent with show_frame set: the    *)
(* parity of the rotation counter, the get_raw_frame result and the      *)
(* error gate (pbi->res of the previous call) never hand out a hidden,   *)
(* repeated or reordered frame, in any mix of superframes, errors and    *)
(* flushes.  The same holds of the frames vp9_decode_ex draws into the   *)
(* caller's texture, also when a superframe takes two frames in a call.  *)
InOrderDelivery ==
  \A d \in Decoders : \A s \in {out[d], rendered[d]} :
    /\ \A i \in 1..(Len(s) - 1) : s[i] < s[i + 1]
    /\ \A i \in 1..Len(s) : s[i] \in ToSet(ShownSent(d))

(* The stream has been flushed and the last image collected.              *)
Drained(d) == eos[d] /\ dec[d].c = 0 /\ ~collect[d] /\ sent[d] # << >>

(* End to end: when no frame fails to decode, a flushed and collected   *)
(* stream has handed out every shown frame, the last one by the flush.  *)
Completeness ==
  \A d \in Decoders :
    (Drained(d) /\ dec[d].init = "ok" /\ \A i \in 1..Len(sent[d]) : ~sent[d][i].fail)
      => out[d] = ShownSent(d)

(* Errors: when receive fails on a frame, the vp9_decode call that passed *)
(* it returns an error code (update_error_state on the decode context's   *)
(* error info), as the design requires of decode-context errors.         *)
ErrorReported ==
  \A d \in Decoders : lastCall[d].failed => lastCall[d].res # OK

(* get_frame_corrupted_recon reads the slot ctx->img was last taken from: *)
(* the corrupted flag the caller gets is that of the image it got.       *)
CorruptedReadsOutputSlot ==
  \A d \in Decoders :
    dec[d].init = "ok" /\ dec[d].outSlot >= 0 => CorruptSlot(dec[d].c) = dec[d].outSlot

(* No call of the codec interface dereferences a NULL decompressor.       *)
NoNullDeref == ~crashed

(* Two decoder instances fed the same calls count the same frames:        *)
(* current_video_frame depends only on the instance's own stream.         *)
DecodersIndependent ==
  \A d, e \in Decoders :
    sent[d] = sent[e] /\ eos[d] = eos[e] /\ collect[d] = collect[e]
      => dec[d].cvf = dec[e].cvf

=============================================================================
