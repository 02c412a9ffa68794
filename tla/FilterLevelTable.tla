--------------------------- MODULE FilterLevelTable ---------------------------
(***************************************************************************)
(* The filter level and threshold tables of                                *)
(* vp9/decoder/vp9_loopfilter_recon.c: vp9_loop_filter_init_wpp when the   *)
(* decoder is created, and vp9_loop_filter_frame_init_wpp for every frame  *)
(* that is filtered, with the memoised rebuild of the thresholds when the  *)
(* sharpness changes.                                                      *)
(*                                                                         *)
(* The frame header that sets filter_level and sharpness_level is parsed  *)
(* outside this source tree, and so is the call of the frame init (made   *)
(* only when filter_level is not 0); both are taken from the design notes. *)
(***************************************************************************)
EXTENDS Integers, FiniteSets

CONSTANTS
  Segments,        \* segment ids (MAX_SEGMENTS of them in the code)
  FilterLevels,    \* filter_level values a frame header may carry
  Sharpnesses,     \* sharpness_level values a frame header may carry
  SegData,         \* SEG_LVL_ALT_LF data values a segment may carry
  RefDeltas,       \* ref_deltas vectors a header may carry
  ModeDeltas       \* mode_deltas vectors a header may carry

MAX_LOOP_FILTER == 63
INTRA_FRAME == 0
Refs == 0..3          \* INTRA_FRAME, LAST_FRAME, GOLDEN_FRAME, ALTREF_FRAME
ModeClasses == 0..1   \* MAX_MODE_LF_DELTAS
AllLevels == 0..MAX_LOOP_FILTER

ASSUME FilterLevels \subseteq AllLevels /\ Sharpnesses \subseteq 0..7
ASSUME SegData \subseteq -MAX_LOOP_FILTER..MAX_LOOP_FILTER
ASSUME /\ \A rd \in RefDeltas : DOMAIN rd = Refs
       /\ \A md \in ModeDeltas : DOMAIN md = ModeClasses

VARIABLES
  lvl,                   \* lfi->lvl[seg][ref][mode], uint8_t
  lfthr,                 \* lfi->lfthr[level]: lim, mblim and hev_thr
  sharpness_level,       \* lf->sharpness_level
  last_sharpness_level,  \* lf->last_sharpness_level
  filter_level,          \* lf->filter_level of the current frame
  phase                  \* "header": header read; "ready": frame set up

vars == <<lvl, lfthr, sharpness_level, last_sharpness_level, filter_level, phase>>

-----------------------------------------------------------------------------
clamp(v, lo, hi) == IF v < lo THEN lo ELSE IF v > hi THEN hi ELSE v

(* A byte store: an int written through vpx_memset into uint8_t.          *)
U8(v) == v % 256

(* mode_lf_lut: the mode class of each prediction mode (the ten intra   *)
(* modes and ZEROMV are class 0; NEARESTMV, NEARMV and NEWMV class 1).    *)
Modes == 0..13
mode_lf_lut(m) == IF m \in 0..9 \cup {12} THEN 0 ELSE 1

(* Mutation: no floor of 1 on the inside limit.                         *)
BlockInsideLimitNoFloor(l, s) ==
  LET shifted == l \div (2 ^ ((IF s > 0 THEN 1 ELSE 0) + (IF s > 4 THEN 1 ELSE 0)))
  IN IF s > 0 /\ shifted > 9 - s THEN 9 - s ELSE shifted

(* update_sharpness: the lim and mblim thresholds of one level.           *)
BlockInsideLimit(l, s) ==
  LET shifted == l \div (2 ^ ((IF s > 0 THEN 1 ELSE 0) + (IF s > 4 THEN 1 ELSE 0)))
      capped == IF s > 0 /\ shifted > 9 - s THEN 9 - s ELSE shifted
  IN IF capped < 1 THEN 1 ELSE capped
UpdateSharpness(thr, s) ==
  [l \in AllLevels |-> [thr[l] EXCEPT !.lim = BlockInsideLimit(l, s),
                                      !.mblim = 2 * (l + 2) + BlockInsideLimit(l, s)]]

(* Mutation: the memo compares with the wrong relation.                   *)
SharpnessIncreased(last, s) == last < s

(* The thresholds are rebuilt only when the sharpness changed.            *)
SharpnessChanged(last, s) == last # s

(* The segment's level: absolute data as it is, a delta clamped.          *)
SegLevel(dfl, active, data, abs) ==
  IF ~active THEN dfl
  ELSE IF abs THEN data ELSE clamp(dfl + data, 0, MAX_LOOP_FILTER)

(* Mutation: no clamp on the reference and mode deltas.                   *)
LevelsNoClamp(old, lvl_seg, enabled, rd, md, scale) ==
  [r \in Refs, m \in ModeClasses |->
     IF ~enabled THEN U8(lvl_seg)
     ELSE IF r = INTRA_FRAME THEN U8(lvl_seg + rd[INTRA_FRAME] * scale)
     ELSE U8(lvl_seg + rd[r] * scale + md[m] * scale)]

(* The level table of one segment.  With deltas disabled every entry is   *)
(* the segment level stored as a byte; with deltas enabled the intra     *)
(* entry of class 0 and every inter entry are clamped, and the intra     *)
(* entry of class 1 keeps what it held.                                   *)
SegmentLevels(old, lvl_seg, enabled, rd, md, scale) ==
  [r \in Refs, m \in ModeClasses |->
     IF ~enabled THEN U8(lvl_seg)
     ELSE IF r = INTRA_FRAME
          THEN IF m = 0 THEN clamp(lvl_seg + rd[INTRA_FRAME] * scale, 0, MAX_LOOP_FILTER)
               ELSE old[r, m]
          ELSE clamp(lvl_seg + rd[r] * scale + md[m] * scale, 0, MAX_LOOP_FILTER)]

-----------------------------------------------------------------------------
(* vp9_loop_filter_init_wpp on a zeroed VP9_COMMON.                       *)
Init ==
  /\ sharpness_level = 0
  /\ last_sharpness_level = 0
  /\ lfthr = UpdateSharpness([l \in AllLevels |->
                                [lim |-> 0, mblim |-> 0, hev_thr |-> l \div 16]], 0)
  /\ lvl = [s \in Segments |-> [r \in Refs, m \in ModeClasses |-> 0]]
  /\ filter_level = 0
  /\ phase = "ready"

(* The next frame header: its filter level and sharpness.                 *)
ReadHeader ==
  /\ phase = "ready"
  /\ \E l \in FilterLevels, s \in Sharpnesses :
       /\ filter_level' = l
       /\ sharpness_level' = s
       /\ phase' = IF l = 0 THEN "ready" ELSE "header"
  /\ UNCHANGED <<lvl, lfthr, last_sharpness_level>>

(* vp9_loop_filter_frame_init_wpp(cm, filter_level), with the frame's     *)
(* segmentation and delta parameters.                                     *)
FrameInit ==
  /\ phase = "header"
  /\ \E active \in [Segments -> BOOLEAN], data \in [Segments -> SegData],
        abs \in BOOLEAN, enabled \in BOOLEAN, rd \in RefDeltas, md \in ModeDeltas :
       LET dfl == filter_level
           scale == 2 ^ (dfl \div 32)
       IN lvl' = [s \in Segments |->
                    SegmentLevels(lvl[s], SegLevel(dfl, active[s], data[s], abs),
                                  enabled, rd, md, scale)]
  /\ IF SharpnessChanged(last_sharpness_level, sharpness_level)
     THEN /\ lfthr' = UpdateSharpness(lfthr, sharpness_level)
          /\ last_sharpness_level' = sharpness_level
     ELSE UNCHANGED <<lfthr, last_sharpness_level>>
  /\ phase' = "ready"
  /\ UNCHANGED <<sharpness_level, filter_level>>

Next == ReadHeader \/ FrameInit

Spec == Init /\ [][Next]_vars

-----------------------------------------------------------------------------
(* Properties.                                                            *)

TypeOK ==
  /\ lvl \in [Segments -> [Refs \X ModeClasses -> 0..255]]
  /\ lfthr \in [AllLevels -> [lim: 1..MAX_LOOP_FILTER, mblim: 0..255, hev_thr: 0..3]]
  /\ sharpness_level \in Sharpnesses \cup {0}
  /\ last_sharpness_level \in Sharpnesses \cup {0}
  /\ filter_level \in FilterLevels \cup {0}
  /\ phase \in {"header", "ready"}

(* The entries build_masks reads: lvl[seg][ref][mode_lf_lut[mode]] for   *)
(* the modes a block of that reference can have.                          *)
ReadEntries ==
  {<<s, r, mode_lf_lut(m)>> : s \in Segments, r \in {INTRA_FRAME}, m \in 0..9}
  \cup {<<s, r, mode_lf_lut(m)>> : s \in Segments, r \in Refs \ {INTRA_FRAME}, m \in 10..13}

(* Every level build_masks can read for a filtered frame indexes lfthr:  *)
(* it is at most MAX_LOOP_FILTER, whatever the segment data, deltas and  *)
(* earlier frames.                                                        *)
LevelIndexInRange ==
  phase = "ready" /\ filter_level > 0 =>
    \A e \in ReadEntries : lvl[e[1]][e[2], e[3]] \in AllLevels

(* A filtered frame uses the thresholds of its own sharpness: the memo   *)
(* last_sharpness_level never leaves thresholds of an earlier sharpness  *)
(* in place, also across frames that were not filtered.                  *)
ThresholdsCurrent ==
  phase = "ready" /\ filter_level > 0 =>
    \A l \in AllLevels :
      /\ lfthr[l].lim = BlockInsideLimit(l, sharpness_level)
      /\ lfthr[l].mblim = 2 * (l + 2) + lfthr[l].lim

=============================================================================
