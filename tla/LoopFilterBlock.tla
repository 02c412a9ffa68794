--------------------------- MODULE LoopFilterBlock ---------------------------
(***************************************************************************)
(* vp9_loop_filter_block of vp9/decoder/vp9_loopfilter_recon.c: setup_mask *)
(* builds the LOOP_FILTER_MASK of one superblock (the MaskBuilder steps),  *)
(* then filter_block_plane runs once per plane (Y, then U and V unless    *)
(* y_only), each walking the masks and calling the edge filters.          *)
(***************************************************************************)
EXTENDS EdgeFilterApplier

VARIABLES
  lfl_uv,   \* lfm->lfl_uv, written by the chroma passes
  y_only,   \* the y_only argument: filter the luma plane only
  planes,   \* the planes still to filter, in loop order
  applied   \* the filter applications made so far, in order

blockVars == <<lfm, todo, phase, raw, splits, lfl_uv, y_only, planes, applied>>

Planes(luma_only) == IF luma_only THEN << "y" >> ELSE << "y", "u", "v" >>

BlockInit ==
  /\ Init
  /\ lfl_uv = [p \in 0..15 |-> 0]
  /\ y_only \in BOOLEAN
  /\ planes = Planes(y_only)
  /\ applied = << >>

(* A step of setup_mask.                                                  *)
SetupMask == Next /\ UNCHANGED <<lfl_uv, y_only, planes, applied>>

(* filter_block_plane(cm, &xd->plane[plane], mi_row, &lfm).               *)
FilterPlane ==
  /\ phase = "done"
  /\ planes # << >>
  /\ LET out == FilterBlockPlane(Head(planes), lfm, lfl_uv, MiRow, MiRows)
     IN /\ applied' = applied \o out.apps
        /\ lfl_uv' = out.lfl_uv
  /\ planes' = Tail(planes)
  /\ UNCHANGED <<lfm, todo, phase, raw, splits, y_only>>

BlockNext == SetupMask \/ FilterPlane

BlockSpec == BlockInit /\ [][BlockNext]_blockVars

-----------------------------------------------------------------------------
(* Properties.                                                            *)

(* The level of the block that covers a position: lfl_y for luma; for    *)
(* chroma that of the top-left 8x8 of its 16x16 luma area.               *)
BlockLevel(plane, pos) ==
  IF plane = "y" THEN lfm.lfl_y[pos]
  ELSE lfm.lfl_y[16 * (pos \div 4) + 2 * (pos % 4)]

(* The edges the masks ask for, plane by plane: every bit of a filtered  *)
(* tier and of the internal masks, less the horizontal edges at the top  *)
(* of the frame and the internal horizontal chroma edges whose lower    *)
(* luma half is outside the frame.                                      *)
MaskEdges(plane) ==
  LET FT == {TX_4X4, TX_8X8, TX_16X16}
      top(row) == MiRow + row = 0
      tiers(dir, F, keep(_)) ==
        UNION {{[dir |-> dir, pos |-> b, kind |-> KindOf(t)] : b \in {x \in F[t] : keep(x)}}
                 : t \in FT}
      int(dir, S) == {[dir |-> dir, pos |-> b, kind |-> "int4"] : b \in S}
      any(x) == TRUE
      belowTopY(x) == ~top(x \div 8)
      belowTopUv(x) == ~top(2 * (x \div 4))
  IN IF plane = "y"
     THEN tiers("v", lfm.left_y, any) \cup int("v", lfm.int_4x4_y)
          \cup tiers("h", lfm.above_y, belowTopY) \cup int("h", lfm.int_4x4_y)
     ELSE tiers("v", lfm.left_uv, any) \cup int("v", lfm.int_4x4_uv)
          \cup tiers("h", lfm.above_uv, belowTopUv)
          \cup int("h", {x \in lfm.int_4x4_uv : MiRow + 2 * (x \div 4) # MiRows - 1})

Edge(a) == [dir |-> a.dir, pos |-> a.pos, kind |-> a.kind]

(* Once vp9_loop_filter_block has walked every plane, each edge the      *)
(* masks of setup_mask select has been filtered exactly once, with the   *)
(* filter of its tier, and no other edge has: the dual calls and the     *)
(* count = 2 steps of the walks neither skip nor repeat a position.      *)
EdgesFilteredOnce ==
  (phase = "done" /\ planes = << >>) =>
    /\ \A i, j \in 1..Len(applied) :
         i # j => applied[i].plane # applied[j].plane \/ Edge(applied[i]) # Edge(applied[j])
    /\ \A pl \in {p \in {"y", "u", "v"} : ~y_only \/ p = "y"} :
         {Edge(applied[i]) : i \in {k \in 1..Len(applied) : applied[k].plane = pl}}
           = MaskEdges(pl)

(* Every filter call is given the thresholds of the block the edge       *)
(* belongs to, also where one dual call covers two positions with the    *)
(* thresholds of the first (vp9_lpf_horizontal_16 with count 2 and      *)
(* vp9_lpf_vertical_16_dual) and where the chroma levels are copied     *)
(* from lfl_y into lfl_uv.                                               *)
OwnThresholds ==
  \A i \in 1..Len(applied) :
    applied[i].lvl = BlockLevel(applied[i].plane, applied[i].pos)

(* No filter call is given the thresholds of level 0 (lfthr[0]): a block *)
(* whose level is 0 is never filtered, neither through its own mask bits *)
(* (the filter_level check of build_masks) nor through a dual call or a  *)
(* chroma level that lfl_uv takes from another row or keeps from before. *)
NoFilterAtLevelZero ==
  \A i \in 1..Len(applied) : applied[i].lvl # 0

=============================================================================
