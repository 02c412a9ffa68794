------------------------------ MODULE MaskBuilder ------------------------------
(***************************************************************************)
(* setup_mask, build_masks and build_y_mask of                             *)
(* vp9/decoder/vp9_loopfilter_recon.c: the bitmasks that say which edges   *)
(* of one 64x64 superblock the loop filter touches, and with which filter. *)
(*                                                                         *)
(* A 64-bit luma word is modelled as the set of its set bit positions      *)
(* (bit 8*row + col is the 8x8 unit at that row and column of the          *)
(* superblock); a 16-bit chroma word likewise (bit 4*row + col, one unit   *)
(* per 16x16 luma pixels).  A shift drops the bits that leave the word.    *)
(*                                                                         *)
(* The traversal of the partition tree is kept step for step: a work list  *)
(* holds the nodes still to visit and the build_masks / build_y_mask calls *)
(* still to make, in the order of the code's nested loops.  The mode info  *)
(* of a block is chosen when the call that reads it is made.               *)
(***************************************************************************)
EXTENDS Integers, FiniteSets, Sequences

CONSTANTS
  MiRows, MiCols,   \* cm->mi_rows, cm->mi_cols: frame size in 8x8 units
  MiRow, MiCol,     \* mi_row, mi_col: the superblock being set up
  Levels,           \* filter levels a block may look up (0 = not filtered)
  Refs,             \* ref_frame[0] values a block may have (0 = INTRA_FRAME)
  BlockSizes,       \* block sizes <<w, h>> (in 8x8 units) the stream may use
  MaxSplits         \* bound on the splits the bitstream does not force

ASSUME MiRow % 8 = 0 /\ MiCol % 8 = 0
ASSUME MiRow < MiRows /\ MiCol < MiCols
ASSUME Levels \subseteq 0..63
ASSUME Refs \subseteq 0..3
ASSUME MaxSplits \in Nat

VARIABLES
  lfm,     \* the LOOP_FILTER_MASK being built
  todo,    \* pending node visits and mask-building calls, in code order
  phase,   \* "build" while traversing, "done" once setup_mask returned
  raw,     \* history: lfm as it was when the traversal ended
  splits   \* unforced splits taken so far (bounds the input)

vars == <<lfm, todo, phase, raw, splits>>

-----------------------------------------------------------------------------
(* Transform sizes TX_4X4 .. TX_32X32 and the reference frame constant.   *)
TX_4X4 == 0
TX_8X8 == 1
TX_16X16 == 2
TX_32X32 == 3
TxSizes == TX_4X4..TX_32X32
INTRA_FRAME == 0

Bits(w) == 0..(w - 1)

(* x << k on a w-bit word: positions that leave the word are lost.        *)
Shl(S, k, w) == {b + k : b \in S} \cap Bits(w)

W(bs) == bs[1]   \* num_8x8_blocks_wide_lookup
H(bs) == bs[2]   \* num_8x8_blocks_high_lookup
WUv(bs) == IF bs[1] > 1 THEN bs[1] \div 2 ELSE 1
HUv(bs) == IF bs[2] > 1 THEN bs[2] \div 2 ELSE 1

(* max_txsize_lookup: the largest transform of a block size.              *)
MaxTxSize(bs) ==
  LET m == IF W(bs) < H(bs) THEN W(bs) ELSE H(bs)
  IN CASE m = 1 -> TX_8X8 [] m = 2 -> TX_16X16 [] OTHER -> TX_32X32

(* get_uv_tx_size: the luma transform capped by the largest transform of *)
(* the 4:2:0 chroma block.                                                *)
UvTxSize(bs, tx) ==
  LET m == IF W(bs) < H(bs) THEN W(bs) ELSE H(bs)
      cap == CASE m = 1 -> TX_4X4 [] m = 2 -> TX_8X8
               [] m = 4 -> TX_16X16 [] OTHER -> TX_32X32
  IN IF tx < cap THEN tx ELSE cap

(* The constant tables of the file, as the sets of their set bits.        *)
left_prediction_mask(bs) == {8 * i : i \in 0..(H(bs) - 1)}
above_prediction_mask(bs) == 0..(W(bs) - 1)
size_mask(bs) == {8 * i + j : i \in 0..(H(bs) - 1), j \in 0..(W(bs) - 1)}
left_prediction_mask_uv(bs) == {4 * i : i \in 0..(HUv(bs) - 1)}
above_prediction_mask_uv(bs) == 0..(WUv(bs) - 1)
size_mask_uv(bs) == {4 * i + j : i \in 0..(HUv(bs) - 1), j \in 0..(WUv(bs) - 1)}

\* Every (16x16: 2nd, 32x32: 4th) column or row carries a transform edge.
TxStep(tx) == CASE tx = TX_16X16 -> 2 [] tx = TX_32X32 -> 4 [] OTHER -> 1
left_64x64_txform_mask(tx) == {b \in Bits(64) : (b % 8) % TxStep(tx) = 0}
above_64x64_txform_mask(tx) == {b \in Bits(64) : (b \div 8) % TxStep(tx) = 0}
left_64x64_txform_mask_uv(tx) == {b \in Bits(16) : (b % 4) % TxStep(tx) = 0}
above_64x64_txform_mask_uv(tx) == {b \in Bits(16) : (b \div 4) % TxStep(tx) = 0}

left_border == {b \in Bits(64) : b % 4 = 0}            \* 0x1111111111111111
above_border == {b \in Bits(64) : (b \div 8) % 4 = 0}  \* 0x000000ff000000ff
left_border_uv == {b \in Bits(16) : b % 4 = 0}         \* 0x1111
above_border_uv == 0..3                                \* 0x000f

EmptyTiers == [t \in TxSizes |-> {}]
ZeroMask ==
  [left_y |-> EmptyTiers, above_y |-> EmptyTiers, int_4x4_y |-> {},
   left_uv |-> EmptyTiers, above_uv |-> EmptyTiers, int_4x4_uv |-> {},
   lfl_y |-> [p \in Bits(64) |-> 0]]

-----------------------------------------------------------------------------
(* Mode info of one block: the fields of MB_MODE_INFO the masks read.     *)
(* The filter level stands for lfi_n->lvl[seg][ref][mode_lf_lut[mode]].   *)
ModeInfo(bs) ==
  [sb_type: {bs}, tx_size: TX_4X4..MaxTxSize(bs), skip_coeff: BOOLEAN,
   ref_frame: Refs, filter_level: Levels]

(* build_y_mask: the luma half of build_masks.                            *)
BuildYMask(m, mi, shift_y) ==
  LET bs == mi.sb_type
      tx == mi.tx_size
      pred == [m EXCEPT
                !.lfl_y = [p \in Bits(64) |->
                             IF p \in Shl(size_mask(bs), shift_y, 64)
                             THEN mi.filter_level ELSE @[p]],
                !.above_y[tx] = @ \cup Shl(above_prediction_mask(bs), shift_y, 64),
                !.left_y[tx] = @ \cup Shl(left_prediction_mask(bs), shift_y, 64)]
      txed == [pred EXCEPT
                !.above_y[tx] = @ \cup Shl(size_mask(bs) \cap above_64x64_txform_mask(tx), shift_y, 64),
                !.left_y[tx] = @ \cup Shl(size_mask(bs) \cap left_64x64_txform_mask(tx), shift_y, 64),
                !.int_4x4_y = IF tx = TX_4X4
                              THEN @ \cup Shl(size_mask(bs), shift_y, 64) ELSE @]
  IN CASE mi.filter_level = 0 -> m
       [] mi.skip_coeff /\ mi.ref_frame > INTRA_FRAME -> pred
       [] OTHER -> txed

(* Mutation: build_masks without the early return on filter level 0.    *)
BuildMasksNoLevelCheck(m, mi, shift_y, shift_uv) ==
  LET bs == mi.sb_type
      tuv == UvTxSize(bs, mi.tx_size)
      y == [m EXCEPT
              !.lfl_y = [p \in Bits(64) |->
                           IF p \in Shl(size_mask(bs), shift_y, 64)
                           THEN mi.filter_level ELSE @[p]],
              !.above_y[mi.tx_size] = @ \cup Shl(above_prediction_mask(bs), shift_y, 64),
              !.left_y[mi.tx_size] = @ \cup Shl(left_prediction_mask(bs), shift_y, 64)]
  IN [y EXCEPT
        !.above_uv[tuv] = @ \cup Shl(above_prediction_mask_uv(bs), shift_uv, 16),
        !.left_uv[tuv] = @ \cup Shl(left_prediction_mask_uv(bs), shift_uv, 16)]

(* build_masks: build_y_mask plus the chroma words, with the chroma        *)
(* transform size.                                                         *)
BuildMasks(m, mi, shift_y, shift_uv) ==
  LET bs == mi.sb_type
      tuv == UvTxSize(bs, mi.tx_size)
      y == BuildYMask(m, mi, shift_y)
      pred == [y EXCEPT
                !.above_uv[tuv] = @ \cup Shl(above_prediction_mask_uv(bs), shift_uv, 16),
                !.left_uv[tuv] = @ \cup Shl(left_prediction_mask_uv(bs), shift_uv, 16)]
      txed == [pred EXCEPT
                !.above_uv[tuv] = @ \cup Shl(size_mask_uv(bs) \cap above_64x64_txform_mask_uv(tuv), shift_uv, 16),
                !.left_uv[tuv] = @ \cup Shl(size_mask_uv(bs) \cap left_64x64_txform_mask_uv(tuv), shift_uv, 16),
                !.int_4x4_uv = IF tuv = TX_4X4
                               THEN @ \cup Shl(size_mask_uv(bs), shift_uv, 16) ELSE @]
  IN CASE mi.filter_level = 0 -> m
       [] mi.skip_coeff /\ mi.ref_frame > INTRA_FRAME -> pred
       [] OTHER -> txed

-----------------------------------------------------------------------------
(* The partition tree walk of setup_mask.                                 *)

(* max_rows / max_cols: 8x8 rows and columns of this superblock inside    *)
(* the frame.                                                             *)
max_rows == IF MiRow + 8 > MiRows THEN MiRows - MiRow ELSE 8
max_cols == IF MiCol + 8 > MiCols THEN MiCols - MiCol ELSE 8

ShiftY(r, c) == 8 * r + c
ShiftUv(r, c) == 4 * (r \div 2) + (c \div 2)

Item(op, bs, r, c) == [op |-> op, bs |-> bs, r |-> r, c |-> c]
Node(n, r, c) == Item("node", <<n, n>>, r, c)
InFrame(it) == it.r < max_rows /\ it.c < max_cols

(* The partitions the bitstream allows at a node of n x n units: a node   *)
(* whose lower (right) half starts outside the frame is split, or cut     *)
(* horizontally (vertically); a node with both halves outside is split.   *)
PartitionOptions(n, r, c) ==
  LET h == n \div 2
      has_rows == r + h < max_rows
      has_cols == c + h < max_cols
  IN CASE has_rows /\ has_cols -> {"NONE", "HORZ", "VERT", "SPLIT"}
       [] has_cols -> {"HORZ", "SPLIT"}
       [] has_rows -> {"VERT", "SPLIT"}
       [] OTHER -> {"SPLIT"}

(* Mutation: the second half and the children are visited even when     *)
(* they start outside the frame.                                          *)
ExpandNoSkip(n, r, c, p) ==
  LET h == n \div 2
      second == IF n = 2 THEN "ymask" ELSE "masks"
  IN CASE p = "NONE" -> << Item("masks", <<n, n>>, r, c) >>
       [] p = "HORZ" -> << Item("masks", <<n, h>>, r, c), Item(second, <<n, h>>, r + h, c) >>
       [] p = "VERT" -> << Item("masks", <<h, n>>, r, c), Item(second, <<h, n>>, r, c + h) >>
       [] n = 2 -> << Item("masks", <<1, 1>>, r, c), Item("ymask", <<1, 1>>, r, c + 1),
                     Item("ymask", <<1, 1>>, r + 1, c), Item("ymask", <<1, 1>>, r + 1, c + 1) >>
       [] OTHER -> << Node(h, r, c), Node(h, r, c + h), Node(h, r + h, c), Node(h, r + h, c + h) >>

(* The calls and visits a node makes for partition p, in code order.  The *)
(* second half of a cut node and every child of a split node is skipped  *)
(* when it starts outside the frame; below 16x16 the second half and the *)
(* three later 8x8 blocks only update the luma masks.                    *)
Expand(n, r, c, p) ==
  LET h == n \div 2
      second == IF n = 2 THEN "ymask" ELSE "masks"
      Keep(s) == SelectSeq(s, InFrame)
  IN CASE p = "NONE" -> << Item("masks", <<n, n>>, r, c) >>
       [] p = "HORZ" -> << Item("masks", <<n, h>>, r, c) >>
                         \o Keep(<< Item(second, <<n, h>>, r + h, c) >>)
       [] p = "VERT" -> << Item("masks", <<h, n>>, r, c) >>
                         \o Keep(<< Item(second, <<h, n>>, r, c + h) >>)
       [] n = 2 -> << Item("masks", <<1, 1>>, r, c) >>
                   \o Keep(<< Item("ymask", <<1, 1>>, r, c + 1),
                             Item("ymask", <<1, 1>>, r + 1, c),
                             Item("ymask", <<1, 1>>, r + 1, c + 1) >>)
       [] OTHER -> Keep(<< Node(h, r, c), Node(h, r, c + h),
                           Node(h, r + h, c), Node(h, r + h, c + h) >>)

(* The block size a partition gives a node (for a split, its square      *)
(* quarters).                                                             *)
PartSize(n, p) ==
  CASE p = "NONE" -> <<n, n>> [] p = "HORZ" -> <<n, n \div 2>>
    [] p = "VERT" -> <<n \div 2, n>> [] OTHER -> <<n \div 2, n \div 2>>

(* Bounding the input: block sizes come from BlockSizes, and at most      *)
(* MaxSplits nodes are split where the bitstream leaves a choice.  Only   *)
(* partitions whose subtree can be finished within these bounds are      *)
(* taken, so every walk reaches the end of setup_mask.                    *)
Forced(n, r, c) == PartitionOptions(n, r, c) = {"SPLIT"}
SubNodes(n, r, c) ==
  LET h == n \div 2
  IN {nd \in {Node(h, r, c), Node(h, r, c + h), Node(h, r + h, c),
              Node(h, r + h, c + h)} : InFrame(nd)}
RECURSIVE Feasible(_, _, _)
Feasible(n, r, c) ==
  \E p \in PartitionOptions(n, r, c) :
    /\ PartSize(n, p) \in BlockSizes
    /\ p = "SPLIT" => /\ Forced(n, r, c)
                      /\ n > 2 => \A nd \in SubNodes(n, r, c) :
                                    Feasible(nd.bs[1], nd.r, nd.c)
Allowed(n, r, c, p, nsplits) ==
  /\ PartSize(n, p) \in BlockSizes
  /\ p = "SPLIT" /\ ~Forced(n, r, c) => nsplits < MaxSplits
  /\ p = "SPLIT" /\ n > 2 => \A nd \in SubNodes(n, r, c) :
                               Feasible(nd.bs[1], nd.r, nd.c)

(* The 32x32 tier is merged into the 16x16 one; a 4x4 edge on the 32-   *)
(* pixel grid is filtered with the 8-tap filter instead.                 *)
MergeTiers(m) ==
  LET m1 == [m EXCEPT
              !.left_y[TX_16X16] = @ \cup m.left_y[TX_32X32],
              !.above_y[TX_16X16] = @ \cup m.above_y[TX_32X32],
              !.left_uv[TX_16X16] = @ \cup m.left_uv[TX_32X32],
              !.above_uv[TX_16X16] = @ \cup m.above_uv[TX_32X32]]
  IN [m1 EXCEPT
        !.left_y[TX_8X8] = @ \cup (m1.left_y[TX_4X4] \cap left_border),
        !.left_y[TX_4X4] = @ \ left_border,
        !.above_y[TX_8X8] = @ \cup (m1.above_y[TX_4X4] \cap above_border),
        !.above_y[TX_4X4] = @ \ above_border,
        !.left_uv[TX_8X8] = @ \cup (m1.left_uv[TX_4X4] \cap left_border_uv),
        !.left_uv[TX_4X4] = @ \ left_border_uv,
        !.above_uv[TX_8X8] = @ \cup (m1.above_uv[TX_4X4] \cap above_border_uv),
        !.above_uv[TX_4X4] = @ \ above_border_uv]

(* Keep only the positions in keepY / keepUv of the tiers below 32x32.    *)
Truncate(m, keepY, keepUv, keepUvInt) ==
  [m EXCEPT
     !.left_y = [t \in TxSizes |-> IF t < TX_32X32 THEN @[t] \cap keepY ELSE @[t]],
     !.above_y = [t \in TxSizes |-> IF t < TX_32X32 THEN @[t] \cap keepY ELSE @[t]],
     !.left_uv = [t \in TxSizes |-> IF t < TX_32X32 THEN @[t] \cap keepUv ELSE @[t]],
     !.above_uv = [t \in TxSizes |-> IF t < TX_32X32 THEN @[t] \cap keepUv ELSE @[t]],
     !.int_4x4_y = @ \cap keepY,
     !.int_4x4_uv = @ \cap keepUvInt]

(* Mutation: the demoted bits are added to the 8x8 tier but left in the  *)
(* 16x16 one.                                                             *)
DemoteAboveUvCopy(m, S) ==
  [m EXCEPT !.above_uv[TX_8X8] = @ \cup (m.above_uv[TX_16X16] \cap S)]
DemoteLeftUvCopy(m, S) ==
  [m EXCEPT !.left_uv[TX_8X8] = @ \cup (m.left_uv[TX_16X16] \cap S)]

(* Move the chroma 16x16 bits in positions S to the 8x8 tier.             *)
DemoteAboveUv(m, S) ==
  [m EXCEPT !.above_uv[TX_8X8] = @ \cup (m.above_uv[TX_16X16] \cap S),
            !.above_uv[TX_16X16] = @ \ S]
DemoteLeftUv(m, S) ==
  [m EXCEPT !.left_uv[TX_8X8] = @ \cup (m.left_uv[TX_16X16] \cap S),
            !.left_uv[TX_16X16] = @ \ S]

(* Mutations of the bottom-edge cut: the rows == 5 case is missing; the  *)
(* chroma mask keeps as many rows as the luma one.                        *)
TrimRowsNo5(m) ==
  IF MiRow + 8 > MiRows
  THEN LET rows == MiRows - MiRow
           t == Truncate(m, {b \in Bits(64) : b \div 8 < rows},
                         {b \in Bits(16) : b \div 4 < (rows + 1) \div 2},
                         {b \in Bits(16) : b \div 4 < (rows + 1) \div 2})
       IN IF rows = 1 THEN DemoteAboveUv(t, Bits(16)) ELSE t
  ELSE m
TrimRowsNoHalve(m) ==
  IF MiRow + 8 > MiRows
  THEN LET rows == MiRows - MiRow
           t == Truncate(m, {b \in Bits(64) : b \div 8 < rows},
                         {b \in Bits(16) : b \div 4 < rows},
                         {b \in Bits(16) : b \div 4 < rows})
       IN CASE rows = 1 -> DemoteAboveUv(t, Bits(16))
            [] rows = 5 -> DemoteAboveUv(t, 8..15)
            [] OTHER -> t
  ELSE m

(* Bottom edge of the frame inside this superblock.                       *)
TrimRows(m) ==
  IF MiRow + 8 > MiRows
  THEN LET rows == MiRows - MiRow
           mask_y == {b \in Bits(64) : b \div 8 < rows}
           mask_uv == {b \in Bits(16) : b \div 4 < (rows + 1) \div 2}
           t == Truncate(m, mask_y, mask_uv, mask_uv)
       IN CASE rows = 1 -> DemoteAboveUv(t, Bits(16))
            [] rows = 5 -> DemoteAboveUv(t, 8..15)
            [] OTHER -> t
  ELSE m

(* Mutations of the right-edge cut: the columns == 5 case is missing;    *)
(* the internal 4x4 chroma mask keeps the half column.                    *)
TrimColsNo5(m) ==
  IF MiCol + 8 > MiCols
  THEN LET columns == MiCols - MiCol
           t == Truncate(m, {b \in Bits(64) : b % 8 < columns},
                         {b \in Bits(16) : b % 4 < (columns + 1) \div 2},
                         {b \in Bits(16) : b % 4 < columns \div 2})
       IN IF columns = 1 THEN DemoteLeftUv(t, Bits(16)) ELSE t
  ELSE m
TrimColsIntHalf(m) ==
  IF MiCol + 8 > MiCols
  THEN LET columns == MiCols - MiCol
           mask_uv == {b \in Bits(16) : b % 4 < (columns + 1) \div 2}
           t == Truncate(m, {b \in Bits(64) : b % 8 < columns}, mask_uv, mask_uv)
       IN CASE columns = 1 -> DemoteLeftUv(t, Bits(16))
            [] columns = 5 -> DemoteLeftUv(t, {b \in Bits(16) : b % 4 >= 2})
            [] OTHER -> t
  ELSE m

(* Right edge of the frame inside this superblock.                        *)
TrimCols(m) ==
  IF MiCol + 8 > MiCols
  THEN LET columns == MiCols - MiCol
           mask_y == {b \in Bits(64) : b % 8 < columns}
           mask_uv == {b \in Bits(16) : b % 4 < (columns + 1) \div 2}
           mask_uv_int == {b \in Bits(16) : b % 4 < columns \div 2}
           t == Truncate(m, mask_y, mask_uv, mask_uv_int)
       IN CASE columns = 1 -> DemoteLeftUv(t, Bits(16))
            [] columns = 5 -> DemoteLeftUv(t, {b \in Bits(16) : b % 4 >= 2})
            [] OTHER -> t
  ELSE m

(* No left edge is filtered on the first column of the frame.             *)
TrimFirstCol(m) ==
  IF MiCol = 0
  THEN [m EXCEPT
          !.left_y = [t \in TxSizes |-> IF t < TX_32X32 THEN @[t] \ {b \in Bits(64) : b % 8 = 0} ELSE @[t]],
          !.left_uv = [t \in TxSizes |-> IF t < TX_32X32 THEN @[t] \ {b \in Bits(16) : b % 4 = 0} ELSE @[t]]]
  ELSE m

FinishMask(m) == TrimFirstCol(TrimCols(TrimRows(MergeTiers(m))))

-----------------------------------------------------------------------------
Init ==
  /\ lfm = ZeroMask
  /\ todo = << Node(8, 0, 0) >>
  /\ phase = "build"
  /\ raw = ZeroMask
  /\ splits = 0

(* One iteration of a partition loop: dispatch on the sb_type of the      *)
(* block at the node's corner.                                            *)
VisitNode ==
  /\ phase = "build"
  /\ todo # << >>
  /\ Head(todo).op = "node"
  /\ LET it == Head(todo)
         n == it.bs[1]
     IN \E p \in PartitionOptions(n, it.r, it.c) :
          /\ Allowed(n, it.r, it.c, p, splits)
          /\ todo' = Expand(n, it.r, it.c, p) \o Tail(todo)
          /\ splits' = IF p = "SPLIT" /\ ~Forced(n, it.r, it.c)
                       THEN splits + 1 ELSE splits
  /\ UNCHANGED <<lfm, phase, raw>>

(* build_masks(lfi_n, mip[0], shift_y, shift_uv, lfm).                    *)
CallBuildMasks ==
  /\ phase = "build"
  /\ todo # << >>
  /\ Head(todo).op = "masks"
  /\ LET it == Head(todo)
     IN \E mi \in ModeInfo(it.bs) :
          lfm' = BuildMasks(lfm, mi, ShiftY(it.r, it.c), ShiftUv(it.r, it.c))
  /\ todo' = Tail(todo)
  /\ UNCHANGED <<phase, raw, splits>>

(* build_y_mask(lfi_n, mip[0], shift_y, lfm).                             *)
CallBuildYMask ==
  /\ phase = "build"
  /\ todo # << >>
  /\ Head(todo).op = "ymask"
  /\ LET it == Head(todo)
     IN \E mi \in ModeInfo(it.bs) :
          lfm' = BuildYMask(lfm, mi, ShiftY(it.r, it.c))
  /\ todo' = Tail(todo)
  /\ UNCHANGED <<phase, raw, splits>>

(* The tail of setup_mask after the walk.                                 *)
Finish ==
  /\ phase = "build"
  /\ todo = << >>
  /\ lfm' = FinishMask(lfm)
  /\ raw' = lfm
  /\ phase' = "done"
  /\ UNCHANGED <<todo, splits>>

Next == VisitNode \/ CallBuildMasks \/ CallBuildYMask \/ Finish

Spec == Init /\ [][Next]_vars

-----------------------------------------------------------------------------
(* Properties.                                                            *)

Tiers == [TxSizes -> SUBSET Bits(64)]
TiersUv == [TxSizes -> SUBSET Bits(16)]

TypeOK ==
  /\ lfm.left_y \in Tiers /\ lfm.above_y \in Tiers
  /\ lfm.left_uv \in TiersUv /\ lfm.above_uv \in TiersUv
  /\ lfm.int_4x4_y \subseteq Bits(64) /\ lfm.int_4x4_uv \subseteq Bits(16)
  /\ lfm.lfl_y \in [Bits(64) -> {0} \cup Levels]
  /\ phase \in {"build", "done"}
  /\ splits \in 0..MaxSplits
  /\ phase = "done" => todo = << >>
  /\ \A i \in 1..Len(todo) : InFrame(todo[i])

(* The tiers the filters read (4x4, 8x8, 16x16) and all four tiers.       *)
Filtered(F) == F[TX_4X4] \cup F[TX_8X8] \cup F[TX_16X16]
AllTiers(F) == Filtered(F) \cup F[TX_32X32]

Disjoint(F, int) ==
  /\ F[TX_16X16] \cap F[TX_8X8] = {}
  /\ F[TX_16X16] \cap F[TX_4X4] = {}
  /\ F[TX_8X8] \cap F[TX_4X4] = {}
  /\ int \cap F[TX_16X16] = {}

(* The assertions that close setup_mask: no edge is given two different   *)
(* filters, and no internal 4x4 edge lies in a block filtered 16 wide.    *)
MasksDisjoint ==
  phase = "done" =>
    /\ Disjoint(lfm.left_y, lfm.int_4x4_y)
    /\ Disjoint(lfm.above_y, lfm.int_4x4_y)
    /\ Disjoint(lfm.left_uv, lfm.int_4x4_uv)
    /\ Disjoint(lfm.above_uv, lfm.int_4x4_uv)

(* Units of the superblock inside the frame.                              *)
InFrameY == {b \in Bits(64) : b \div 8 < max_rows /\ b % 8 < max_cols}
InFrameUv == {b \in Bits(16) : b \div 4 < (max_rows + 1) \div 2
                               /\ b % 4 < (max_cols + 1) \div 2}
InFrameUvInt == {b \in Bits(16) : b \div 4 < (max_rows + 1) \div 2
                                  /\ b % 4 < max_cols \div 2}
FirstColY == IF MiCol = 0 THEN {b \in Bits(64) : b % 8 = 0} ELSE {}
FirstColUv == IF MiCol = 0 THEN {b \in Bits(16) : b % 4 = 0} ELSE {}

(* Merging the 32x32 tier, moving 4x4 edges of the 32-pixel grid to the   *)
(* 8-tap filter, cutting at the frame edge and narrowing the last chroma *)
(* row and column only change which filter an edge gets: every edge the  *)
(* walk produced inside the frame (off its first column) is still        *)
(* filtered, and nothing else is.                                        *)
EdgesPreserved ==
  phase = "done" =>
    /\ Filtered(lfm.left_y) = (AllTiers(raw.left_y) \cap InFrameY) \ FirstColY
    /\ Filtered(lfm.above_y) = AllTiers(raw.above_y) \cap InFrameY
    /\ lfm.int_4x4_y = raw.int_4x4_y \cap InFrameY
    /\ Filtered(lfm.left_uv) = (AllTiers(raw.left_uv) \cap InFrameUv) \ FirstColUv
    /\ Filtered(lfm.above_uv) = AllTiers(raw.above_uv) \cap InFrameUv
    /\ lfm.int_4x4_uv = raw.int_4x4_uv \cap InFrameUvInt

(* A chroma unit row (column) of which only the upper (left) 4 pixels lie *)
(* in the frame: the last one when the superblock keeps an odd number of *)
(* luma rows (columns).                                                  *)
HalfRowUv == IF max_rows % 2 = 1
             THEN {b \in Bits(16) : b \div 4 = max_rows \div 2} ELSE {}
HalfColUv == IF max_cols % 2 = 1
             THEN {b \in Bits(16) : b % 4 = max_cols \div 2} ELSE {}

(* The 16-wide chroma filter never runs on a half chroma row or column,  *)
(* and no internal 4x4 chroma edge is filtered in a half column.         *)
NoWideFilterOnHalfChroma ==
  phase = "done" =>
    /\ lfm.above_uv[TX_16X16] \cap HalfRowUv = {}
    /\ lfm.left_uv[TX_16X16] \cap HalfColUv = {}
    /\ lfm.int_4x4_uv \cap HalfColUv = {}

=============================================================================
