-------------------------- MODULE EdgeFilterApplier --------------------------
(***************************************************************************)
(* The edge filtering of one 64x64 superblock in                          *)
(* vp9/decoder/vp9_loopfilter_recon.c: filter_block_plane and the mask    *)
(* walks filter_selectively_vert_row2 and filter_selectively_horiz.        *)
(*                                                                         *)
(* A mask is a set of bit positions of its plane: 8 * row + col for luma,  *)
(* 4 * row + col for chroma (as in MaskBuilder).  A walk yields the filter *)
(* calls it makes, in order, as a sequence of applications: the plane, the *)
(* direction, the 8x8 position an edge filter covers, its kind and the    *)
(* filter level whose thresholds (lfi_n->lfthr[level]) it is given.  A    *)
(* dual call (two positions in one call) yields two applications.  The    *)
(* pixel arithmetic of the vp9_lpf_* filters is left out.  The masks and  *)
(* the TX sizes are those of MaskBuilder.                                 *)
(***************************************************************************)
EXTENDS MaskBuilder

(* The filter a tier of the mask selects, and the internal 4x4 filter.    *)
Kinds == {"lpf16", "lpf8", "lpf4", "int4"}
KindOf(tx) == CASE tx = TX_16X16 -> "lpf16" [] tx = TX_8X8 -> "lpf8"
                [] OTHER -> "lpf4"

App(plane, dir, pos, kind, lvl) ==
  [plane |-> plane, dir |-> dir, pos |-> pos, kind |-> kind, lvl |-> lvl]

(* The positions of row `row` of a plane w positions wide.                 *)
RowBits(w, row) == {w * row + c : c \in 0..(w - 1)}

-----------------------------------------------------------------------------
(* filter_selectively_vert_row2: the vertical edges of two rows, row0 and *)
(* row0 + 1, column by column.  For each tier a position of both rows is *)
(* one dual call; the 8, 4 and internal 4 dual calls take each row's own *)
(* thresholds (lfi0, lfi1), the 16-wide dual call those of the upper row. *)

(* One tier at column c: p0 in the upper row, p1 in the lower.            *)
VertTier(plane, m, kind, p0, p1, l0, l1) ==
  IF p0 \in m /\ p1 \in m
  THEN << App(plane, "v", p0, kind, l0), App(plane, "v", p1, kind, l1) >>
  ELSE IF p0 \in m THEN << App(plane, "v", p0, kind, l0) >>
  ELSE IF p1 \in m THEN << App(plane, "v", p1, kind, l1) >>
  ELSE << >>

VertCol16(plane, m, p0, p1, l0, l1) ==
  IF p0 \in m /\ p1 \in m
  THEN << App(plane, "v", p0, "lpf16", l0), App(plane, "v", p1, "lpf16", l0) >>
  ELSE VertTier(plane, m, "lpf16", p0, p1, l0, l1)

RECURSIVE VertRow2Walk(_, _, _, _, _, _, _, _, _)
VertRow2Walk(plane, w, row0, c, m16, m8, m4, mint, lfl) ==
  LET p0 == w * row0 + c
      p1 == w * (row0 + 1) + c
      all == (m16 \cup m8 \cup m4 \cup mint) \cap (RowBits(w, row0) \cup RowBits(w, row0 + 1))
      l0 == lfl[p0]
      l1 == lfl[p1]
  IN IF \A p \in all : p % w < c
     THEN << >>
     ELSE VertCol16(plane, m16, p0, p1, l0, l1)
          \o VertTier(plane, m8, "lpf8", p0, p1, l0, l1)
          \o VertTier(plane, m4, "lpf4", p0, p1, l0, l1)
          \o VertTier(plane, mint, "int4", p0, p1, l0, l1)
          \o VertRow2Walk(plane, w, row0, c + 1, m16, m8, m4, mint, lfl)

-----------------------------------------------------------------------------
(* filter_selectively_horiz: the horizontal edges of one row.  Where two *)
(* neighbouring positions of the same tier are set, one dual call covers *)
(* both and the walk moves on by two (count = 2).  The 16-wide dual call *)
(* takes the thresholds of the first position; the 8 and 4 dual calls   *)
(* those of each position (lfi, lfin).                                   *)

(* The internal 4x4 edges filtered with an 8 or 4 dual call.              *)
HorizIntPair(plane, mint, p, l, ln) ==
  IF p \in mint /\ p + 1 \in mint
  THEN << App(plane, "h", p, "int4", l), App(plane, "h", p + 1, "int4", ln) >>
  ELSE IF p \in mint THEN << App(plane, "h", p, "int4", l) >>
  ELSE IF p + 1 \in mint THEN << App(plane, "h", p + 1, "int4", ln) >>
  ELSE << >>

(* The calls at position p: [apps, count].                                *)
HorizStep(plane, w, p, m16, m8, m4, mint, lfl) ==
  LET l == lfl[p]
      ln == IF p % w < w - 1 THEN lfl[p + 1] ELSE lfl[p]
      pair(m) == p \in m /\ p % w < w - 1 /\ p + 1 \in m
      intSingle == IF p \in mint THEN << App(plane, "h", p, "int4", l) >> ELSE << >>
  IN CASE p \in m16 /\ pair(m16) ->
            [apps |-> << App(plane, "h", p, "lpf16", l), App(plane, "h", p + 1, "lpf16", l) >>,
             count |-> 2]
       [] p \in m16 ->
            [apps |-> << App(plane, "h", p, "lpf16", l) >>, count |-> 1]
       [] p \in m8 /\ pair(m8) ->
            [apps |-> << App(plane, "h", p, "lpf8", l), App(plane, "h", p + 1, "lpf8", ln) >>
                      \o HorizIntPair(plane, mint, p, l, ln),
             count |-> 2]
       [] p \in m8 ->
            [apps |-> << App(plane, "h", p, "lpf8", l) >> \o intSingle, count |-> 1]
       [] p \in m4 /\ pair(m4) ->
            [apps |-> << App(plane, "h", p, "lpf4", l), App(plane, "h", p + 1, "lpf4", ln) >>
                      \o HorizIntPair(plane, mint, p, l, ln),
             count |-> 2]
       [] p \in m4 ->
            [apps |-> << App(plane, "h", p, "lpf4", l) >> \o intSingle, count |-> 1]
       [] OTHER -> [apps |-> intSingle, count |-> 1]

RECURSIVE HorizWalk(_, _, _, _, _, _, _, _, _)
HorizWalk(plane, w, row, c, m16, m8, m4, mint, lfl) ==
  LET all == (m16 \cup m8 \cup m4 \cup mint) \cap RowBits(w, row)
      step == HorizStep(plane, w, w * row + c, m16, m8, m4, mint, lfl)
  IN IF \A p \in all : p % w < c
     THEN << >>
     ELSE step.apps \o HorizWalk(plane, w, row, c + step.count, m16, m8, m4, mint, lfl)

-----------------------------------------------------------------------------
(* filter_block_plane: the vertical pass of a plane, then its horizontal  *)
(* pass, over the rows of the superblock inside the frame (mi_row + r <   *)
(* mi_rows).  m is the LOOP_FILTER_MASK; its tiers are indexed by TX size. *)

RowMask(S, w, row) == S \cap RowBits(w, row)

RECURSIVE VertPassY(_, _, _, _)
VertPassY(m, mi_row, mi_rows, r) ==
  IF r < 8 /\ mi_row + r < mi_rows
  THEN VertRow2Walk("y", 8, r, 0, m.left_y[TX_16X16], m.left_y[TX_8X8],
                    m.left_y[TX_4X4], m.int_4x4_y, m.lfl_y)
       \o VertPassY(m, mi_row, mi_rows, r + 2)
  ELSE << >>

(* Row 0 of the frame has no edge above it: only its internal edges.      *)
RECURSIVE HorizPassY(_, _, _, _)
HorizPassY(m, mi_row, mi_rows, r) ==
  LET edge(t) == IF mi_row + r = 0 THEN {} ELSE RowMask(m.above_y[t], 8, r)
  IN IF r < 8 /\ mi_row + r < mi_rows
     THEN HorizWalk("y", 8, r, 0, edge(TX_16X16), edge(TX_8X8), edge(TX_4X4),
                    RowMask(m.int_4x4_y, 8, r), m.lfl_y)
          \o HorizPassY(m, mi_row, mi_rows, r + 1)
     ELSE << >>

(* Mutation: only the first chroma row of each pair is copied.           *)
LflUvFirstRowOnly(m, lfl_uv, mi_row, mi_rows) ==
  [p \in 0..15 |-> IF mi_row + 4 * ((p \div 4) \div 2) < mi_rows /\ (p \div 4) % 2 = 0
                   THEN m.lfl_y[16 * (p \div 4) + 2 * (p % 4)]
                   ELSE lfl_uv[p]]

(* The chroma levels of the rows the vertical pass visits (luma rows r,  *)
(* step 4): lfl_uv[4u + c] = lfl_y[16u + 2c], the level of the top-left *)
(* luma block of each 16x16.  The other entries keep their value.       *)
LflUv(m, lfl_uv, mi_row, mi_rows) ==
  [p \in 0..15 |-> IF mi_row + 4 * ((p \div 4) \div 2) < mi_rows
                   THEN m.lfl_y[16 * (p \div 4) + 2 * (p % 4)]
                   ELSE lfl_uv[p]]

RECURSIVE VertPassUv(_, _, _, _, _, _)
VertPassUv(plane, m, lfl_uv, mi_row, mi_rows, r) ==
  IF r < 8 /\ mi_row + r < mi_rows
  THEN VertRow2Walk(plane, 4, r \div 2, 0, m.left_uv[TX_16X16], m.left_uv[TX_8X8],
                    m.left_uv[TX_4X4], m.int_4x4_uv, lfl_uv)
       \o VertPassUv(plane, m, lfl_uv, mi_row, mi_rows, r + 4)
  ELSE << >>

(* Mutation: the last chroma row keeps its internal 4x4 edges.            *)
SkipBorder4x4Never(mi_row, mi_rows, r) == FALSE

(* skip_border_4x4_r: a chroma row whose lower luma row is outside the    *)
(* frame has no internal horizontal 4x4 edge to filter.                   *)
SkipBorder4x4(mi_row, mi_rows, r) == mi_row + r = mi_rows - 1

RECURSIVE HorizPassUv(_, _, _, _, _, _)
HorizPassUv(plane, m, lfl_uv, mi_row, mi_rows, r) ==
  LET edge(t) == IF mi_row + r = 0 THEN {} ELSE RowMask(m.above_uv[t], 4, r \div 2)
      int == IF SkipBorder4x4(mi_row, mi_rows, r) THEN {}
             ELSE RowMask(m.int_4x4_uv, 4, r \div 2)
  IN IF r < 8 /\ mi_row + r < mi_rows
     THEN HorizWalk(plane, 4, r \div 2, 0, edge(TX_16X16), edge(TX_8X8),
                    edge(TX_4X4), int, lfl_uv)
          \o HorizPassUv(plane, m, lfl_uv, mi_row, mi_rows, r + 2)
     ELSE << >>

(* One call: the filter applications, in order, and lfm->lfl_uv after it. *)
FilterBlockPlane(plane, m, lfl_uv, mi_row, mi_rows) ==
  IF plane = "y"
  THEN [apps |-> VertPassY(m, mi_row, mi_rows, 0) \o HorizPassY(m, mi_row, mi_rows, 0),
        lfl_uv |-> lfl_uv]
  ELSE LET uv == LflUv(m, lfl_uv, mi_row, mi_rows)
       IN [apps |-> VertPassUv(plane, m, uv, mi_row, mi_rows, 0)
                    \o HorizPassUv(plane, m, uv, mi_row, mi_rows, 0),
           lfl_uv |-> uv]

=============================================================================
