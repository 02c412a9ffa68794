# TLA+ models of the VP9 reconstruction decoder and its loop filter

These modules model the VP9 decoder path of this tree (libvpx under
`src/src/third_party/libvpx/source/libvpx/`):

- the double-buffered decode pipeline in `vp9/vp9_dx_iface.c`;
- the parallel ("WPP") bitmask loop filter in
  `vp9/decoder/vp9_loopfilter_recon.c`.

## The system and how its parts interact

`vp9_dx_iface.c` is the codec interface. `vp9_decode_ex` (registered in the interface table) splits a packet into
frames (a superframe carries several). It calls `decode_one_recon` once per
frame:

- **Decode contexts.** A decoder instance owns two decode contexts,
  `storage_pbi[0..1]`, and a master context `pbi`. The rotation counter
  `pbi->l_bufpool_flag_output` picks a slot by its parity.
- **One call.** A call decodes its frame into one slot. It then hands out,
  into `ctx->img`, the frame that the other slot decoded in the previous
  call. It records its result in `pbi->res` and increments the counter.
- **Output gate.** The next call withholds its output when `pbi->res`
  says the previous call failed.
- **Flush.** A zero-length call (the flush) drains the last frame and
  resets the counter.
- **Collecting frames.** `vp9_get_frame` hands out `ctx->img` once.
- **Corruption query.** `get_frame_corrupted_recon` picks a slot from the
  counter and reads its corrupted flag.

Once a frame is decoded, the loop filter in `vp9_loopfilter_recon.c` works
per frame and per 64x64 superblock:

- **Per frame.** `vp9_loop_filter_frame_wpp` computes the level table
  `lfi->lvl[seg][ref][mode]` (`vp9_loop_filter_frame_init_wpp`). It also
  rebuilds the thresholds `lfthr[level]` when the sharpness changed
  (`update_sharpness`, memoised on `last_sharpness_level`). It then
  dispatches one task per CPU thread over strips of superblock rows
  (`vp9_loop_filter_rows_wpp`).
- **Per superblock.** `vp9_loop_filter_block` calls `setup_mask`:
  - `setup_mask` walks the partition tree of the superblock and ORs each
    block's edges into masks, one mask per transform size;
  - it merges and trims those masks at the frame edges;
  - `filter_block_plane` then filters each edge with the width its mask
    says and the thresholds of its level.

## Modules

| Module | Models | Source |
|---|---|---|
| `MaskBuilder` | `setup_mask`, `build_masks`, `build_y_mask` and the mask tables | vp9_loopfilter_recon.c 31-225, 535-912 |
| `FilterLevelTable` | `vp9_loop_filter_init_wpp`, `update_sharpness`, `vp9_loop_filter_frame_init_wpp`, `mode_lf_lut` | vp9_loopfilter_recon.c 227-331 |
| `PipelineRotator` | `decode_one_recon`, `decode_one_recon_ex`, `vp9_decode_ex`, `vp9_get_frame`, `get_frame_corrupted_recon` | vp9_dx_iface.c 45-75, 297-303, 447-701, 936-963, 1085-1159, 1162-1178, 1387-1408 |
| `EdgeFilterApplier` | `filter_selectively_vert_row2`, `filter_selectively_horiz`, `filter_block_plane` (the mask walks and the levels each filter call is given) | vp9_loopfilter_recon.c 333-526, 1095-1245 |
| `LoopFilterBlock` | `vp9_loop_filter_block`: `setup_mask`, then `filter_block_plane` per plane | vp9_loopfilter_recon.c 1247-1273 |
| `WppDispatcher` | `vp9_loop_filter_frame_wpp`, `vp9_loop_filter_rows_wpp`; the worker of a task from the design notes | vp9_loopfilter_recon.c 1278-1374 |
| `FrameRowFilter` | the abstract promise of `vp9_loop_filter_frame_wpp`: a run of superblock rows inside the frame, each filtered once after the row above, then a return | (abstract) |
| `FrameQueue` | the abstract promise of the pipeline: an in-order queue from shown frames sent to frames handed out | (abstract) |
| `MCMaskBuilder`, `MCFilterLevelTable`, `MCPipelineRotator`, `MCLoopFilterBlock`, `MCWppDispatcher` | instantiate the above for TLC; `MCPipelineRotator` holds the refinement mapping to `FrameQueue`, `MCWppDispatcher` the one to `FrameRowFilter` | |

### MaskBuilder

**Masks.** A mask is a set of bit positions:

- luma bit `8*row + col` of a 64-bit word;
- chroma bit `4*row + col` of a 16-bit word.

`Shl` drops the bits that a C shift would push out of the word. The state
`lfm` is the `LOOP_FILTER_MASK` record: `left_y`, `above_y`, `left_uv` and
`above_uv` hold one set per transform size, beside `int_4x4_y`,
`int_4x4_uv` and `lfl_y`.

**The partition walk.** The nested `switch`/`for` walk of `setup_mask` is a
work list `todo`, processed in code order:

- `VisitNode` takes the case the `sb_type` at a node's corner selects.
  `Expand` produces the calls that case makes, and it drops second halves
  and children that start outside the frame (the `continue`s on
  `max_rows`/`max_cols`).
- `CallBuildMasks` and `CallBuildYMask` are the two calls. The block's mode
  info (transform size, skip, reference, filter level) is chosen from
  small sets.
- `Finish` is the tail of `setup_mask`:
  - the 32x32 merge and the border moves (`MergeTiers`);
  - the bottom-edge trim with its `rows == 1` / `rows == 5` demotion
    (`TrimRows`);
  - the right-edge trim with `columns == 1` / `columns == 5` (`TrimCols`);
  - the first-column mask (`TrimFirstCol`).

`raw` keeps the masks as they were before this tail.

**What comes from the design notes.** The partitions that the bitstream
allows at a node (`PartitionOptions`), `max_txsize_lookup` and
`get_uv_tx_size` are not in this tree and are modelled from the design
notes.

**Bounds on the walk.** `MaxSplits` bounds how many voluntary splits a walk
takes. `Feasible` admits only the partitions whose subtree can finish, so
every walk reaches `Finish`. `setup_mask` returns after `Finish`, which is
why the MaskBuilder cfgs say `CHECK_DEADLOCK FALSE`.

### FilterLevelTable

**State:**

- `lvl`: the table of levels per segment, reference and mode class, as
  bytes;
- `lfthr`: `lim`, `mblim` and `hev_thr` per level;
- `sharpness_level`, `last_sharpness_level` and `filter_level`.

**Actions:**

- `ReadHeader` stands for the frame header, which is parsed outside this
  tree. It sets the level and the sharpness. A level of 0 skips the frame
  init, as `vp9_loop_filter_frame_wpp` returns on a zero level.
- `FrameInit` is `vp9_loop_filter_frame_init_wpp`. It chooses the
  segmentation, the absolute-or-delta mode, `mode_ref_delta_enabled` and
  the delta vectors from the constants.

**Data.** `vpx_memset` into `uint8_t` is modelled as `v % 256`. The
`SEGMENT_ABSDATA` branch is left unclamped, as in the code.

### PipelineRotator

**State per decoder instance, `dec[d]`:**

- `init`: whether `decoder_init` is set and `pbi` was created;
- `c`: the counter;
- the two slots: the frame each holds, whether it is shown, whether it
  failed, and whether it has not been handed out;
- `res`: `pbi->res`;
- `show` and `cvf`: the master's `show_frame` and `current_video_frame`;
- `img` and `avail`: `ctx->img` and `img_avail`;
- `outSlot`: the slot `img` came from.

**Process-wide state:**

- `flag` is the function-static `flag` of `decode_one_recon`;
- `crashed` records a NULL dereference.

**Caller state:** `sent`, `out`, `next`, `eos`, `lastCall` and `collect`.
The caller follows the codec loop: after every `vp9_decode_ex` it calls
`vp9_get_frame` before it decodes again.

**Operators:**

- `DecodeOneRecon` is the whole function: the early return of the flush,
  the lazy initialisation (which may fail), receive, the error slot, the
  retrieval and its gate, the static-flag counting, and the flush reset.
- `DecodeFrames` is the superframe loop of `vp9_decode_ex`, the entry the
  interface table registers (`vp9_decode` has the same loop but is not
  registered); it stops at the first error.

**What comes from the design notes.** `vp9_receive_compressed_data_recon`
and `vp9_get_raw_frame` are not in this tree. The model takes them from the
design notes:

- the frame of the call at counter `c` is decoded into slot `(c+1) & 1`;
- its error info stays in that slot;
- `get_raw_frame` returns a shown frame once.

**The abstract specification.** `FrameQueue` has the variables `accepted`
and `delivered`. `MCPipelineRotator` maps `accepted` to the shown frames
sent to instance `d1` and `delivered` to what `vp9_get_frame` returned. It
checks `Queue!Spec` as a property.

### EdgeFilterApplier and LoopFilterBlock

`EdgeFilterApplier` EXTENDS `MaskBuilder`. Each mask walk is a RECURSIVE
operator that returns the filter calls it makes, in order, as records
`[plane, dir, pos, kind, lvl]`. The pixel arithmetic of `vp9_lpf_*` is left
out: an application names the edge, the filter width (`lpf16`, `lpf8`,
`lpf4`, internal `int4`) and the level whose `lfthr` entry it is given.

- `VertRow2Walk` is `filter_selectively_vert_row2`. It walks two rows
  column by column; a position set in both rows is one dual call. The
  16-wide dual call passes `lfi0` for both rows, as the code does.
- `HorizStep`/`HorizWalk` are `filter_selectively_horiz`. Two neighbouring
  positions of one tier are one call with `count = 2`; the walk then moves
  on by two. The 16-wide dual call takes the first position's level; the 8
  and 4 dual calls take `lfin` for the second.
- `VertPassY`, `HorizPassY`, `VertPassUv`, `HorizPassUv` and
  `FilterBlockPlane` are the two passes of `filter_block_plane`: rows inside
  the frame only, no non-internal horizontal edge at frame row 0, the chroma
  levels copied by `LflUv` (`lfl_uv[4u+c] = lfl_y[16u+2c]`), and the
  internal chroma 4x4 edges skipped on the last row (`SkipBorder4x4`).

`LoopFilterBlock` EXTENDS `EdgeFilterApplier` and composes the steps of
`setup_mask` (`SetupMask`, the `MaskBuilder` actions) with one
`FilterPlane` action per plane of `vp9_loop_filter_block`: Y, then U and V
unless `y_only`. Its variables add `lfl_uv`, `y_only`, the planes left and
the applications made so far.

### WppDispatcher

The dispatcher thread is one action per step of the code: `FrameWpp` (the
range, partial mode, the device swap), `SetupTask` (one task per thread,
`step_length = cpu_count * 8`, `start_mi_row = start + 8*i`, `upper =
tsks[i-1]`), `LinkFirstTask` (`params[0]->upper = last_tsk`), `Schedule`,
`Sync` (`task_sync` blocks until the task is done), `PutTask` and
`NextLoop`. The worker of a task is in the scheduler, which is not in this
tree. It is modelled from the design notes (marked `spec_modelled` in
`PROJECT.json`): `BeginRow` waits until the task named by `upper` has moved
past the row above, `EndRow` records the row and advances by
`step_length`, and `FinishTask` signals completion.

**The abstract specification.** `FrameRowFilter` is what the caller of
`vp9_loop_filter_frame_wpp` relies on, with no tasks or threads. `Request`
picks a run of whole superblock rows inside the frame. `StartRow(r)` runs
once per row, and only after the row above (when it is in the run) has
ended. `EndRow(r)` finishes a row. `Return` happens once every row has
ended. It is weakly fair in each action. `MCWppDispatcher` maps:
- `mi_rows` to `call.mi_rows`;
- `todo` to the superblock rows of `range`;
- `active` to the rows of the busy workers;
- `count` to `filtered`;
- `returned` to `phase = "done"`.

It checks `RowFilter!Spec` as a property.

## Runs

| Run | Cfg | Expect | Shows |
|---|---|---|---|
| mask_edge | MaskEdge.cfg | pass | First-column superblock cut after 5 rows, every block size. `MasksDisjoint`: no position gets two filter widths (the asserts of `setup_mask`). `EdgesPreserved`: every in-frame edge of the raw masks is still filtered after merge and trim. `NoWideFilterOnHalfChroma`: no 16-wide chroma filter on a half-covered chroma row. |
| mask_corner | MaskCorner.cfg | pass | Superblock cut after 3 rows and 5 columns: the column trim, the `0xcccc` demotion and the `mask_uv_int` halving. |
| block_top | BlockTop.cfg | pass | A superblock at the frame top, 3 rows by 2 columns, blocks down to 8x8 with levels 0, 1, 2, either `y_only`. `EdgesFilteredOnce`: after all planes, every edge the masks select is filtered once, with its tier's filter, and no other. `OwnThresholds`: every filter call gets the level of its own block, through the dual calls and the `lfl_uv` copy. `NoFilterAtLevelZero`: no filter call is given the thresholds of level 0, neither through a block's own bits nor through a dual call or a chroma level copied into `lfl_uv`. |
| wpp_full | WppFull.cfg | pass | 1-4 threads, five frame heights, partial and full mode. `NoCrossStripRace`, `RowsFilteredOnce`, `RowsInFrame`, `NoRecycleWhileRunning`, and `Termination` (the dispatcher returns) under weak fairness. `DispatcherRefinesRowFilter`: the dispatcher with its workers implements `FrameRowFilter`, fairness included. |
| level_table | LevelTable.cfg | pass | `LevelIndexInRange`: every level `build_masks` can read is a valid `lfthr` index. `ThresholdsCurrent`: a filtered frame uses the thresholds of its own sharpness, also after unfiltered frames. |
| level_abs_negative | LevelAbsNegative.cfg | violation | A negative absolute `ALT_LF` value with deltas off is stored as 251 in `lvl`. |
| rotator | Rotator.cfg | pass | `InOrderDelivery`: frames come out increasing, once, and only shown ones, under superframes, errors, init failures and flushes, and the same of the frames `vp9_decode_ex` draws into the caller's texture. `Completeness`: a clean stream, flushed and collected, delivered every shown frame. |
| rotator_queue | RotatorQueue.cfg | pass | Without errors the pipeline refines `FrameQueue`. |
| rotator_errors | RotatorErrors.cfg | violation | A failed receive is read from the previous frame's slot, so `vp9_decode_ex` returns OK. |
| rotator_corrupted | RotatorCorrupted.cfg | violation | The corruption query reads a slot other than the one `img` came from. |
| rotator_null | RotatorNull.cfg | violation | A flush before the first frame, or the corruption query, dereferences a NULL `pbi`; a failed `vpx_memalign` of a storage context is written through by `vp9_zero`. |
| rotator_two_instances | RotatorTwoInstances.cfg | violation | The static `flag` makes two instances fed the same stream disagree on `current_video_frame`. |

Every property of a passing run has a mutant in `PROJECT.json`. A mutant is
a plausible bug in the mapped code, and TLC finds it.

## Bounds and why they are enough

**MaskBuilder and LoopFilterBlock.**

- One superblock is checked per run; the positions cover three edges of
  the frame:
  - `mask_edge`: the first column, cut after 5 rows (`rows == 5`, the odd
    chroma half, `mi_col == 0`);
  - `mask_corner`: the bottom-right corner, 3 rows by 5 columns (column
    trim, `columns == 5`, the `0xcccc` demotion);
  - `block_top`: frame row 0, 3 rows by 2 columns (the frame-top rule of
    the horizontal passes, the last-row chroma 4x4 skip, partial chroma
    rows).
- `MCAllBlocks` includes every block size from 64x64 down to 8x8, and
  forced splits at the frame edge cost nothing, so one or two voluntary
  splits reach every path of the walk.
- The mask runs use one non-zero level: the masks depend only on zero
  versus non-zero. `block_top` uses levels `{0,1,2}`: zero for the
  level-0 rule, and two distinct non-zero levels so that a dual call over
  neighbours of different levels exists (it does: making the 8-wide dual
  call pass `lfi` twice is found by `OwnThresholds`). It reaches 332,994
  distinct states in about 70 s; a wider superblock or a third split level
  multiplies the mode-info choices past the 5-minute limit. With two
  columns a horizontal pair always starts at column 0, so the walk's
  `count` is checked but a pair starting at an odd column is not reached.

**FilterLevelTable.**

- Levels 0, 20 and 40 cover both values of `scale`.
- Sharpness 0, 3 and 6 cover both halvings and the cap.
- Delta vectors are chosen to push levels past both 0 and 63.
- One segment is enough: segments do not interact.

**PipelineRotator.**

- 4 frames per stream give superframes at each counter parity, plus a
  flush after an odd or even number of calls.
- Two instances, with 2 frames each, show the shared `flag`.

**WppDispatcher.**

- Thread counts 1 to 4 cover one task whose `upper` is itself, two tasks
  linked both ways, and longer rings with the wrap-around link.
- Frame heights `{9, 20, 24, 40, 72}` mi rows give a last superblock row
  that is partial (9, 20, 40), an exact multiple (24, 72), fewer strips than
  threads, and, in partial mode, the cases `mi_rows > 8` and the floor of
  `MAX(mi_rows / 8, 8)`. The run has 3,272 distinct states.

## Fairness

`wpp_full` checks `Termination` (the dispatcher returns) under weak
fairness of the dispatcher thread and of each task's worker. The
dispatcher is a thread that blocks only in `task_sync`. Each scheduled task
runs on a thread of the tail CPU device, so a worker that can move keeps
being able to move until it does. No fairness is assumed between the
workers' choice of rows, and none of the scheduler's order.
The same fairness is what `DispatcherRefinesRowFilter` needs to show the
weak fairness of `FrameRowFilter`: a row that may start does start, and a
call whose rows are all finished returns.

The other runs check safety only. `Completeness` of the pipeline is stated
over the states where the caller has flushed and collected, because the
caller's loop gives no guarantee that it ever flushes.

## Not modelled, and why

- **The pixel filters** `vp9_lpf_*`: arithmetic on pixels. An edge
  filter call is modelled by its position, width and level.
- **The non-4:2:0 path** (`filter_block_plane_non420`,
  `filter_selectively_vert`, `build_lfi`): compiled only with
  `CONFIG_NON420`.
- **The scheduler, task cache and worker body** are not in this tree. The
  worker is modelled from the design notes; the scheduler is abstracted to
  "a scheduled task eventually runs". In particular `threads_count`, which
  `vp9_loop_filter_frame_wpp` uses as `cpu_count`, is set by the
  scheduler: the model takes it from `1..MaxCpu` with `MaxCpu` at most
  `MAX_CPU`. One hazard of the dispatcher therefore has no property (see
  `PROJECT.json`): a release build with more than 32 threads overruns
  `tsks[MAX_CPU]` and `params[MAX_CPU]` (line 1300 only asserts the
  bound).
- **The device swap.** The design notes say partial mode swaps the primary
  and tail CPU devices; `vp9_loop_filter_frame_wpp` swaps them on every
  filtered frame. `WppDispatcher` models the code's swap, but the
  disagreement is not checked as a run: it has no effect on which rows are
  filtered, and the runs are spent on what does.
- **Lazy initialisation details.** The mmap allocation and the postproc
  configuration of `decode_one_recon` are not modelled. The model keeps
  whether the decompressor exists, whether creating it failed, and whether
  `vpx_memalign` of a storage context returned NULL (`AllocFails`).
- **Other code.** The control handlers other than the corruption query
  are not modelled. The OpenCL variants `decode_one_recon_ex` and
  `vp9_decode_ex` are modelled as the `texture` choice of `Decode` and
  `Flush`: the YUV-to-RGBA conversion itself is GPU arithmetic, so a drawn
  frame is its number.
- **Other files:**
  - `vp9_firstpass.c`: floating-point rate control of the encoder;
  - `datarate_test.cc`: test code;
  - the GPU-process headers (`gpu_messages.h`,
    `vpx_video_decode_accelerator.h`): declarations and IPC message macros,
    with no state change to model; the design notes exclude the IPC
    transport;
  - the WebCL V8 bindings: argument glue.

## Further work

1. **`LoopFilterFrame`.** Compose `FilterLevelTable`, `WppDispatcher` and
   `LoopFilterBlock`: the superblocks of a strip filtered in column order,
   with the pixel ordering across strips abstracted to edge sets.
2. **An odd-column pair start** of the horizontal edge walk (line 478)
   needs a block run at least three columns wide, which today exceeds the
   5-minute limit; a run restricted to fewer block sizes could reach it.

Liveness of frame delivery in `PipelineRotator` is not stated: nothing in
the codec obliges the caller to flush, so no fairness on the caller is
justified; `Completeness` states what holds once the caller has flushed.
