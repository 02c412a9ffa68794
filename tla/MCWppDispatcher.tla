--------------------------- MODULE MCWppDispatcher ---------------------------
EXTENDS WppDispatcher

\* cm->mi_rows of the frames: one superblock row plus one mi row (9; partial
\* mode starts at 4 & ~7 = 0 and filters only superblock row 0), an odd
\* partial start (20), 3 and 5
\* superblock rows (24, 40), and 9 superblock rows (72; partial mode filters
\* two superblock rows, so the strips of a partial pass interleave too).
MCMiRows == {9, 20, 24, 40, 72}

\* The refinement mapping: the call's frame height, the superblock rows of
\* its range, the rows a worker is filtering, how often each row of the
\* frame was filtered, and whether vp9_loop_filter_frame_wpp has returned.
RowFilter == INSTANCE FrameRowFilter WITH
  MiRowsSet <- MiRowsSet,
  mi_rows <- call.mi_rows,
  todo <- SbRows,
  active <- {mi_row[t] : t \in {u \in Tasks : busy[u]}},
  count <- [r \in 0..(MaxMiRows - 1) |-> filtered[r]],
  returned <- phase = "done"

\* vp9_loop_filter_frame_wpp with its tasks, the upper links and task_sync
\* implements the row filter the caller relies on: the rows of a run
\* inside the frame, each filtered once, each after the row above, and a
\* return only when all are finished (fairness included).
DispatcherRefinesRowFilter == RowFilter!Spec
=============================================================================
