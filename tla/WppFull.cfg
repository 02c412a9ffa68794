\* Every frame height, both modes, 1 to 4 worker threads.
SPECIFICATION Spec
CONSTANTS
  MiRowsSet <- MCMiRows
  CpuCounts = {1, 2, 3, 4}
  MaxCpu = 4
  NULL = NULL
INVARIANT TypeOK
INVARIANT NoCrossStripRace
INVARIANT RowsFilteredOnce
INVARIANT RowsInFrame
INVARIANT NoRecycleWhileRunning
PROPERTY Termination
\* vp9_loop_filter_frame_wpp returns once the tasks are back in the cache.
CHECK_DEADLOCK FALSE
PROPERTY DispatcherRefinesRowFilter
