---------------------------- MODULE WppDispatcher ----------------------------
(***************************************************************************)
(* The parallel loop-filter dispatcher of vp9/decoder/vp9_loopfilter_recon.c: *)
(* vp9_loop_filter_frame_wpp, which picks the superblock rows to filter and *)
(* swaps the CPU devices, and vp9_loop_filter_rows_wpp, which sets up one  *)
(* task per thread of the tail CPU device, schedules them, waits for each  *)
(* with task_sync and puts them back in the task cache.                    *)
(*                                                                         *)
(* The worker that runs a task is part of the scheduler and not in this    *)
(* source tree.  It is modelled from the design notes: a task filters the  *)
(* superblock rows start_mi_row, start_mi_row + step_length, ... below     *)
(* end_mi_row, and before a row it waits until the task its `upper` field  *)
(* names has moved past the row above (the explicit per-strip completion  *)
(* signal the design requires).  Filtering one row is abstracted to a     *)
(* begin and an end step.                                                 *)
(***************************************************************************)
EXTENDS Integers, FiniteSets

CONSTANTS
  MiRowsSet,   \* cm->mi_rows values of the frames filtered
  CpuCounts,   \* threads_count values of the tail CPU device
  MaxCpu,      \* MAX_CPU
  NULL         \* a pointer that names no task

MI_BLOCK_SIZE == 8
Tasks == 0..(MaxCpu - 1)

ASSUME MiRowsSet \subseteq Nat \ {0}
ASSUME CpuCounts \subseteq 1..MaxCpu /\ CpuCounts # {}
ASSUME NULL \notin Tasks

(* Row numbers a model state can hold: the frame, and the overshoot of a  *)
(* task's last step.                                                      *)
MaxMiRows == CHOOSE m \in MiRowsSet : \A k \in MiRowsSet : k <= m
RowBound == MaxMiRows + MaxCpu * MI_BLOCK_SIZE

VARIABLES
  call,      \* the arguments: mi_rows, partial, filter level on, cpu_count
  phase,     \* where the dispatcher thread is
  i,         \* the loop counter of the dispatcher's current loop
  range,     \* [start |-> start_mi_row, stop |-> end_mi_row]
  devices,   \* the enabled CPU devices: "cpu0" (head), "cpu1" (tail)
  upper,     \* params[t]->upper
  mi_row,    \* params[t]->mi_row: the next row task t filters
  busy,      \* task t is filtering row mi_row[t]
  state,     \* task t: "free", "got", "sched", "done", "put"
  filtered   \* filtered[r]: how often superblock row r was filtered

vars == <<call, phase, i, range, devices, upper, mi_row, busy, state, filtered>>

-----------------------------------------------------------------------------
(* Mutation: every task steps to the next superblock row.               *)
StepLengthOneRow(n) == MI_BLOCK_SIZE

(* params[i]->step_length: the rows between two strips of one task.       *)
StepLength(n) == n * MI_BLOCK_SIZE

(* Mutations of the partial range: the start is not rounded down to a    *)
(* superblock row; the row count is not divided by 8.                     *)
PartialStartUnaligned(mi_rows) == mi_rows \div 2
RowsToFilterWhole(mi_rows) == IF mi_rows > 8 THEN mi_rows ELSE 8

(* vp9_loop_filter_frame_wpp: the first row and the row count to filter.  *)
(* Partial mode starts in the middle, rounded down to a superblock.       *)
PartialStart(mi_rows) == (mi_rows \div 2) - ((mi_rows \div 2) % 8)
RowsToFilter(mi_rows) == IF mi_rows \div 8 > 8 THEN mi_rows \div 8 ELSE 8
FilterRange(mi_rows, partial) ==
  IF partial /\ mi_rows > 8
  THEN [start |-> PartialStart(mi_rows),
        stop |-> PartialStart(mi_rows) + RowsToFilter(mi_rows)]
  ELSE [start |-> 0, stop |-> mi_rows]

Calls == [mi_rows: MiRowsSet, partial: BOOLEAN, level_on: BOOLEAN,
          cpu_count: CpuCounts]

Init ==
  /\ call \in Calls
  /\ phase = "call"
  /\ i = 0
  /\ range = [start |-> 0, stop |-> 0]
  /\ devices = {"cpu0"}
  /\ upper = [t \in Tasks |-> NULL]
  /\ mi_row = [t \in Tasks |-> 0]
  /\ busy = [t \in Tasks |-> FALSE]
  /\ state = [t \in Tasks |-> "free"]
  /\ filtered = [r \in 0..RowBound |-> 0]

-----------------------------------------------------------------------------
(* The dispatcher thread.                                                 *)

(* vp9_loop_filter_frame_wpp up to the call of vp9_loop_filter_rows_wpp:  *)
(* return on level 0; else the row range, the frame init (the level table *)
(* of FilterLevelTable), and the swap of the head and tail CPU devices.   *)
FrameWpp ==
  /\ phase = "call"
  /\ IF ~call.level_on
     THEN /\ phase' = "done"
          /\ UNCHANGED <<range, devices>>
     ELSE /\ range' = FilterRange(call.mi_rows, call.partial)
          /\ devices' = {"cpu1"}
          /\ phase' = "setup"
  /\ UNCHANGED <<call, i, upper, mi_row, busy, state, filtered>>

(* One iteration of the set-up loop: get a task and fill its parameters.  *)
(* For i = 0, tsks[i-1] reads the slot before the array: any pointer.     *)
SetupTask ==
  /\ phase = "setup"
  /\ i < call.cpu_count
  /\ state' = [state EXCEPT ![i] = "got"]
  /\ mi_row' = [mi_row EXCEPT ![i] = range.start + MI_BLOCK_SIZE * i]
  /\ \E up \in IF i = 0 THEN Tasks \cup {NULL} ELSE {i - 1} :
       upper' = [upper EXCEPT ![i] = up]
  /\ i' = i + 1
  /\ UNCHANGED <<call, phase, range, devices, busy, filtered>>

(* Mutation: params[0]->upper keeps the pointer read from tsks[-1].        *)
LinkFirstTaskSkipped ==
  /\ phase = "setup"
  /\ i = call.cpu_count
  /\ phase' = "sched"
  /\ i' = 0
  /\ UNCHANGED <<call, range, devices, upper, mi_row, busy, state, filtered>>

(* After the set-up loop: params[0]->upper = last_tsk.                    *)
LinkFirstTask ==
  /\ phase = "setup"
  /\ i = call.cpu_count
  /\ upper' = [upper EXCEPT ![0] = call.cpu_count - 1]
  /\ phase' = "sched"
  /\ i' = 0
  /\ UNCHANGED <<call, range, devices, mi_row, busy, state, filtered>>

(* Mutation: the scheduling loop stops one task short.                    *)
ScheduleSkipLast ==
  /\ phase = "sched"
  /\ i < call.cpu_count
  /\ state' = IF i < call.cpu_count - 1 THEN [state EXCEPT ![i] = "sched"]
                                        ELSE state
  /\ i' = i + 1
  /\ UNCHANGED <<call, phase, range, devices, upper, mi_row, busy, filtered>>

(* scheduler_sched_task(pbi->sched, tsks[i]).                             *)
Schedule ==
  /\ phase = "sched"
  /\ i < call.cpu_count
  /\ state' = [state EXCEPT ![i] = "sched"]
  /\ i' = i + 1
  /\ UNCHANGED <<call, phase, range, devices, upper, mi_row, busy, filtered>>

(* Mutation: task_sync returns before the task has finished.              *)
SyncNoWait ==
  /\ phase = "sync"
  /\ i < call.cpu_count
  /\ i' = i + 1
  /\ UNCHANGED <<call, phase, range, devices, upper, mi_row, busy, state, filtered>>

(* task_sync(tsks[i]): blocks until task i has finished.                  *)
Sync ==
  /\ phase = "sync"
  /\ i < call.cpu_count
  /\ state[i] = "done"
  /\ i' = i + 1
  /\ UNCHANGED <<call, phase, range, devices, upper, mi_row, busy, state, filtered>>

(* lf_blk_param_put and task_cache_put_task for task i.                   *)
PutTask ==
  /\ phase = "put"
  /\ i < call.cpu_count
  /\ state' = [state EXCEPT ![i] = "put"]
  /\ i' = i + 1
  /\ UNCHANGED <<call, phase, range, devices, upper, mi_row, busy, filtered>>

(* The end of the schedule, sync and put loops; after the put loop        *)
(* vp9_loop_filter_frame_wpp swaps the devices back and returns.          *)
NextLoop ==
  /\ phase \in {"sched", "sync", "put"}
  /\ i = call.cpu_count
  /\ i' = 0
  /\ phase' = CASE phase = "sched" -> "sync"
                [] phase = "sync" -> "put"
                [] OTHER -> "done"
  /\ devices' = IF phase = "put" THEN {"cpu0"} ELSE devices
  /\ UNCHANGED <<call, range, upper, mi_row, busy, state, filtered>>

Dispatcher ==
  FrameWpp \/ SetupTask \/ LinkFirstTask \/ Schedule \/ Sync \/ PutTask
    \/ NextLoop

-----------------------------------------------------------------------------
(* The worker of a scheduled task (from the design notes).                *)

(* Mutation: the worker waits only until the upper task has reached the  *)
(* row above, not until it has finished it.                               *)
UpperPassedReached(t, r) ==
  IF upper[t] = NULL THEN TRUE ELSE mi_row[upper[t]] >= r - MI_BLOCK_SIZE

(* The task named by `upper` has moved past the row above row r.          *)
UpperPassed(t, r) ==
  IF upper[t] = NULL THEN TRUE ELSE mi_row[upper[t]] > r - MI_BLOCK_SIZE

BeginRow(t) ==
  /\ state[t] = "sched"
  /\ ~busy[t]
  /\ mi_row[t] < range.stop
  /\ UpperPassed(t, mi_row[t])
  /\ busy' = [busy EXCEPT ![t] = TRUE]
  /\ UNCHANGED <<call, phase, i, range, devices, upper, mi_row, state, filtered>>

EndRow(t) ==
  /\ busy[t]
  /\ filtered' = [filtered EXCEPT ![mi_row[t]] = @ + 1]
  /\ mi_row' = [mi_row EXCEPT ![t] = @ + StepLength(call.cpu_count)]
  /\ busy' = [busy EXCEPT ![t] = FALSE]
  /\ UNCHANGED <<call, phase, i, range, devices, upper, state>>

(* The task's rows are exhausted: it signals completion.                  *)
FinishTask(t) ==
  /\ state[t] = "sched"
  /\ ~busy[t]
  /\ mi_row[t] >= range.stop
  /\ state' = [state EXCEPT ![t] = "done"]
  /\ UNCHANGED <<call, phase, i, range, devices, upper, mi_row, busy, filtered>>

Worker(t) == BeginRow(t) \/ EndRow(t) \/ FinishTask(t)

Next == Dispatcher \/ \E t \in Tasks : Worker(t)

(* Every scheduled task runs on a thread of its own device and the        *)
(* dispatcher thread blocks only in task_sync: each is weakly fair.       *)
Spec == /\ Init /\ [][Next]_vars
        /\ WF_vars(Dispatcher)
        /\ \A t \in Tasks : WF_vars(Worker(t))


-----------------------------------------------------------------------------
(* Properties.                                                            *)

States == {"free", "got", "sched", "done", "put"}
Phases == {"call", "setup", "sched", "sync", "put", "done"}

TypeOK ==
  /\ call \in Calls
  /\ phase \in Phases
  /\ i \in 0..MaxCpu
  /\ range \in [start: 0..MaxMiRows, stop: 0..MaxMiRows]
  /\ devices \in SUBSET {"cpu0", "cpu1"}
  /\ upper \in [Tasks -> Tasks \cup {NULL}]
  /\ mi_row \in [Tasks -> 0..RowBound]
  /\ busy \in [Tasks -> BOOLEAN]
  /\ state \in [Tasks -> States]
  /\ filtered \in [0..RowBound -> Nat]

(* The superblock rows of the range.                                      *)
SbRows == {r \in range.start..(range.stop - 1) : (r - range.start) % MI_BLOCK_SIZE = 0}

(* Cross-strip dependency: while a task filters superblock row r, the row *)
(* above (r - 8, when it is in the range) has been filtered completely    *)
(* and no task is still filtering it.  This holds only if the `upper`     *)
(* links of vp9_loop_filter_rows_wpp, including the wrap-around of        *)
(* params[0]->upper to the last task, name the task that owns that row.   *)
NoCrossStripRace ==
  \A t \in Tasks :
    busy[t] /\ mi_row[t] - MI_BLOCK_SIZE >= range.start =>
      /\ filtered[mi_row[t] - MI_BLOCK_SIZE] >= 1
      /\ \A u \in Tasks : busy[u] => mi_row[u] # mi_row[t] - MI_BLOCK_SIZE

(* The strips interleave exactly: no superblock row is filtered twice,    *)
(* and when vp9_loop_filter_frame_wpp returns every superblock row of the *)
(* range has been filtered.                                               *)
RowsFilteredOnce ==
  /\ \A r \in 0..RowBound : filtered[r] <= 1
  /\ phase = "done" /\ call.level_on => \A r \in SbRows : filtered[r] = 1

(* Only superblock rows of the frame are filtered, in partial mode too.   *)
RowsInFrame ==
  \A r \in 0..RowBound :
    filtered[r] > 0 => r % MI_BLOCK_SIZE = 0 /\ r < call.mi_rows

(* A task goes back to the task cache only after its worker has finished *)
(* with it.                                                               *)
NoRecycleWhileRunning ==
  \A t \in Tasks : state[t] = "put" => ~busy[t] /\ mi_row[t] >= range.stop

(* task_sync returns for every task: vp9_loop_filter_frame_wpp returns.  *)
Termination == <>(phase = "done")

=============================================================================
