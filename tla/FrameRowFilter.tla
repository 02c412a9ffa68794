--------------------------- MODULE FrameRowFilter ---------------------------
(***************************************************************************)
(* What vp9_loop_filter_frame_wpp promises its caller, with no tasks,     *)
(* threads or devices: it filters a run of superblock rows of the frame, *)
(* each row once, a row only after the row above it (when that row is    *)
(* filtered too) has been finished, and it returns once every requested  *)
(* row is finished and none is still being filtered.  A frame filtered   *)
(* with level 0 requests no row and returns at once.                     *)
(***************************************************************************)
EXTENDS Integers

CONSTANTS
  MiRowsSet    \* the frame heights, in mi rows

SB == 8        \* mi rows per superblock row (MI_BLOCK_SIZE)

MaxRows == CHOOSE m \in MiRowsSet : \A k \in MiRowsSet : k <= m
Rows == 0..(MaxRows - 1)

VARIABLES
  mi_rows,     \* the height of the frame being filtered
  todo,        \* the superblock rows the call filters
  active,      \* the rows being filtered now
  count,       \* count[r]: how often row r has been filtered
  returned     \* the call has returned

avars == <<mi_rows, todo, active, count, returned>>

(* The superblock rows of the mi rows s..e-1, from s on.                  *)
SbRowsOf(s, e) == {r \in s..(e - 1) : (r - s) % SB = 0}

Init ==
  /\ mi_rows \in MiRowsSet
  /\ todo = {}
  /\ active = {}
  /\ count = [r \in Rows |-> 0]
  /\ returned = FALSE

(* The call picks a run of whole superblock rows inside the frame.        *)
Request ==
  /\ ~returned /\ todo = {}
  /\ \E s, e \in 0..mi_rows :
       /\ s % SB = 0 /\ s < e
       /\ todo' = SbRowsOf(s, e)
  /\ UNCHANGED <<mi_rows, active, count, returned>>

(* A row is started once, and only after the row above it is finished.   *)
StartRow(r) ==
  /\ ~returned
  /\ r \in todo \ active
  /\ count[r] = 0
  /\ r - SB \in todo => count[r - SB] = 1 /\ r - SB \notin active
  /\ active' = active \cup {r}
  /\ UNCHANGED <<mi_rows, todo, count, returned>>

EndRow(r) ==
  /\ r \in active
  /\ active' = active \ {r}
  /\ count' = [count EXCEPT ![r] = 1]
  /\ UNCHANGED <<mi_rows, todo, returned>>

Return ==
  /\ ~returned
  /\ active = {}
  /\ \A r \in todo : count[r] = 1
  /\ returned' = TRUE
  /\ UNCHANGED <<mi_rows, todo, active, count>>

Next == Request \/ Return \/ \E r \in Rows : StartRow(r) \/ EndRow(r)

(* The call does not stop half-way: every row it can filter is filtered, *)
(* and once all are, it returns.                                          *)
Spec ==
  /\ Init /\ [][Next]_avars
  /\ WF_avars(Return)
  /\ \A r \in Rows : WF_avars(StartRow(r)) /\ WF_avars(EndRow(r))

=============================================================================
