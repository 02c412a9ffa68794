------------------------ MODULE MCFilterLevelTable ------------------------
(* Delta vectors for the FilterLevelTable runs.                           *)
EXTENDS FilterLevelTable, Sequences

\* The defaults of vp9_setup_past_independence (1, 0, -1, -1 and 0, 0),
\* and a header that pushes every inter level out of range both ways.
FromTuple(t) == [i \in 0..(Len(t) - 1) |-> t[i + 1]]
MCRefDeltas == {FromTuple(<<1, 0, -1, -1>>), FromTuple(<<-20, 20, 20, -20>>)}
MCModeDeltas == {FromTuple(<<0, 0>>), FromTuple(<<10, -10>>)}
\* ALT_LF data of either sign (the configuration file has no negative literals).
MCNegativeSegData == {-5, 30}
=============================================================================
